------------------------ MODULE ReceiverRegistryProofs ------------------------
(***************************************************************************)
(* Proofs about ReceiverRegistry, for every set of devnodes and however    *)
(* often receivers are plugged in and unplugged.                           *)
(*                                                                         *)
(* Here: where the threads are and what they hold, and how many receivers  *)
(* can still be made.  ReceiverRegistryOrderProofs goes on from there.     *)
(***************************************************************************)
EXTENDS ReceiverRegistry, SequenceTheorems, FiniteSetTheorems, TLAPS

-------------------------------------------------------------------------------
(* Where the threads are.                                                  *)

\* Main has not yet asked udev which receivers there are.
Early == {"starting", "resetting", "clearing", "enumerating"}

\* slavery_free has begun.
Late == {"freeing", "freed", "exited"}

\* The types of what the threads share, and of what belongs to one of them.
SharedType ==
  /\ connected \subseteq Devnodes
  /\ life \in [Devnodes -> 0..MaxPlugs]
  /\ netlink \in Seq(Event)
  /\ objects \in Seq([node : Devnodes, life : 0..MaxPlugs])
  /\ freed \subseteq DOMAIN objects
  /\ unfreed \subseteq DOMAIN objects \ freed
  /\ receivers \in Seq(0..Len(objects))
  /\ count \in Nat
  /\ stale \in BOOLEAN

ThreadType ==
  /\ stage \in 0..Len(MonitorCalls)
  /\ acquired \subseteq {"monitor", "udev", "socket"}
  /\ main \in Scanning \cup {"starting", "looping", "indexing", "scanning", "typing",
                             "spinning", "freeing", "freed", "exited"}
  /\ todo \subseteq Devnodes
  /\ {held, current, made} \subseteq 0..Len(objects)
  /\ {found, turn, place} \subseteq Nat
  /\ monitor \in {"absent", "waiting", "opening", "scanning", "growing", "storing",
                  "searching", "shifting", "dropping"}
  /\ event \in Event \cup {NoNode}
  /\ fault \in {"none", "main", "monitor"}
  /\ missed \subseteq connected
  /\ raced \in BOOLEAN

\* What each thread has in its hands follows from where it is.
HandsInv ==
  /\ monitor = "opening" => event \in Event /\ event.action = "add"
  /\ monitor = "searching" => event \in Event /\ event.action = "remove"
  /\ monitor \notin {"opening", "searching"} => event = NoNode
  /\ held # 0 <=> main \in {"growing", "storing"}
  /\ made # 0 <=> monitor \in {"scanning", "growing", "storing"}
  /\ todo # {} => main \in {"opening", "growing", "storing"}

\* How far slavery_monitor_new has come, and what it has acquired by then.
SetupInv ==
  /\ stage = 0 <=> main # "starting"
  /\ stage # 0 => monitor = "absent"
  /\ stage = 1 => acquired = {"monitor"}
  /\ stage = 2 => acquired = {"monitor", "udev"}
  /\ stage \in 3..6 => acquired = {"monitor", "udev", "socket"}
  /\ MonitorWholeOrNot
  /\ ~Subscribed => netlink = <<>>

-------------------------------------------------------------------------------
(* How many receivers can still be made.                                   *)

Adds == {i \in DOMAIN netlink : netlink[i].action = "add"}

\* One for each devnode enumerated but not tried, or that may be enumerated, and
\* one for each add event not yet handled.
ToMake ==
  Cardinality(IF main \in Early THEN Devnodes ELSE todo) + Cardinality(Adds)
    + (IF monitor = "opening" THEN 1 ELSE 0)

CountInv ==
  /\ Plugs \in 0..MaxPlugs
  /\ Len(objects) + ToMake <= Cardinality(Devnodes) + Plugs

-------------------------------------------------------------------------------
(* The operations both threads use.                                        *)

LEMMA MonitorCallsFacts ==
  /\ Len(MonitorCalls) = 6
  /\ MonitorCalls[1].gets = {"udev"} /\ MonitorCalls[2].gets = {"socket"}
  /\ \A s \in 3..6 : MonitorCalls[s].gets = {}
  /\ MonitorCalls[1].undo = {"monitor"} /\ MonitorCalls[2].undo = {"udev", "monitor"}
  /\ \A s \in 3..6 : MonitorCalls[s].undo = {"socket", "udev", "monitor"}
<1> USE DEF MonitorCalls
<1>1. Len(MonitorCalls) = 6
  OBVIOUS
<1>2. MonitorCalls[1].gets = {"udev"} /\ MonitorCalls[2].gets = {"socket"}
  OBVIOUS
<1>3. MonitorCalls[1].undo = {"monitor"} /\ MonitorCalls[2].undo = {"udev", "monitor"}
  OBVIOUS
<1>4. MonitorCalls[3].gets = {} /\ MonitorCalls[4].gets = {}
      /\ MonitorCalls[5].gets = {} /\ MonitorCalls[6].gets = {}
  OBVIOUS
<1>5. MonitorCalls[3].undo = {"socket", "udev", "monitor"}
      /\ MonitorCalls[4].undo = {"socket", "udev", "monitor"}
      /\ MonitorCalls[5].undo = {"socket", "udev", "monitor"}
      /\ MonitorCalls[6].undo = {"socket", "udev", "monitor"}
  OBVIOUS
<1> HIDE DEF MonitorCalls
<1> QED
  BY <1>1, <1>2, <1>3, <1>4, <1>5

LEMMA SharedFacts ==
  ASSUME SharedType
  PROVE  /\ Len(objects) \in Nat /\ DOMAIN objects = 1..Len(objects)
         /\ Len(receivers) \in Nat /\ DOMAIN receivers = 1..Len(receivers)
         /\ \A i \in 1..Len(receivers) : receivers[i] \in 0..Len(objects)
         /\ \A r \in 1..Len(objects) :
              objects[r].node \in Devnodes /\ objects[r].life \in 0..MaxPlugs
         /\ Len(netlink) \in Nat /\ DOMAIN netlink = 1..Len(netlink)
         /\ \A i \in 1..Len(netlink) : netlink[i] \in Event
         /\ MaxPlugs \in Nat /\ count \in Nat
<1> USE DEF SharedType
<1>1. Len(objects) \in Nat /\ DOMAIN objects = 1..Len(objects)
  BY LenProperties
<1>2. Len(receivers) \in Nat /\ DOMAIN receivers = 1..Len(receivers)
  BY LenProperties
<1>3. Len(netlink) \in Nat /\ DOMAIN netlink = 1..Len(netlink)
  BY LenProperties
<1>4. \A i \in 1..Len(receivers) : receivers[i] \in 0..Len(objects)
  BY ElementOfSeq
<1>5. ASSUME NEW r \in 1..Len(objects)
      PROVE  objects[r].node \in Devnodes /\ objects[r].life \in 0..MaxPlugs
  <2>1. objects[r] \in [node : Devnodes, life : 0..MaxPlugs]
    BY ElementOfSeq
  <2> QED
    BY <2>1
<1>6. \A i \in 1..Len(netlink) : netlink[i] \in Event
  BY ElementOfSeq
<1> QED
  BY <1>1, <1>2, <1>3, <1>4, <1>5, <1>6, RegistryAssumption

LEMMA Opened ==
  ASSUME SharedType, NEW n \in Devnodes, Open(n)
  PROVE  /\ n \in connected
         /\ objects' \in Seq([node : Devnodes, life : 0..MaxPlugs])
         /\ Len(objects') = Len(objects) + 1
         /\ DOMAIN objects' = 1..(Len(objects) + 1)
         /\ \A r \in DOMAIN objects : objects'[r] = objects[r]
         /\ objects'[Len(objects) + 1] = [node |-> n, life |-> life[n]]
         /\ receivers \in Seq(0..Len(objects'))
         /\ missed' = missed \ {n}
<1> DEFINE new == [node |-> n, life |-> life[n]]
           Made == [node : Devnodes, life : 0..MaxPlugs]
<1>1. n \in connected /\ objects' = Append(objects, new) /\ missed' = missed \ {n}
  BY DEF Open
<1>2. new \in Made /\ objects \in Seq(Made)
  BY DEF SharedType
<1> HIDE DEF new, Made
<1>3. /\ objects' \in Seq(Made)
      /\ Len(objects') = Len(objects) + 1
      /\ DOMAIN objects' = 1..(Len(objects) + 1)
      /\ \A r \in 1..Len(objects) : objects'[r] = objects[r]
      /\ objects'[Len(objects) + 1] = new
  BY <1>1, <1>2, AppendProperties, LenProperties
<1>4. 0..Len(objects) \subseteq 0..Len(objects')
  BY <1>3, SharedFacts
<1>5. receivers \in Seq(0..Len(objects'))
  BY <1>4, SeqMonotonic DEF SharedType
<1> QED
  BY <1>1, <1>3, <1>5, SharedFacts DEF new, Made

LEMMA Released ==
  ASSUME SharedType, NEW r \in DOMAIN objects, r \notin freed, Free(r)
  PROVE  /\ objects' = objects
         /\ freed' \subseteq DOMAIN objects
         /\ unfreed' \subseteq DOMAIN objects \ freed'
<1>1. CASE freed' = freed \cup {r} /\ unfreed' = unfreed \ {r}
  BY <1>1 DEF SharedType, Free
<1>2. CASE unfreed' = unfreed \cup {r} /\ UNCHANGED freed
  BY <1>2 DEF SharedType, Free
<1> QED
  BY <1>1, <1>2 DEF Free

LEMMA Product == ASSUME NEW c \in Nat \ {0}, NEW n \in Nat PROVE c * n \in Nat /\ c * n >= n
<1>1. (c - 1) * n \in Nat
  OBVIOUS
<1>2. c * n = (c - 1) * n + n
  OBVIOUS
<1> QED
  BY <1>1, <1>2

LEMMA Grown ==
  ASSUME SharedType, Grow
  PROVE  /\ receivers' \in Seq(0..Len(objects))
         /\ Len(receivers') \in Nat
         /\ Len(receivers') > count
         /\ \A k \in 1..Len(receivers') : k <= Len(receivers) => receivers'[k] = receivers[k]
         /\ count' = count
         /\ stale' \in BOOLEAN
<1> DEFINE n == CellsPerReceiver * (count + 1)
<1>a. count \in Nat /\ count + 1 \in Nat /\ CellsPerReceiver \in Nat \ {0}
  BY RegistryAssumption DEF SharedType
<1>1. count \in Nat /\ n \in Nat /\ n >= count + 1
  <2>1. \A c \in Nat \ {0}, m \in Nat : c * m \in Nat /\ c * m >= m
    BY Product
  <2> QED
    BY <1>a, <2>1
<1>2. receivers' = [k \in 1..n |-> IF k <= Len(receivers) THEN receivers[k] ELSE 0]
  BY DEF Grow, Resized
<1> HIDE DEF n
<1>3. \A k \in 1..n : (IF k <= Len(receivers) THEN receivers[k] ELSE 0) \in 0..Len(objects)
  BY SharedFacts
<1>4. receivers' \in [1..n -> 0..Len(objects)]
  BY <1>2, <1>3
<1>5. receivers' \in Seq(0..Len(objects)) /\ Len(receivers') = n
  BY <1>1, <1>4, SeqDef, LenProperties
<1>6. \A k \in 1..n : k <= Len(receivers) => receivers'[k] = receivers[k]
  BY <1>2
<1> QED
  BY <1>1, <1>5, <1>6 DEF Grow

LEMMA Stored ==
  ASSUME SharedType, NEW r \in 0..Len(objects), Store(r)
  PROVE  /\ receivers' \in Seq(0..Len(objects))
         /\ Len(receivers') = Len(receivers)
         /\ count < Len(receivers)
         /\ \A k \in 1..Len(receivers) : k # count + 1 => receivers'[k] = receivers[k]
         /\ receivers'[count + 1] = r
         /\ count' = count + 1
         /\ stale' = stale
<1>1. count + 1 \in 1..Len(receivers) /\ receivers \in Seq(0..Len(objects))
  BY SharedFacts DEF SharedType, Store
<1>2. receivers' = [receivers EXCEPT ![count + 1] = r]
  BY DEF Store
<1>3. receivers' \in Seq(0..Len(objects)) /\ Len(receivers') = Len(receivers)
  BY <1>1, <1>2, ExceptSeq
<1>4. receivers'[count + 1] = r /\ \A k \in 1..Len(receivers) : k # count + 1 => receivers'[k] = receivers[k]
  BY <1>1, <1>2, SharedFacts
<1> QED
  BY <1>3, <1>4 DEF Store

LEMMA Shifted ==
  ASSUME SharedType, place \in Nat, Shift
  PROVE  /\ receivers' \in Seq(0..Len(objects))
         /\ Len(receivers') = Len(receivers)
         /\ count <= Len(receivers)
         /\ \A k \in 1..Len(receivers) :
              receivers'[k] = IF k \in place..(count - 1) THEN receivers[k + 1] ELSE receivers[k]
<1>1. /\ count <= Len(receivers)
      /\ receivers' = [k \in DOMAIN receivers |->
                         IF k \in place..(count - 1) THEN receivers[k + 1] ELSE receivers[k]]
  BY DEF Shift, ShiftFrom
<1>2. \A k \in 1..Len(receivers) :
        (IF k \in place..(count - 1) THEN receivers[k + 1] ELSE receivers[k]) \in 0..Len(objects)
  <2>1. ASSUME NEW k \in 1..Len(receivers), k \in place..(count - 1)
        PROVE  k + 1 \in 1..Len(receivers)
    BY <1>1, <2>1, SharedFacts
  <2> QED
    BY <2>1, SharedFacts
<1>3. receivers' \in [1..Len(receivers) -> 0..Len(objects)]
  BY <1>1, <1>2, SharedFacts
<1>4. receivers' \in Seq(0..Len(objects)) /\ Len(receivers') = Len(receivers)
  BY <1>3, SharedFacts, SeqDef, LenProperties
<1> QED
  BY <1>1, <1>4, SharedFacts

-------------------------------------------------------------------------------
(* Types, and where the threads are.                                       *)

BaseInv == SharedType /\ ThreadType /\ HandsInv /\ SetupInv

LEMMA SetupFrame ==
  ASSUME SetupInv, UNCHANGED setup,
         main' = "starting" <=> main = "starting",
         monitor' = "absent" <=> monitor = "absent",
         Subscribed \/ netlink' = netlink
  PROVE  SetupInv'
BY DEF SetupInv, setup, MonitorWholeOrNot, Subscribed

\* The steps that leave what the threads share as it is.
LEMMA SharedFrame ==
  ASSUME SharedType, UNCHANGED <<kernel, heap, registry>>
  PROVE  SharedType'
BY DEF SharedType, kernel, heap, registry

LEMMA QuietMain ==
  ASSUME BaseInv, UNCHANGED setup,
         Enumerate \/ EnumerateFails \/ ScanReturns \/ LoadArray \/ GetReceiver \/ DevicesScanned
         \/ TypeQ \/ InputEnds \/ StartFree \/ FreeRegistry \/ Exit \/ MainFaults
  PROVE  BaseInv'
<1> USE DEF BaseInv
<1>f. UNCHANGED <<kernel, heap, registry>>
  BY DEF Enumerate, EnumerateFails, ScanReturns, LoadArray, GetReceiver, DevicesScanned, TypeQ, InputEnds, StartFree, FreeRegistry, Exit, MainFaults
<1>s. SharedType'
  BY <1>f, SharedFrame
<1>1. CASE Enumerate
  <2>1. ThreadType'
    BY <1>f, <1>1 DEF ThreadType, Scanning, setup, SharedType, Enumerate, kernel, heap, registry, monitorVars
  <2>2. HandsInv'
    BY <1>1 DEF HandsInv, Enumerate, monitorVars
  <2>3. SetupInv'
    BY <1>1, SetupFrame DEF Enumerate, monitorVars, kernel
  <2> QED
    BY <1>s, <2>1, <2>2, <2>3
<1>2. CASE EnumerateFails
  <2>1. ThreadType'
    BY <1>f, <1>2 DEF ThreadType, Scanning, setup, SharedType, EnumerateFails, kernel, heap, registry, monitorVars
  <2>2. HandsInv'
    BY <1>2 DEF HandsInv, EnumerateFails, monitorVars
  <2>3. SetupInv'
    BY <1>2, SetupFrame DEF EnumerateFails, monitorVars, kernel
  <2> QED
    BY <1>s, <2>1, <2>2, <2>3
<1>3. CASE ScanReturns
  <2>1. ThreadType'
    BY <1>f, <1>3 DEF ThreadType, Scanning, setup, SharedType, ScanReturns, kernel, heap, registry, monitorVars
  <2>2. HandsInv'
    BY <1>3 DEF HandsInv, ScanReturns, monitorVars
  <2>3. SetupInv'
    BY <1>3, SetupFrame DEF ScanReturns, monitorVars, kernel
  <2> QED
    BY <1>s, <2>1, <2>2, <2>3
<1>4. CASE LoadArray
  <2>1. ThreadType'
    BY <1>f, <1>4 DEF ThreadType, Scanning, setup, SharedType, LoadArray, kernel, heap, registry, monitorVars
  <2>2. HandsInv'
    BY <1>4 DEF HandsInv, LoadArray, monitorVars
  <2>3. SetupInv'
    BY <1>4, SetupFrame DEF LoadArray, monitorVars, kernel
  <2> QED
    BY <1>s, <2>1, <2>2, <2>3
<1>5. CASE GetReceiver
  <2>0. current' \in 0..Len(objects)
    <3>1. turn + 1 \in 1..Len(receivers) /\ current' = receivers[turn + 1]
      BY <1>5, SharedFacts DEF GetReceiver, Readable, ThreadType
    <3> QED
      BY <3>1, SharedFacts
  <2>1. ThreadType'
    BY <1>f, <1>5, <2>0 DEF ThreadType, Scanning, setup, GetReceiver, kernel, heap, monitorVars
  <2>2. HandsInv'
    BY <1>5 DEF HandsInv, GetReceiver, monitorVars
  <2>3. SetupInv'
    BY <1>5, SetupFrame DEF GetReceiver, monitorVars, kernel
  <2> QED
    BY <1>s, <2>1, <2>2, <2>3
<1>6. CASE DevicesScanned
  <2>1. ThreadType'
    BY <1>f, <1>6 DEF ThreadType, Scanning, setup, SharedType, DevicesScanned, kernel, heap, registry, monitorVars
  <2>2. HandsInv'
    BY <1>6 DEF HandsInv, DevicesScanned, monitorVars
  <2>3. SetupInv'
    BY <1>6, SetupFrame DEF DevicesScanned, monitorVars, kernel
  <2> QED
    BY <1>s, <2>1, <2>2, <2>3
<1>7. CASE TypeQ
  <2>1. ThreadType'
    BY <1>f, <1>7 DEF ThreadType, Scanning, setup, SharedType, TypeQ, kernel, heap, registry, monitorVars
  <2>2. HandsInv'
    BY <1>7 DEF HandsInv, TypeQ, monitorVars
  <2>3. SetupInv'
    BY <1>7, SetupFrame DEF TypeQ, monitorVars, kernel
  <2> QED
    BY <1>s, <2>1, <2>2, <2>3
<1>8. CASE InputEnds
  <2>1. ThreadType'
    BY <1>f, <1>8 DEF ThreadType, Scanning, setup, SharedType, InputEnds, kernel, heap, registry, monitorVars
  <2>2. HandsInv'
    BY <1>8 DEF HandsInv, InputEnds, monitorVars
  <2>3. SetupInv'
    BY <1>8, SetupFrame DEF InputEnds, monitorVars, kernel
  <2> QED
    BY <1>s, <2>1, <2>2, <2>3
<1>9. CASE StartFree
  <2>1. ThreadType'
    <3>1. /\ main' = "freeing" /\ turn' = 0 /\ found' = count /\ count \in Nat
          /\ UNCHANGED <<setup, todo, held, current, monitorVars, fault, missed, raced,
                         connected, objects>>
      BY <1>9, SharedFacts DEF StartFree, kernel, heap
    <3> QED
      BY <3>1 DEF ThreadType, Scanning, setup, monitorVars
  <2>2. HandsInv'
    BY <1>9 DEF HandsInv, StartFree, monitorVars
  <2>3. SetupInv'
    BY <1>9, SetupFrame DEF StartFree, monitorVars, kernel
  <2> QED
    BY <1>s, <2>1, <2>2, <2>3
<1>10. CASE FreeRegistry
  <2>1. ThreadType'
    BY <1>f, <1>10 DEF ThreadType, Scanning, setup, SharedType, FreeRegistry, kernel, heap, registry, monitorVars
  <2>2. HandsInv'
    BY <1>10 DEF HandsInv, FreeRegistry, monitorVars
  <2>3. SetupInv'
    BY <1>10, SetupFrame DEF FreeRegistry, monitorVars, kernel
  <2> QED
    BY <1>s, <2>1, <2>2, <2>3
<1>11. CASE Exit
  <2>1. ThreadType'
    BY <1>f, <1>11 DEF ThreadType, Scanning, setup, SharedType, Exit, kernel, heap, registry, monitorVars
  <2>2. HandsInv'
    BY <1>11 DEF HandsInv, Exit, monitorVars
  <2>3. SetupInv'
    BY <1>11, SetupFrame DEF Exit, monitorVars, kernel
  <2> QED
    BY <1>s, <2>1, <2>2, <2>3
<1>12. CASE MainFaults
  <2>1. ThreadType'
    BY <1>f, <1>12 DEF ThreadType, Scanning, setup, SharedType, MainFaults, mainVars, kernel, heap, registry, monitorVars
  <2>2. HandsInv'
    BY <1>12 DEF HandsInv, MainFaults, monitorVars, mainVars
  <2>3. SetupInv'
    BY <1>12, SetupFrame DEF MainFaults, monitorVars, kernel, mainVars
  <2> QED
    BY <1>s, <2>1, <2>2, <2>3
<1> QED
  BY <1>1, <1>2, <1>3, <1>4, <1>5, <1>6, <1>7, <1>8, <1>9, <1>10, <1>11, <1>12

LEMMA QuietMonitor ==
  ASSUME BaseInv, UNCHANGED setup,
         MonitorScanned \/ NotFound \/ ReceiveFails \/ MonitorFaults
  PROVE  BaseInv'
<1> USE DEF BaseInv
<1>f. UNCHANGED <<kernel, heap, registry, mainVars>>
  BY DEF MonitorScanned, NotFound, ReceiveFails, MonitorFaults, LeaveSearch
<1>s. SharedType'
  BY <1>f, SharedFrame
<1>1. CASE MonitorScanned
  <2>1. ThreadType'
    BY <1>f, <1>1 DEF ThreadType, Scanning, setup, MonitorScanned, kernel, heap, mainVars
  <2>2. HandsInv'
    BY <1>f, <1>1 DEF HandsInv, MonitorScanned, mainVars
  <2>3. SetupInv'
    BY <1>f, <1>1, SetupFrame DEF MonitorScanned, mainVars, kernel
  <2> QED
    BY <1>s, <2>1, <2>2, <2>3
<1>2. CASE NotFound
  <2>1. ThreadType'
    BY <1>f, <1>2 DEF ThreadType, Scanning, setup, NotFound, LeaveSearch, Touch, kernel, heap, mainVars
  <2>2. HandsInv'
    BY <1>f, <1>2 DEF HandsInv, NotFound, LeaveSearch, Touch, mainVars
  <2>3. SetupInv'
    BY <1>f, <1>2, SetupFrame DEF NotFound, LeaveSearch, Touch, mainVars, kernel
  <2> QED
    BY <1>s, <2>1, <2>2, <2>3
<1>3. CASE ReceiveFails \/ MonitorFaults
  <2>1. ThreadType'
    BY <1>f, <1>3 DEF ThreadType, Scanning, setup, ReceiveFails, MonitorFaults, monitorVars, kernel, heap, mainVars
  <2>2. HandsInv'
    BY <1>f, <1>3 DEF HandsInv, ReceiveFails, MonitorFaults, monitorVars, mainVars
  <2>3. SetupInv'
    BY <1>f, <1>3, SetupFrame DEF ReceiveFails, MonitorFaults, monitorVars, mainVars, kernel
  <2> QED
    BY <1>s, <2>1, <2>2, <2>3
<1> QED
  BY <1>1, <1>2, <1>3

-------------------------------------------------------------------------------
(* Receivers plugged in.                                                   *)

Plugged == {p \in Devnodes \X (1..MaxPlugs) : p[2] <= life[p[1]]}

LEMMA PluggedFacts ==
  ASSUME SharedType
  PROVE  /\ IsFiniteSet(Plugged)
         /\ Plugs \in Nat
         /\ Plugs = Cardinality(Plugged)
         /\ \A n \in Devnodes : life[n] \in Nat /\ life[n] <= Plugs
<1>1. IsFiniteSet(1..MaxPlugs)
  BY FS_Interval, RegistryAssumption
<1>2. IsFiniteSet(Devnodes \X (1..MaxPlugs))
  BY <1>1, FS_Product, RegistryAssumption
<1>3. Plugged \in SUBSET (Devnodes \X (1..MaxPlugs))
  BY DEF Plugged
<1>4. IsFiniteSet(Plugged) /\ Plugs \in Nat /\ Plugs = Cardinality(Plugged)
  BY <1>2, <1>3, FS_Subset, FS_CardinalityType DEF Plugs, Plugged
<1>5. ASSUME NEW n \in Devnodes
      PROVE  life[n] \in Nat /\ life[n] <= Plugs
  <2>1. life[n] \in Nat /\ life[n] <= MaxPlugs
    BY RegistryAssumption DEF SharedType
  <2> DEFINE f == [k \in 1..life[n] |-> <<n, k>>]
  <2>2. \A k \in 1..life[n] : <<n, k>> \in Plugged
    BY <2>1, RegistryAssumption DEF Plugged
  <2>3. f \in Injection(1..life[n], Plugged)
    BY <2>2 DEF Injection, IsInjective
  <2> HIDE DEF f
  <2>4. Cardinality(1..life[n]) <= Cardinality(Plugged)
    BY <1>4, <2>3, FS_Injection
  <2>5. Cardinality(1..life[n]) = life[n]
    BY <2>1, FS_Interval
  <2> QED
    BY <1>4, <2>1, <2>4, <2>5
<1> QED
  BY <1>4, <1>5

LEMMA PlugCounts ==
  ASSUME SharedType, NEW n \in Devnodes, Plug(n)
  PROVE  /\ life' \in [Devnodes -> 0..MaxPlugs]
         /\ Plugs' = Plugs + 1
         /\ Plugs < MaxPlugs
<1>1. life \in [Devnodes -> 0..MaxPlugs] /\ life' = [life EXCEPT ![n] = @ + 1] /\ Plugs < MaxPlugs
  BY DEF Plug, SharedType
<1>2. life[n] \in Nat /\ life[n] <= Plugs /\ Plugs \in Nat /\ IsFiniteSet(Plugged)
  BY PluggedFacts
<1>3. life[n] + 1 \in 1..MaxPlugs
  BY <1>1, <1>2, RegistryAssumption
<1>4. Plugged' = Plugged \cup {<<n, life[n] + 1>>}
  <2>1. ASSUME NEW m \in Devnodes, NEW k \in 1..MaxPlugs
        PROVE  k <= life'[m] <=> k <= life[m] \/ (m = n /\ k = life[n] + 1)
    BY <1>1, <1>2
  <2>2. \A p \in Devnodes \X (1..MaxPlugs) : p = <<p[1], p[2]>>
    OBVIOUS
  <2> QED
    BY <1>3, <2>1, <2>2 DEF Plugged
<1>5. <<n, life[n] + 1>> \notin Plugged
  BY <1>2 DEF Plugged
<1>6. Cardinality(Plugged') = Cardinality(Plugged) + 1
  BY <1>2, <1>4, <1>5, FS_AddElement
<1>7. life' \in [Devnodes -> 0..MaxPlugs]
  BY <1>1, <1>3
<1>8. Plugs' = Cardinality(Plugged')
  BY DEF Plugs, Plugged
<1> QED
  BY <1>1, <1>6, <1>7, <1>8, PluggedFacts

LEMMA QueuedType ==
  ASSUME SharedType, NEW action \in {"add", "remove"}, NEW n \in Devnodes
  PROVE  Queued(action, n) \in Seq(Event)
<1>1. [action |-> action, node |-> n] \in Event /\ netlink \in Seq(Event)
  BY DEF Event, SharedType
<1> QED
  BY <1>1, AppendProperties DEF Queued

-------------------------------------------------------------------------------
(* The steps that change what the threads share.                           *)

LEMMA KernelBase ==
  ASSUME BaseInv, UNCHANGED setup, Kernel
  PROVE  BaseInv'
<1> USE DEF BaseInv
<1>1. PICK n \in Devnodes : Plug(n) \/ Unplug(n)
  BY DEF Kernel
<1>2. UNCHANGED <<heap, registry, mainVars, monitorVars, fault>>
  BY <1>1 DEF Plug, Unplug
<1>3. /\ connected' \subseteq Devnodes
      /\ life' \in [Devnodes -> 0..MaxPlugs]
      /\ netlink' \in Seq(Event)
      /\ missed' \subseteq connected'
      /\ raced' \in BOOLEAN
      /\ ~Subscribed => netlink' = netlink
  <2>1. CASE Plug(n)
    <3>1. connected' \subseteq Devnodes /\ missed' \subseteq connected'
      BY <2>1 DEF Plug, SharedType, ThreadType
    <3>2. life' \in [Devnodes -> 0..MaxPlugs]
      BY <2>1, PlugCounts
    <3>3. netlink' = Queued("add", n)
      BY <2>1 DEF Plug
    <3>4. raced' \in BOOLEAN
      BY <2>1 DEF Plug, ThreadType
    <3> QED
      BY <3>1, <3>2, <3>3, <3>4, QueuedType DEF Queued
  <2>2. CASE Unplug(n)
    <3>1. connected' \subseteq Devnodes /\ missed' \subseteq connected'
      BY <2>2 DEF Unplug, SharedType, ThreadType
    <3>2. life' = life /\ raced' = raced /\ netlink' = Queued("remove", n)
      BY <2>2 DEF Unplug
    <3> QED
      BY <3>1, <3>2, QueuedType DEF Queued, SharedType, ThreadType
  <2> QED
    BY <1>1, <2>1, <2>2
<1>4. SharedType'
  BY <1>2, <1>3 DEF SharedType, heap, registry
<1>5. ThreadType'
  BY <1>2, <1>3 DEF ThreadType, Scanning, setup, heap, mainVars, monitorVars
<1>6. HandsInv'
  BY <1>2 DEF HandsInv, mainVars, monitorVars
<1>7. SetupInv'
  BY <1>2, <1>3, SetupFrame DEF mainVars, monitorVars
<1> QED
  BY <1>4, <1>5, <1>6, <1>7

LEMMA ReceiveBase ==
  ASSUME BaseInv, UNCHANGED setup, Receive
  PROVE  BaseInv'
<1> USE DEF BaseInv
<1>1. /\ monitor = "waiting" /\ netlink # <<>>
      /\ event' = Head(netlink) /\ netlink' = Tail(netlink)
      /\ monitor' = IF Head(netlink).action = "add" THEN "opening" ELSE "searching"
      /\ UNCHANGED <<connected, life, heap, registry, mainVars, made, place, fault, missed, raced>>
  BY DEF Receive, ReceiveInto
<1>2. Head(netlink) \in Event /\ Tail(netlink) \in Seq(Event)
  BY <1>1, HeadTailProperties DEF SharedType
<1>3. Head(netlink).action \in {"add", "remove"}
  BY <1>2 DEF Event
<1>4. SharedType'
  BY <1>1, <1>2 DEF SharedType, heap, registry
<1>5. ThreadType'
  BY <1>1, <1>2 DEF ThreadType, Scanning, setup, heap, mainVars
<1>6. HandsInv'
  <2>1. monitor' \in {"opening", "searching"}
    BY <1>1
  <2>2. monitor' = "opening" => event' \in Event /\ event'.action = "add"
    BY <1>1, <1>2
  <2>3. monitor' = "searching" => event' \in Event /\ event'.action = "remove"
    BY <1>1, <1>2, <1>3
  <2> QED
    BY <1>1, <2>1, <2>2, <2>3 DEF HandsInv, mainVars
<1>7. SetupInv'
  <2>1. Subscribed
    BY <1>1 DEF SetupInv
  <2> QED
    BY <1>1, <2>1, SetupFrame DEF mainVars
<1> QED
  BY <1>4, <1>5, <1>6, <1>7

LEMMA OpenedType ==
  ASSUME SharedType, NEW n \in Devnodes, Open(n) \/ OpenFails(n),
         UNCHANGED <<kernel, freed, unfreed, registry>>
  PROVE  /\ SharedType'
         /\ Len(objects') >= Len(objects)
         /\ missed \subseteq connected => missed' \subseteq connected'
<1>1. CASE Open(n)
  <2>1. /\ objects' \in Seq([node : Devnodes, life : 0..MaxPlugs])
        /\ Len(objects') = Len(objects) + 1
        /\ DOMAIN objects' = 1..(Len(objects) + 1)
        /\ receivers \in Seq(0..Len(objects'))
        /\ missed' = missed \ {n}
    BY <1>1, Opened
  <2>2. freed' \subseteq DOMAIN objects' /\ unfreed' \subseteq DOMAIN objects' \ freed'
    <3>1. DOMAIN objects \subseteq DOMAIN objects'
      BY <2>1, SharedFacts
    <3> QED
      BY <3>1 DEF SharedType
  <2>3. SharedType'
    BY <2>1, <2>2 DEF SharedType, kernel, registry
  <2> QED
    BY <2>1, <2>3, SharedFacts DEF kernel
<1>2. CASE OpenFails(n)
  <2>1. objects' = objects /\ missed' = missed \cup (connected \cap {n})
    BY <1>2 DEF OpenFails
  <2>2. SharedType'
    BY <2>1 DEF SharedType, kernel, registry
  <2> QED
    BY <2>1, <2>2, SharedFacts DEF kernel
<1> QED
  BY <1>1, <1>2

LEMMA MainOpenBase ==
  ASSUME BaseInv, UNCHANGED setup, NEW n \in todo, MainOpen(n)
  PROVE  BaseInv'
<1> USE DEF BaseInv
<1>1. /\ main = "opening" /\ todo' = todo \ {n}
      /\ \/ Open(n) /\ held' = Len(objects) + 1 /\ main' = "growing"
         \/ OpenFails(n) /\ UNCHANGED <<held, main>>
      /\ UNCHANGED <<kernel, freed, unfreed, registry, found, turn, current, monitorVars, fault, raced>>
  BY DEF MainOpen
<1>2. n \in Devnodes
  BY DEF ThreadType
<1>3. /\ SharedType'
      /\ Len(objects') >= Len(objects)
      /\ missed' \subseteq connected'
  BY <1>1, <1>2, OpenedType DEF ThreadType
<1>4. held' \in 0..Len(objects') /\ (held' # 0 <=> main' \in {"growing", "storing"})
  <2>1. CASE Open(n) /\ held' = Len(objects) + 1 /\ main' = "growing"
    <3>1. Len(objects') = Len(objects) + 1
      BY <1>2, <2>1, Opened
    <3> QED
      BY <2>1, <3>1, SharedFacts
  <2>2. CASE held' = held /\ main' = main
    BY <1>1, <1>3, <2>2, SharedFacts DEF ThreadType, HandsInv
  <2> QED
    BY <1>1, <2>1, <2>2
<1>5. {current', made'} \subseteq 0..Len(objects')
  <2>1. current' = current /\ made' = made
    BY <1>1 DEF monitorVars
  <2>2. current \in 0..Len(objects) /\ made \in 0..Len(objects)
    BY DEF ThreadType
  <2>3. Len(objects) \in Nat /\ Len(objects') \in Nat
    BY <1>3, SharedFacts, LenProperties DEF SharedType
  <2> QED
    BY <1>3, <2>1, <2>2, <2>3
<1>6. main' \in {"growing", "opening"}
  BY <1>1
<1>7. ThreadType'
  BY <1>1, <1>3, <1>4, <1>5, <1>6 DEF ThreadType, Scanning, setup, kernel, monitorVars
<1>8. HandsInv'
  BY <1>1, <1>4, <1>6 DEF HandsInv, monitorVars
<1>9. SetupInv'
  BY <1>1, <1>6, SetupFrame DEF monitorVars, kernel
<1> QED
  BY <1>3, <1>7, <1>8, <1>9

LEMMA MonitorOpenBase ==
  ASSUME BaseInv, UNCHANGED setup, MonitorOpen
  PROVE  BaseInv'
<1> USE DEF BaseInv
<1> DEFINE n == event.node
<1>1. /\ monitor = "opening" /\ event' = NoNode
      /\ \/ Open(n) /\ made' = Len(objects) + 1 /\ monitor' = "scanning"
         \/ OpenFails(n) /\ UNCHANGED made /\ monitor' = "waiting"
      /\ UNCHANGED <<kernel, freed, unfreed, registry, mainVars, place, fault, raced>>
  BY DEF MonitorOpen
<1>2. n \in Devnodes
  BY <1>1 DEF HandsInv, Event
<1> HIDE DEF n
<1>3. /\ SharedType'
      /\ Len(objects') >= Len(objects)
      /\ missed' \subseteq connected'
  BY <1>1, <1>2, OpenedType DEF ThreadType
<1>4. made' \in 0..Len(objects') /\ (made' # 0 <=> monitor' \in {"scanning", "growing", "storing"})
  <2>1. CASE Open(n) /\ made' = Len(objects) + 1 /\ monitor' = "scanning"
    <3>1. Len(objects') = Len(objects) + 1
      BY <1>2, <2>1, Opened
    <3> QED
      BY <2>1, <3>1, SharedFacts
  <2>2. CASE made' = made /\ monitor' = "waiting"
    BY <1>1, <1>3, <2>2, SharedFacts DEF ThreadType, HandsInv
  <2> QED
    BY <1>1, <2>1, <2>2
<1>5. {current', held'} \subseteq 0..Len(objects')
  <2>1. current' = current /\ held' = held
    BY <1>1 DEF mainVars
  <2>2. current \in 0..Len(objects) /\ held \in 0..Len(objects)
    BY DEF ThreadType
  <2>3. Len(objects) \in Nat /\ Len(objects') \in Nat
    BY <1>3, SharedFacts, LenProperties DEF SharedType
  <2> QED
    BY <1>3, <2>1, <2>2, <2>3
<1>6. monitor' \in {"scanning", "waiting"}
  BY <1>1
<1>7. ThreadType'
  BY <1>1, <1>3, <1>4, <1>5, <1>6 DEF ThreadType, Scanning, setup, kernel, mainVars
<1>8. HandsInv'
  BY <1>1, <1>4, <1>6 DEF HandsInv, mainVars
<1>9. SetupInv'
  BY <1>1, <1>6, SetupFrame DEF mainVars, kernel
<1> QED
  BY <1>3, <1>7, <1>8, <1>9

LEMMA FreeReceiverBase ==
  ASSUME BaseInv, UNCHANGED setup, FreeReceiver
  PROVE  BaseInv'
<1> USE DEF BaseInv
<1>1. /\ main = "freeing" /\ turn' = turn + 1
      /\ Readable(turn + 1) /\ Usable(receivers[turn + 1])
      /\ Free(receivers[turn + 1])
      /\ UNCHANGED <<kernel, registry, main, todo, held, found, current,
                     monitorVars, fault, missed, raced>>
  BY DEF FreeReceiver
<1>2. receivers[turn + 1] \in DOMAIN objects
  <2>1. turn + 1 \in 1..Len(receivers)
    BY <1>1, SharedFacts DEF Readable, ThreadType
  <2> QED
    BY <1>1, <2>1, SharedFacts DEF Usable
<1>f. /\ objects' = objects
      /\ freed' \subseteq DOMAIN objects /\ unfreed' \subseteq DOMAIN objects \ freed'
  BY <1>1, <1>2, Released DEF Usable
<1>3. SharedType'
  BY <1>1, <1>f DEF SharedType, kernel, registry
<1>4. ThreadType'
  BY <1>1, <1>f DEF ThreadType, Scanning, setup, kernel, monitorVars
<1>5. HandsInv'
  BY <1>1 DEF HandsInv, monitorVars
<1>6. SetupInv'
  BY <1>1, SetupFrame DEF monitorVars, kernel
<1> QED
  BY <1>3, <1>4, <1>5, <1>6

LEMMA RemoveBase ==
  ASSUME BaseInv, UNCHANGED setup, NEW i \in 1..count, RemoveAt(i)
  PROVE  BaseInv'
<1> USE DEF BaseInv
<1>1. /\ monitor = "searching" /\ monitor' = "shifting"
      /\ Sound(i)
      /\ Free(receivers[i])
      /\ place' = i /\ event' = NoNode
      /\ raced' = (raced \/ main \in Scanning)
      /\ UNCHANGED <<kernel, registry, mainVars, made, fault, missed>>
  BY DEF RemoveAt, Matches, Touch
<1>2. receivers[i] \in DOMAIN objects
  <2>1. i \in 1..Len(receivers)
    BY <1>1, SharedFacts DEF Sound
  <2> QED
    BY <1>1, <2>1, SharedFacts DEF Sound, Usable
<1>f. /\ objects' = objects
      /\ freed' \subseteq DOMAIN objects /\ unfreed' \subseteq DOMAIN objects \ freed'
  BY <1>1, <1>2, Released DEF Sound, Usable
<1>3. SharedType'
  BY <1>1, <1>f DEF SharedType, kernel, registry
<1>4. ThreadType'
  BY <1>1, <1>f DEF ThreadType, Scanning, setup, kernel, mainVars
<1>5. HandsInv'
  BY <1>1 DEF HandsInv, mainVars
<1>6. SetupInv'
  BY <1>1, SetupFrame DEF mainVars, kernel
<1> QED
  BY <1>3, <1>4, <1>5, <1>6

\* The steps on the array itself.
LEMMA ArrayType ==
  ASSUME BaseInv, ResetCount \/ ResetArray \/ MainGrow \/ MonitorGrow \/ MainStore
                    \/ MonitorStore \/ Shift \/ Drop
  PROVE  SharedType'
<1>1. UNCHANGED <<kernel, heap>>
  BY DEF ResetCount, ResetArray, MainGrow, MonitorGrow, MainStore, MonitorStore, Shift,
         ShiftFrom, Drop
<1>2. SharedType /\ held \in 0..Len(objects) /\ made \in 0..Len(objects) /\ place \in Nat
  BY DEF BaseInv, ThreadType
<1>3. receivers' \in Seq(0..Len(objects)) /\ count' \in Nat /\ stale' \in BOOLEAN
  <2>1. CASE ResetCount
    BY <1>2, <2>1 DEF ResetCount, SharedType
  <2>2. CASE ResetArray
    BY <1>2, <2>2, EmptySeq DEF ResetArray, SharedType
  <2>3. CASE MainGrow \/ MonitorGrow
    BY <1>2, <2>3, Grown, SharedFacts DEF MainGrow, MonitorGrow
  <2>4. CASE MainStore
    <3>1. Store(held) /\ stale \in BOOLEAN /\ count \in Nat
      BY <1>2, <2>4 DEF MainStore, SharedType
    <3> QED
      BY <1>2, <3>1, Stored
  <2>5. CASE MonitorStore
    <3>1. Store(made) /\ stale \in BOOLEAN /\ count \in Nat
      BY <1>2, <2>5 DEF MonitorStore, SharedType
    <3> QED
      BY <1>2, <3>1, Stored
  <2>6. CASE Shift
    <3>1. count' = count /\ stale' = stale
      BY <2>6 DEF Shift, ShiftFrom
    <3> QED
      BY <1>2, <2>6, <3>1, Shifted DEF SharedType
  <2>7. CASE Drop
    BY <1>2, <2>7 DEF Drop, SharedType
  <2> QED
    BY <2>1, <2>2, <2>3, <2>4, <2>5, <2>6, <2>7
<1> QED
  BY <1>1, <1>2, <1>3 DEF SharedType, kernel, heap

LEMMA MainArrayBase ==
  ASSUME BaseInv, UNCHANGED setup, ResetCount \/ ResetArray \/ MainGrow \/ MainStore
  PROVE  BaseInv'
<1> USE DEF BaseInv
<1>1. UNCHANGED <<kernel, heap, monitorVars, fault, missed, raced, todo, found, turn, current>>
  BY DEF ResetCount, ResetArray, MainGrow, MainStore
<1>2. \/ main = "resetting" /\ main' = "clearing" /\ held' = held
      \/ main = "clearing" /\ main' = "enumerating" /\ held' = held
      \/ main = "growing" /\ main' = "storing" /\ held' = held
      \/ main = "storing" /\ main' = "opening" /\ held' = 0
  BY DEF ResetCount, ResetArray, MainGrow, MainStore
<1>3. SharedType'
  BY ArrayType
<1>4. ThreadType'
  BY <1>1, <1>2, SharedFacts DEF ThreadType, Scanning, setup, kernel, heap, monitorVars
<1>5. HandsInv'
  BY <1>1, <1>2 DEF HandsInv, monitorVars
<1>6. SetupInv'
  BY <1>1, <1>2, SetupFrame DEF monitorVars, kernel
<1> QED
  BY <1>3, <1>4, <1>5, <1>6

LEMMA MonitorArrayBase ==
  ASSUME BaseInv, UNCHANGED setup, MonitorGrow \/ MonitorStore \/ Shift \/ Drop
  PROVE  BaseInv'
<1> USE DEF BaseInv
<1>1. UNCHANGED <<kernel, heap, mainVars, fault, missed, event>>
      /\ raced' = (raced \/ main \in Scanning)
  BY DEF MonitorGrow, MonitorStore, Shift, ShiftFrom, Drop, Touch
<1>2. \/ monitor = "growing" /\ monitor' = "storing" /\ UNCHANGED <<made, place>>
      \/ monitor = "storing" /\ monitor' = "waiting" /\ made' = 0 /\ place' = place
      \/ monitor = "shifting" /\ monitor' = "dropping" /\ UNCHANGED <<made, place>>
      \/ monitor = "dropping" /\ monitor' = "waiting" /\ place' = 0 /\ made' = made
  BY DEF MonitorGrow, MonitorStore, Shift, ShiftFrom, Drop
<1>3. SharedType'
  BY ArrayType
<1>4. ThreadType'
  BY <1>1, <1>2, SharedFacts DEF ThreadType, Scanning, setup, kernel, heap, mainVars
<1>5. HandsInv'
  BY <1>1, <1>2 DEF HandsInv, mainVars
<1>6. SetupInv'
  BY <1>1, <1>2, SetupFrame DEF mainVars, kernel
<1> QED
  BY <1>3, <1>4, <1>5, <1>6

LEMMA StartBase ==
  ASSUME BaseInv, Start
  PROVE  BaseInv'
<1> USE DEF BaseInv
<1>1. main = "starting" /\ monitor = "absent" /\ stage \in 1..6
  BY MonitorCallsFacts DEF Start, MonitorCall, MonitorCallFails, SetupInv, ThreadType
<1>2. /\ UNCHANGED <<connected, life, heap, registry, todo, held, found, turn, current,
                     event, made, place, fault, missed, raced>>
      /\ \/ stage < 6 /\ stage' = stage + 1 /\ main' = main /\ monitor' = monitor
         \/ stage = 6 /\ stage' = 0 /\ main' = "resetting" /\ monitor' = "waiting"
         \/ stage' = 0 /\ main' = "resetting" /\ monitor' = monitor
      /\ netlink' = netlink \/ netlink' = <<>>
  BY <1>1, MonitorCallsFacts DEF Start, MonitorCall, MonitorCallFails, kernel, monitorVars
<1>3. \/ MonitorCall /\ acquired' = acquired \cup MonitorCalls[stage].gets /\ netlink' = netlink
      \/ MonitorCallFails(MonitorCalls[stage].undo)
           /\ acquired' = acquired \ MonitorCalls[stage].undo
           /\ netlink' = <<>> /\ stage' = 0 /\ main' = "resetting" /\ monitor' = monitor
  BY DEF Start, MonitorCall, MonitorCallFails, kernel, monitorVars
<1>4. /\ stage = 1 => acquired = {"monitor"}
      /\ stage = 2 => acquired = {"monitor", "udev"}
      /\ stage \in 3..6 => acquired = {"monitor", "udev", "socket"}
      /\ ~Subscribed => netlink = <<>>
  BY DEF SetupInv
<1>5. netlink' \in Seq(Event)
  BY <1>2, EmptySeq DEF SharedType
<1>6. SharedType'
  BY <1>2, <1>5 DEF SharedType, heap, registry
<1>7. HandsInv'
  BY <1>1, <1>2 DEF HandsInv
<1>8. CASE MonitorCall /\ acquired' = acquired \cup MonitorCalls[stage].gets /\ netlink' = netlink
  <2>1. \/ stage < 6 /\ stage' = stage + 1 /\ main' = "starting" /\ monitor' = "absent"
        \/ stage = 6 /\ stage' = 0 /\ main' = "resetting" /\ monitor' = "waiting"
    BY <1>1, <1>8, MonitorCallsFacts DEF MonitorCall
  <2>2. /\ stage = 1 => acquired' = {"monitor", "udev"}
        /\ stage \in 2..6 => acquired' = {"monitor", "udev", "socket"}
    BY <1>4, <1>8, MonitorCallsFacts
  <2>3. acquired' \subseteq {"monitor", "udev", "socket"}
    BY <1>1, <2>2
  <2>4. ThreadType'
    BY <1>1, <1>2, <2>1, <2>3, MonitorCallsFacts DEF ThreadType, Scanning, heap
  <2>5. Subscribed => Subscribed'
    BY <1>1, <1>8, <2>1 DEF Subscribed
  <2>6. SetupInv'
    <3>1. MonitorWholeOrNot'
      BY <1>1, <2>1, <2>2 DEF MonitorWholeOrNot
    <3> QED
      BY <1>1, <1>4, <1>8, <2>1, <2>2, <2>5, <3>1 DEF SetupInv
  <2> QED
    BY <1>6, <1>7, <2>4, <2>6
<1>9. CASE /\ acquired' = acquired \ MonitorCalls[stage].undo
           /\ netlink' = <<>> /\ stage' = 0 /\ main' = "resetting" /\ monitor' = monitor
  <2>1. acquired' = {}
    <3>1. stage = 1 \/ stage = 2 \/ stage \in 3..6
      BY <1>1
    <3> QED
      BY <1>4, <1>9, <3>1, MonitorCallsFacts
  <2>2. ThreadType'
    <3>1. UNCHANGED <<connected, objects, todo, held, found, turn, current, event, made,
                      place, fault, missed, raced>>
      BY <1>2 DEF heap
    <3>2. stage' \in 0..Len(MonitorCalls)
      BY <1>9, MonitorCallsFacts
    <3> QED
      BY <1>1, <1>9, <2>1, <3>1, <3>2 DEF ThreadType, Scanning
  <2>3. SetupInv'
    BY <1>1, <1>9, <2>1 DEF SetupInv, MonitorWholeOrNot
  <2> QED
    BY <1>6, <1>7, <2>2, <2>3
<1> QED
  BY <1>3, <1>8, <1>9

LEMMA BaseInit == Init => BaseInv
<1> SUFFICES ASSUME Init PROVE BaseInv
  OBVIOUS
<1> USE DEF Init
<1>1. Len(objects) = 0 /\ DOMAIN objects = {}
  BY EmptySeq
<1>2. SharedType
  <2>1. life \in [Devnodes -> 0..MaxPlugs]
    BY RegistryAssumption
  <2>2. /\ netlink \in Seq(Event)
        /\ objects \in Seq([node : Devnodes, life : 0..MaxPlugs])
        /\ receivers \in Seq(0..Len(objects))
    BY EmptySeq
  <2> QED
    BY <2>1, <2>2 DEF SharedType
<1>3. ThreadType
  <2>1. stage \in 0..Len(MonitorCalls)
    BY MonitorCallsFacts
  <2>2. {held, current, made} \subseteq 0..Len(objects)
    BY <1>1
  <2>3. acquired \subseteq {"monitor", "udev", "socket"} /\ todo \subseteq Devnodes
        /\ missed \subseteq connected /\ {found, turn, place} \subseteq Nat
    OBVIOUS
  <2>4. main = "starting" /\ monitor = "absent" /\ fault = "none" /\ raced = FALSE
        /\ event \in Event \cup {NoNode}
    OBVIOUS
  <2> HIDE DEF Init
  <2> QED
    BY <2>1, <2>2, <2>3, <2>4 DEF ThreadType
<1>4. HandsInv
  BY DEF HandsInv
<1>5. SetupInv
  BY DEF SetupInv, MonitorWholeOrNot
<1> QED
  BY <1>2, <1>3, <1>4, <1>5 DEF BaseInv

LEMMA BaseStep ==
  ASSUME BaseInv, [Next]_vars
  PROVE  BaseInv'
<1>1. CASE Start
  BY <1>1, StartBase
<1>2. CASE Kernel /\ UNCHANGED setup
  BY <1>2, KernelBase
<1>3. CASE Main /\ UNCHANGED setup
  BY <1>3, QuietMain, MainArrayBase, MainOpenBase, FreeReceiverBase DEF Main
<1>4. CASE Monitor /\ UNCHANGED setup
  BY <1>4, QuietMonitor, MonitorArrayBase, MonitorOpenBase, ReceiveBase, RemoveBase
     DEF Monitor, Handle, Remove
<1>5. CASE UNCHANGED vars
  <2>1. UNCHANGED <<kernel, heap, registry, setup, mainVars, monitorVars, fault, missed, raced>>
    BY <1>5 DEF vars
  <2>2. SharedType'
    BY <2>1, SharedFrame DEF BaseInv
  <2>3. ThreadType'
    BY <2>1 DEF BaseInv, ThreadType, kernel, heap, setup, mainVars, monitorVars
  <2>4. HandsInv'
    BY <2>1 DEF BaseInv, HandsInv, mainVars, monitorVars
  <2>5. SetupInv'
    BY <2>1, SetupFrame DEF BaseInv, mainVars, monitorVars, kernel
  <2> QED
    BY <2>2, <2>3, <2>4, <2>5 DEF BaseInv
<1> QED
  BY <1>1, <1>2, <1>3, <1>4, <1>5 DEF Next

-------------------------------------------------------------------------------
(* How many receivers can be made.                                         *)

LEMMA AddsFacts ==
  ASSUME SharedType
  PROVE  IsFiniteSet(Adds) /\ Cardinality(Adds) \in Nat
<1>1. IsFiniteSet(1..Len(netlink))
  <2>1. Len(netlink) \in Int /\ 1 \in Int
    BY SharedFacts
  <2> QED
    BY <2>1, FS_Interval
<1>2. Adds \in SUBSET (1..Len(netlink))
  BY SharedFacts DEF Adds
<1> QED
  BY <1>1, <1>2, FS_Subset, FS_CardinalityType

LEMMA AddsQueued ==
  ASSUME SharedType, NEW action \in {"add", "remove"}, NEW n \in Devnodes,
         netlink' = Queued(action, n)
  PROVE  Cardinality(Adds') <= Cardinality(Adds) + IF action = "add" THEN 1 ELSE 0
<1>1. IsFiniteSet(Adds) /\ Cardinality(Adds) \in Nat
  BY AddsFacts
<1>2. CASE netlink' = netlink
  BY <1>1, <1>2 DEF Adds
<1>3. CASE netlink' = Append(netlink, [action |-> action, node |-> n])
  <2> DEFINE e == [action |-> action, node |-> n]
             len == Len(netlink)
  <2>1. e \in Event /\ e.action = action /\ netlink \in Seq(Event) /\ len \in Nat
    BY SharedFacts DEF Event, SharedType
  <2> HIDE DEF e
  <2>2. /\ DOMAIN netlink' = 1..(len + 1)
        /\ DOMAIN netlink = 1..len
        /\ \A i \in 1..len : netlink'[i] = netlink[i]
        /\ netlink'[len + 1] = e
    BY <1>3, <2>1, AppendProperties, LenProperties DEF e
  <2> HIDE DEF len
  <2>3. Adds' = IF action = "add" THEN Adds \cup {len + 1} ELSE Adds
    <3>1. \A i : i \in 1..(len + 1) <=> i \in 1..len \/ i = len + 1
      BY <2>1
    <3>2. \A i : i \in Adds <=> i \in 1..len /\ netlink[i].action = "add"
      BY <2>2 DEF Adds
    <3>3. \A i : i \in Adds' <=> i \in 1..(len + 1) /\ netlink'[i].action = "add"
      BY <2>2 DEF Adds
    <3>4. \A i : i \in Adds' <=> i \in Adds \/ (i = len + 1 /\ action = "add")
      BY <2>1, <2>2, <3>1, <3>2, <3>3
    <3>5. CASE action = "add"
      BY <3>4, <3>5
    <3>6. CASE action # "add"
      BY <3>4, <3>6
    <3> QED
      BY <3>5, <3>6
  <2>4. Cardinality(Adds \cup {len + 1}) <= Cardinality(Adds) + 1
    <3>1. Cardinality(Adds \cup {len + 1})
            = IF len + 1 \in Adds THEN Cardinality(Adds) ELSE Cardinality(Adds) + 1
      BY <1>1, FS_AddElement
    <3> QED
      BY <1>1, <3>1
  <2> QED
    BY <1>1, <2>3, <2>4
<1> QED
  BY <1>2, <1>3 DEF Queued

LEMMA AddsReceived ==
  ASSUME SharedType, netlink # <<>>, netlink' = Tail(netlink)
  PROVE  Cardinality(Adds') + (IF Head(netlink).action = "add" THEN 1 ELSE 0) <= Cardinality(Adds)
<1> DEFINE len == Len(netlink)
<1>1. IsFiniteSet(Adds) /\ Cardinality(Adds) \in Nat
  BY AddsFacts
<1>2. /\ len \in Nat /\ len > 0
      /\ DOMAIN netlink = 1..len
      /\ DOMAIN netlink' = 1..(len - 1)
      /\ \A i \in 1..(len - 1) : netlink'[i] = netlink[i + 1]
      /\ Head(netlink) = netlink[1]
  <2>1. netlink \in Seq(Event)
    BY DEF SharedType
  <2>2. /\ Tail(netlink) \in Seq(Event)
        /\ Len(Tail(netlink)) = len - 1
        /\ \A i \in 1..Len(Tail(netlink)) : Tail(netlink)[i] = netlink[i + 1]
    BY <2>1, HeadTailProperties
  <2>3. len \in Nat /\ len > 0 /\ DOMAIN netlink = 1..len
    BY <2>1, LenProperties, EmptySeq
  <2>4. DOMAIN Tail(netlink) = 1..(len - 1)
    BY <2>2, LenProperties
  <2>5. Head(netlink) = netlink[1]
    BY <2>1
  <2> QED
    BY <2>2, <2>3, <2>4, <2>5
<1> HIDE DEF len
<1> DEFINE f == [i \in Adds' |-> i + 1]
<1>3. /\ \A i \in Adds' : i \in 1..(len - 1) /\ netlink'[i].action = "add"
      /\ \A i \in Adds' : i + 1 \in Adds \ {1}
  BY <1>2 DEF Adds
<1>4. f \in Injection(Adds', Adds \ {1})
  <2>1. f \in [Adds' -> Adds \ {1}]
    BY <1>3
  <2>2. \A i, j \in Adds' : f[i] = f[j] => i = j
    BY <1>3
  <2> QED
    BY <2>1, <2>2 DEF Injection, IsInjective
<1> HIDE DEF f
<1>5. IsFiniteSet(Adds \ {1})
      /\ Cardinality(Adds \ {1}) = IF 1 \in Adds THEN Cardinality(Adds) - 1 ELSE Cardinality(Adds)
  BY <1>1, FS_RemoveElement
<1>6. IsFiniteSet(Adds') /\ Cardinality(Adds') <= Cardinality(Adds \ {1})
  BY <1>4, <1>5, FS_Injection
<1>7. Head(netlink).action = "add" <=> 1 \in Adds
  BY <1>2 DEF Adds
<1>8. Cardinality(Adds') \in Nat
  BY <1>6, FS_CardinalityType
<1> QED
  BY <1>1, <1>5, <1>6, <1>7, <1>8

\* The three parts of ToMake.
ToTry == Cardinality(IF main \in Early THEN Devnodes ELSE todo)
Handed == IF monitor = "opening" THEN 1 ELSE 0

\* What is known of the numbers in CountInv.
Numbers ==
  /\ ToMake = ToTry + Cardinality(Adds) + Handed
  /\ ToTry \in Nat
  /\ Cardinality(Adds) \in Nat
  /\ Handed \in {0, 1}
  /\ IsFiniteSet(todo)
  /\ Cardinality(todo) \in Nat
  /\ Cardinality(todo) <= Cardinality(Devnodes)
  /\ Cardinality(Devnodes) \in Nat
  /\ Plugs \in Nat
  /\ Len(objects) \in Nat

LEMMA NumbersHold == BaseInv => Numbers
<1> SUFFICES ASSUME BaseInv PROVE Numbers
  OBVIOUS
<1>1. IsFiniteSet(Devnodes) /\ todo \in SUBSET Devnodes
  BY RegistryAssumption DEF BaseInv, ThreadType
<1>2. IsFiniteSet(todo) /\ Cardinality(todo) <= Cardinality(Devnodes)
      /\ Cardinality(todo) \in Nat /\ Cardinality(Devnodes) \in Nat
  BY <1>1, FS_Subset, FS_CardinalityType
<1>3. ToTry \in Nat
  BY <1>2 DEF ToTry
<1> QED
  BY <1>2, <1>3, AddsFacts, PluggedFacts, SharedFacts
     DEF BaseInv, Numbers, ToMake, ToTry, Handed

LEMMA NumbersStayed == (BaseInv => Numbers)'
BY NumbersHold, PTL

LEMMA Sums ==
  ASSUME NEW n \in Nat, NEW p \in Nat, NEW a \in Nat, NEW t \in Nat, NEW h \in {0, 1},
         NEW l \in Nat, NEW q \in Nat, NEW b \in Nat, NEW u \in Nat, NEW k \in {0, 1},
         NEW m \in Nat,
         l + (t + a + h) <= n + p,
         q + a + t + h + l >= p + b + u + k + m
  PROVE  m + (u + b + k) <= n + q
OBVIOUS

LEMMA CountFrame ==
  ASSUME BaseInv, BaseInv', CountInv,
         Plugs' + Cardinality(Adds) + ToTry + Handed + Len(objects)
           >= Plugs + Cardinality(Adds') + ToTry' + Handed' + Len(objects'),
         Plugs' \in 0..MaxPlugs
  PROVE  CountInv'
<1>1. /\ ToMake = ToTry + Cardinality(Adds) + Handed
      /\ ToTry \in Nat /\ Cardinality(Adds) \in Nat /\ Handed \in {0, 1}
      /\ Cardinality(Devnodes) \in Nat /\ Plugs \in Nat /\ Len(objects) \in Nat
  BY NumbersHold DEF Numbers
<1>2. /\ ToMake' = ToTry' + Cardinality(Adds') + Handed'
      /\ ToTry' \in Nat /\ Cardinality(Adds') \in Nat /\ Handed' \in {0, 1}
      /\ Plugs' \in Nat /\ Len(objects') \in Nat
  BY NumbersStayed DEF Numbers
<1>3. Len(objects) + (ToTry + Cardinality(Adds) + Handed) <= Cardinality(Devnodes) + Plugs
  BY <1>1 DEF CountInv
<1>4. Len(objects') + (ToTry' + Cardinality(Adds') + Handed') <= Cardinality(Devnodes) + Plugs'
  BY <1>1, <1>2, <1>3, Sums
<1>5. Len(objects') + ToMake' <= Cardinality(Devnodes) + Plugs'
  BY <1>2, <1>4
<1> QED
  BY <1>5 DEF CountInv

LEMMA CountStep ==
  ASSUME BaseInv, BaseInv', CountInv, [Next]_vars
  PROVE  CountInv'
<1> USE DEF BaseInv
<1>p. Plugs \in 0..MaxPlugs
  BY DEF CountInv
<1>f. /\ ToTry \in Nat /\ Cardinality(Adds) \in Nat /\ Handed \in {0, 1}
      /\ Plugs \in Nat /\ Len(objects) \in Nat
      /\ Cardinality(Devnodes) \in Nat /\ Cardinality(todo) \in Nat
      /\ Cardinality(todo) <= Cardinality(Devnodes)
  BY NumbersHold DEF Numbers
<1>g. /\ ToTry' \in Nat /\ Cardinality(Adds') \in Nat /\ Handed' \in {0, 1}
      /\ Plugs' \in Nat /\ Len(objects') \in Nat
      /\ Cardinality(todo') \in Nat /\ Cardinality(todo') <= Cardinality(Devnodes)
  BY NumbersStayed DEF Numbers
<1>l. life' = life => Plugs' = Plugs
  BY DEF Plugs
<1>a. netlink' = netlink => Adds' = Adds
  BY DEF Adds
<1>h. main \in Early => ToTry = Cardinality(Devnodes)
  BY DEF ToTry
<1>1. ASSUME UNCHANGED <<life, netlink, objects, todo>>,
             main' \in Early <=> main \in Early,
             monitor' = "opening" <=> monitor = "opening"
      PROVE  CountInv'
  <2>1. ToTry' = ToTry /\ Handed' = Handed
    BY <1>1 DEF ToTry, Handed
  <2>2. Plugs' = Plugs /\ Adds' = Adds /\ Len(objects') = Len(objects)
    BY <1>1, <1>l, <1>a
  <2> QED
    BY <1>f, <1>p, <2>1, <2>2, CountFrame
<1>2. ASSUME Start
      PROVE  CountInv'
  <2>1. UNCHANGED <<life, objects, todo>> /\ main \in Early /\ main' \in Early
        /\ monitor' # "opening" /\ monitor # "opening"
    BY <1>2 DEF Start, MonitorCall, MonitorCallFails, kernel, heap, monitorVars, Early, SetupInv
  <2>2. CASE netlink' = netlink
    BY <1>1, <2>1, <2>2
  <2>3. CASE netlink' = <<>>
    <3>1. Adds' = {}
      BY <2>3 DEF Adds
    <3>2. Cardinality(Adds') = 0
      BY <3>1, FS_EmptySet
    <3>3. ToTry' = ToTry /\ Handed' = Handed
      BY <2>1 DEF ToTry, Handed
    <3> QED
      BY <1>f, <1>l, <1>p, <2>1, <3>2, <3>3, CountFrame
  <2> QED
    BY <1>2, <2>2, <2>3 DEF Start, MonitorCall, MonitorCallFails, kernel
<1>3. ASSUME NEW n \in Devnodes, Plug(n)
      PROVE  CountInv'
  <2>1. UNCHANGED <<objects, todo, main, monitor>> /\ netlink' = Queued("add", n)
    BY <1>3 DEF Plug, heap, mainVars, monitorVars
  <2>2. Plugs' = Plugs + 1 /\ Plugs < MaxPlugs
    BY <1>3, PlugCounts
  <2>3. Cardinality(Adds') <= Cardinality(Adds) + 1
    BY <2>1, AddsQueued
  <2>4. ToTry' = ToTry /\ Handed' = Handed /\ Len(objects') = Len(objects)
    BY <2>1 DEF ToTry, Handed
  <2>5. Plugs' \in 0..MaxPlugs
    BY <1>f, <2>2, RegistryAssumption
  <2> QED
    BY <1>f, <1>g, <2>2, <2>3, <2>4, <2>5, CountFrame
<1>4. ASSUME NEW n \in Devnodes, Unplug(n)
      PROVE  CountInv'
  <2>1. UNCHANGED <<life, objects, todo, main, monitor>> /\ netlink' = Queued("remove", n)
    BY <1>4 DEF Unplug, heap, mainVars, monitorVars
  <2>2. Cardinality(Adds') <= Cardinality(Adds) + 0
    BY <2>1, AddsQueued
  <2>3. ToTry' = ToTry /\ Handed' = Handed /\ Len(objects') = Len(objects)
    BY <2>1 DEF ToTry, Handed
  <2> QED
    BY <1>f, <1>g, <1>l, <1>p, <2>1, <2>2, <2>3, CountFrame
<1>5. ASSUME Receive
      PROVE  CountInv'
  <2>1. /\ UNCHANGED <<life, objects, todo, main>> /\ monitor = "waiting" /\ netlink # <<>>
        /\ netlink' = Tail(netlink)
        /\ monitor' = IF Head(netlink).action = "add" THEN "opening" ELSE "searching"
    BY <1>5 DEF Receive, ReceiveInto, heap, mainVars
  <2>2. Cardinality(Adds') + (IF Head(netlink).action = "add" THEN 1 ELSE 0) <= Cardinality(Adds)
    BY <2>1, AddsReceived
  <2>3. Handed = 0 /\ Handed' = IF Head(netlink).action = "add" THEN 1 ELSE 0
    BY <2>1 DEF Handed
  <2>4. ToTry' = ToTry /\ Len(objects') = Len(objects) /\ Plugs' = Plugs
    BY <1>l, <2>1 DEF ToTry
  <2> QED
    BY <1>f, <1>g, <1>p, <2>2, <2>3, <2>4, CountFrame
<1>6. ASSUME NEW n \in todo, MainOpen(n)
      PROVE  CountInv'
  <2>1. /\ UNCHANGED <<life, netlink, monitor>> /\ main \notin Early /\ main' \notin Early
        /\ todo' = todo \ {n} /\ (Open(n) \/ OpenFails(n))
    BY <1>6 DEF MainOpen, kernel, monitorVars, Early
  <2>2. n \in Devnodes
    BY DEF ThreadType
  <2>3. Len(objects') <= Len(objects) + 1
    <3>1. CASE Open(n)
      <4>1. Len(objects') = Len(objects) + 1
        BY <2>2, <3>1, Opened
      <4> QED
        BY <1>f, <4>1
    <3>2. CASE OpenFails(n)
      BY <1>f, <3>2 DEF OpenFails
    <3> QED
      BY <2>1, <3>1, <3>2
  <2>4. Cardinality(todo') = Cardinality(todo) - 1
    BY <2>1, NumbersHold, FS_RemoveElement DEF Numbers
  <2>5. ToTry = Cardinality(todo) /\ ToTry' = Cardinality(todo')
    BY <2>1 DEF ToTry
  <2>6. Handed' = Handed /\ Plugs' = Plugs /\ Adds' = Adds
    BY <1>a, <1>l, <2>1 DEF Handed
  <2>7. Plugs' + Cardinality(Adds) + ToTry + Handed + Len(objects)
          >= Plugs + Cardinality(Adds') + ToTry' + Handed' + Len(objects')
    <3>1. Cardinality(Adds') = Cardinality(Adds) /\ ToTry = ToTry' + 1
      BY <1>f, <1>g, <2>4, <2>5, <2>6
    <3>2. /\ Plugs \in Nat /\ Cardinality(Adds) \in Nat /\ ToTry' \in Nat /\ Handed \in {0, 1}
          /\ Len(objects) \in Nat /\ Len(objects') \in Nat
          /\ Len(objects') <= Len(objects) + 1
      BY <1>f, <1>g, <2>3
    <3>3. Plugs + Cardinality(Adds) + (ToTry' + 1) + Handed + Len(objects)
            >= Plugs + Cardinality(Adds) + ToTry' + Handed + Len(objects')
      BY <3>2
    <3>4. Handed' = Handed /\ Plugs' = Plugs
      BY <2>6
    <3> QED
      BY <3>1, <3>3, <3>4
  <2> QED
    BY <1>p, <2>6, <2>7, CountFrame
<1>7. ASSUME MonitorOpen
      PROVE  CountInv'
  <2>1. /\ UNCHANGED <<life, netlink, todo, main>> /\ monitor = "opening" /\ monitor' # "opening"
        /\ Open(event.node) \/ OpenFails(event.node)
    BY <1>7 DEF MonitorOpen, kernel, mainVars
  <2>2. event.node \in Devnodes
    BY <2>1 DEF HandsInv, Event
  <2>3. Len(objects') <= Len(objects) + 1
    <3>1. CASE Open(event.node)
      <4>1. Len(objects') = Len(objects) + 1
        BY <2>2, <3>1, Opened
      <4> QED
        BY <1>f, <4>1
    <3>2. CASE OpenFails(event.node)
      BY <1>f, <3>2 DEF OpenFails
    <3> QED
      BY <2>1, <3>1, <3>2
  <2>4. ToTry' = ToTry /\ Handed = 1 /\ Handed' = 0 /\ Plugs' = Plugs /\ Adds' = Adds
    BY <1>a, <1>l, <2>1 DEF ToTry, Handed
  <2> QED
    BY <1>f, <1>g, <1>p, <2>3, <2>4, CountFrame
<1>8. ASSUME Enumerate \/ EnumerateFails
      PROVE  CountInv'
  <2>1. /\ UNCHANGED <<life, netlink, objects, monitor>> /\ main \in Early /\ main' \notin Early
    BY <1>8 DEF Enumerate, EnumerateFails, kernel, heap, monitorVars, Early
  <2>2. ToTry = Cardinality(Devnodes) /\ ToTry' = Cardinality(todo')
    BY <2>1 DEF ToTry
  <2>3. Handed' = Handed /\ Plugs' = Plugs /\ Adds' = Adds /\ Len(objects') = Len(objects)
    BY <1>a, <1>l, <2>1 DEF Handed
  <2> QED
    BY <1>f, <1>g, <1>p, <2>2, <2>3, CountFrame
<1>9. ASSUME ResetCount \/ ResetArray \/ MainGrow \/ MainStore \/ ScanReturns
               \/ LoadArray \/ GetReceiver \/ DevicesScanned \/ TypeQ \/ InputEnds
               \/ StartFree \/ FreeReceiver \/ FreeRegistry \/ Exit \/ MainFaults
      PROVE  CountInv'
  <2>1. UNCHANGED <<life, netlink, objects, todo, monitor>>
    BY <1>9 DEF ResetCount, ResetArray, MainGrow, MainStore, ScanReturns, LoadArray, GetReceiver,
       DevicesScanned, TypeQ, InputEnds, StartFree, FreeReceiver, FreeRegistry, Exit, MainFaults,
       Free, kernel, heap, mainVars, monitorVars
  <2>2. main' \in Early <=> main \in Early
    BY <1>9 DEF ResetCount, ResetArray, MainGrow, MainStore, ScanReturns, LoadArray, GetReceiver,
       DevicesScanned, TypeQ, InputEnds, StartFree, FreeReceiver, FreeRegistry, Exit, MainFaults,
       mainVars, Early
  <2> QED
    BY <1>1, <2>1, <2>2
<1>10. ASSUME MonitorScanned \/ MonitorGrow \/ MonitorStore \/ NotFound \/ Remove \/ Shift \/ Drop
                \/ ReceiveFails \/ MonitorFaults
       PROVE  CountInv'
  <2>1. UNCHANGED <<life, netlink, objects, todo, main>>
    BY <1>10 DEF MonitorScanned, MonitorGrow, MonitorStore, NotFound, LeaveSearch, Remove, RemoveAt,
       Shift, ShiftFrom, Drop, ReceiveFails, MonitorFaults,
       Free, kernel, heap, mainVars
  <2>2. monitor' = "opening" <=> monitor = "opening"
    BY <1>10 DEF MonitorScanned, MonitorGrow, MonitorStore, NotFound, LeaveSearch, Remove, RemoveAt,
       Shift, ShiftFrom, Drop, ReceiveFails, MonitorFaults, monitorVars
  <2> QED
    BY <1>1, <2>1, <2>2
<1>11. CASE UNCHANGED vars
  BY <1>1, <1>11 DEF vars, kernel, heap, mainVars, monitorVars
<1> QED
  BY <1>2, <1>3, <1>4, <1>5, <1>6, <1>7, <1>8, <1>9, <1>10, <1>11
     DEF Next, Kernel, Main, Monitor, Handle

LEMMA CountInit == Init => CountInv
<1> SUFFICES ASSUME Init PROVE CountInv
  OBVIOUS
<1>1. BaseInv
  BY BaseInit
<1>2. Adds = {} /\ Plugged = {}
  <2>1. \A p \in Devnodes \X (1..MaxPlugs) : ~(p[2] <= life[p[1]])
    BY RegistryAssumption DEF Init
  <2> QED
    BY <2>1 DEF Init, Adds, Plugged
<1>3. Cardinality(Adds) = 0 /\ Plugs = 0
  BY <1>1, <1>2, FS_EmptySet, PluggedFacts DEF BaseInv
<1>4. ToTry = Cardinality(Devnodes) /\ Handed = 0 /\ Len(objects) = 0
  BY EmptySeq DEF Init, ToTry, Handed, Early
<1> QED
  BY <1>1, <1>3, <1>4, NumbersHold, RegistryAssumption DEF CountInv, Numbers

LEMMA BaseInvariant == Spec => [](BaseInv /\ CountInv)
<1>1. Init => BaseInv /\ CountInv
  BY BaseInit, CountInit
<1>2. BaseInv /\ CountInv /\ [Next]_vars => (BaseInv /\ CountInv)'
  BY BaseStep, CountStep
<1> QED
  BY <1>1, <1>2, PTL DEF Spec

\* Every variable keeps its type, whatever comes and goes and however the threads
\* interleave: each receiver made is owed to a devnode enumerated or to one add
\* event.
THEOREM TypeCorrect == Spec => []TypeOK
<1>1. ASSUME BaseInv, CountInv
      PROVE  TypeOK
  <2>1. Len(objects) <= MaxObjects
    BY <1>1, NumbersHold, RegistryAssumption DEF CountInv, MaxObjects, Numbers
  <2> QED
    BY <1>1, <2>1 DEF BaseInv, SharedType, ThreadType, TypeOK
<1> QED
  BY <1>1, BaseInvariant, PTL

\* slavery_monitor_new keeps all or nothing, wherever it fails.
THEOREM SetupCorrect == Spec => []MonitorWholeOrNot
<1>1. BaseInv => MonitorWholeOrNot
  BY DEF BaseInv, SetupInv
<1> QED
  BY <1>1, BaseInvariant, PTL
===============================================================================
