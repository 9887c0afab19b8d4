--------------------- MODULE ReceiverRegistryOrderProofs ---------------------
(***************************************************************************)
(* Proofs about ReceiverRegistry as long as the monitor and the            *)
(* enumeration have not overlapped: what the cells of the array hold,      *)
(* which memory the threads touch, and how the receivers follow the        *)
(* events.                                                                 *)
(***************************************************************************)
EXTENDS ReceiverRegistryProofs

-------------------------------------------------------------------------------
(* What the cells of the array hold.                                       *)

\* What slavery_receiver_free has been called for, whether it came to an end or gave up.
Gone == freed \cup unfreed

Alive == DOMAIN objects \ Gone

\* The monitor is removing a receiver: one cell below count holds none.
Removing == {"shifting", "dropping"}

InUse(i) ==
  /\ i \in 1..count
  /\ monitor = "shifting" => i # place
  /\ monitor = "dropping" => i # count

\* Unless the monitor and the enumeration overlapped, until slavery_free frees.
Orderly == ~raced /\ (main \notin Late \/ Gone = {})

\* Where the threads may be, and how much of the array there is.
Bounds ==
  /\ count <= Len(receivers)
  /\ main = "storing" \/ monitor = "storing" => count < Len(receivers)
  /\ monitor = "shifting" => place \in 1..count
  /\ monitor = "dropping" => count > 0
  /\ monitor \in Removing => Gone # {}
  /\ main \in Scanning \cup {"starting"} => monitor \notin Removing \cup {"storing"}

\* Each receiver that is alive is in one cell, or in the hands that made it.
Contents ==
  /\ \A i \in 1..count : InUse(i) => receivers[i] \in Alive \ {held, made}
  /\ \A i, j \in 1..count :
       InUse(i) /\ InUse(j) /\ i # j => receivers[i] # receivers[j]
  /\ {held, made} \ {0} \subseteq Alive
  /\ held # 0 => held # made
  /\ \A r \in Alive \ {held, made} : \E i \in 1..count : InUse(i) /\ receivers[i] = r

CellsInv == Orderly => Bounds /\ Contents

\* Before the enumeration nothing has been made, unless it has been overlapped.
EarlyInv ==
  ~raced /\ main \in Early =>
    /\ objects = <<>>
    /\ count = 0
    /\ missed = {}
    /\ monitor \in {"absent", "waiting", "searching"}
    /\ Adds = {}

\* What main's loop and slavery_free may rely on, as long as no receiver is freed or
\* given up.
LoopInv ==
  ~raced /\ Gone = {} =>
    /\ main \in Scanning \cup {"starting"} => found = 0
    /\ main \in {"looping", "indexing", "scanning", "typing", "spinning", "freeing"} =>
         found <= count
    /\ main = "indexing" => turn < found
    /\ main = "scanning" => current # 0

OrderInv == EarlyInv /\ CellsInv /\ LoopInv /\ DefinedUnlessRaced

-------------------------------------------------------------------------------
(* What no step takes back.                                                *)

LEMMA FreeIsGone ==
  ASSUME NEW r, Free(r)
  PROVE  objects' = objects /\ Gone' = Gone \cup {r}
BY DEF Free, Gone

LEMMA GoneFacts ==
  ASSUME SharedType
  PROVE  Gone \subseteq DOMAIN objects
BY DEF SharedType, Gone

LEMMA Monotone ==
  ASSUME BaseInv, [Next]_vars
  PROVE  /\ raced => raced'
         /\ Gone \subseteq Gone'
         /\ main' \in Early => main \in Early
         /\ main' \in Scanning \cup {"starting"} => main \in Scanning \cup {"starting"}
         /\ main \in Late => main' \in Late
<1> USE DEF Early, Late, Scanning
<1>1. CASE Start
  <2>1. UNCHANGED <<Gone, raced>> /\ main = "starting" /\ main' \in {"starting", "resetting"}
    BY <1>1 DEF Start, MonitorCall, MonitorCallFails, heap, Gone
  <2> QED
    BY <2>1
<1>2. CASE Kernel
  <2>1. UNCHANGED <<Gone, main>>
    BY <1>2 DEF Kernel, Plug, Unplug, heap, Gone, mainVars
  <2>2. raced => raced'
    BY <1>2 DEF Kernel, Plug, Unplug
  <2> QED
    BY <2>1, <2>2
<1>3. CASE Main
  <2>1. CASE ResetCount \/ ResetArray \/ Enumerate \/ EnumerateFails \/ ScanReturns
    BY <2>1 DEF ResetCount, ResetArray, Enumerate, EnumerateFails, ScanReturns, heap, Gone
  <2>2. CASE \E n \in todo : MainOpen(n)
    BY <2>2 DEF MainOpen, Gone
  <2>3. CASE MainGrow \/ MainStore
    BY <2>3 DEF MainGrow, MainStore, heap, Gone
  <2>4. CASE LoadArray \/ GetReceiver \/ DevicesScanned \/ TypeQ \/ InputEnds
    BY <2>4 DEF LoadArray, GetReceiver, DevicesScanned, TypeQ, InputEnds, heap, Gone
  <2>5. CASE StartFree \/ FreeRegistry \/ Exit \/ MainFaults
    BY <2>5 DEF StartFree, FreeRegistry, Exit, MainFaults, heap, Gone, mainVars
  <2>6. CASE FreeReceiver
    <3>1. Gone \subseteq Gone'
      BY <2>6, FreeIsGone DEF FreeReceiver
    <3> QED
      BY <2>6, <3>1 DEF FreeReceiver
  <2> QED
    BY <1>3, <2>1, <2>2, <2>3, <2>4, <2>5, <2>6 DEF Main
<1>4. CASE Monitor
  <2>1. CASE Receive \/ ReceiveFails \/ MonitorOpen \/ MonitorScanned \/ MonitorFaults
    BY <2>1 DEF Receive, ReceiveInto, ReceiveFails, MonitorOpen, MonitorScanned, MonitorFaults,
       heap, Gone, mainVars
  <2>2. CASE MonitorGrow \/ MonitorStore \/ NotFound
    BY <2>2 DEF MonitorGrow, MonitorStore, NotFound, LeaveSearch, Touch, heap, Gone, mainVars
  <2>3. CASE Remove
    <3>1. Gone \subseteq Gone'
      BY <2>3, FreeIsGone DEF Remove, RemoveAt
    <3> QED
      BY <2>3, <3>1 DEF Remove, RemoveAt, Touch, mainVars
  <2>4. CASE Shift \/ Drop
    BY <2>4 DEF Shift, ShiftFrom, Drop, Touch, heap, Gone, mainVars
  <2> QED
    BY <1>4, <2>1, <2>2, <2>3, <2>4 DEF Monitor, Handle
<1>5. CASE UNCHANGED vars
  BY <1>5 DEF vars, heap, Gone, mainVars
<1> QED
  BY <1>1, <1>2, <1>3, <1>4, <1>5 DEF Next

LEMMA OrderlyBefore ==
  ASSUME BaseInv, [Next]_vars, Orderly'
  PROVE  Orderly
BY Monotone DEF Orderly

\* The steps of Next, those that leave the objects, the array and the threads'
\* hands alone first.
Idle ==
  /\ UNCHANGED <<objects, Gone, receivers, count, held, made, place>>
  /\ \A s \in {"shifting", "dropping", "storing"} : monitor' = s <=> monitor = s
  /\ main' = "storing" <=> main = "storing"

Working ==
  \/ ResetCount \/ ResetArray \/ MainGrow \/ MainStore \/ FreeReceiver
  \/ \E n \in todo : MainOpen(n) /\ Open(n)
  \/ MonitorOpen /\ Open(event.node)
  \/ MonitorGrow \/ MonitorStore \/ Remove \/ Shift \/ Drop

LEMMA IdleOrWorking ==
  ASSUME BaseInv, [Next]_vars
  PROVE  Idle \/ Working
<1> USE DEF BaseInv
<1>1. CASE Start
  BY <1>1 DEF Start, MonitorCall, MonitorCallFails, heap, Gone, registry, monitorVars, SetupInv, Idle
<1>2. CASE Kernel
  BY <1>2 DEF Kernel, Plug, Unplug, heap, Gone, registry, mainVars, monitorVars, Idle
<1>3. CASE Main
  <2>1. CASE Enumerate \/ EnumerateFails \/ ScanReturns
    BY <2>1 DEF Enumerate, EnumerateFails, ScanReturns, heap, Gone, registry, monitorVars, Idle
  <2>2. ASSUME NEW n \in todo, MainOpen(n), ~Open(n)
        PROVE  Idle
    BY <2>2 DEF MainOpen, OpenFails, heap, Gone, registry, monitorVars, Idle
  <2>4. CASE LoadArray \/ GetReceiver \/ DevicesScanned \/ TypeQ \/ InputEnds
    BY <2>4 DEF LoadArray, GetReceiver, DevicesScanned, TypeQ, InputEnds, heap, Gone, registry,
       monitorVars, Idle
  <2>5. CASE StartFree \/ FreeRegistry \/ Exit \/ MainFaults
    BY <2>5 DEF StartFree, FreeRegistry, Exit, MainFaults, heap, Gone, registry, mainVars,
       monitorVars, Idle
  <2> QED
    BY <1>3, <2>1, <2>2, <2>4, <2>5 DEF Main, Working
<1>4. CASE Monitor
  <2>1. CASE Receive \/ ReceiveFails \/ MonitorScanned \/ MonitorFaults \/ NotFound
    BY <2>1 DEF Receive, ReceiveInto, ReceiveFails, MonitorScanned, MonitorFaults, NotFound,
       LeaveSearch, Touch,
       heap, Gone, registry, mainVars, monitorVars, Idle
  <2>2. CASE MonitorOpen /\ ~Open(event.node)
    BY <2>2 DEF MonitorOpen, OpenFails, Gone, registry, mainVars, Idle
  <2> QED
    BY <1>4, <2>1, <2>2 DEF Monitor, Handle, Working
<1>5. CASE UNCHANGED vars
  BY <1>5 DEF vars, heap, Gone, registry, mainVars, monitorVars, Idle
<1> QED
  BY <1>1, <1>2, <1>3, <1>4, <1>5 DEF Next

-------------------------------------------------------------------------------
(* Before the enumeration.                                                 *)

LEMMA EarlyStep ==
  ASSUME BaseInv, [Next]_vars, EarlyInv
  PROVE  EarlyInv'
<1> USE DEF BaseInv
<1> SUFFICES ASSUME ~raced', main' \in Early
             PROVE  /\ objects' = <<>>
                    /\ count' = 0
                    /\ missed' = {}
                    /\ monitor' \in {"absent", "waiting", "searching"}
                    /\ Adds' = {}
  BY DEF EarlyInv
<1>1. ~raced /\ main \in Early
  BY Monotone
<1>2. /\ objects = <<>> /\ count = 0 /\ missed = {} /\ Adds = {}
      /\ monitor \in {"absent", "waiting", "searching"}
  BY <1>1 DEF EarlyInv
<1>3. CASE Start
  <2>1. /\ UNCHANGED <<objects, count, missed>>
        /\ monitor' \in {monitor, "waiting"}
        /\ netlink' \in {netlink, <<>>}
    BY <1>3 DEF Start, MonitorCall, MonitorCallFails, kernel, heap, registry, monitorVars
  <2> QED
    BY <1>2, <2>1 DEF Adds
<1>4. CASE Kernel
  <2>1. PICK n \in Devnodes : Plug(n) \/ Unplug(n)
    BY <1>4 DEF Kernel
  <2>2. UNCHANGED <<objects, count, monitor>> /\ missed' \subseteq missed
    BY <2>1 DEF Plug, Unplug, heap, registry, monitorVars
  <2>3. CASE netlink' = netlink
    BY <1>2, <2>2, <2>3 DEF Adds
  <2>4. CASE netlink' = Append(netlink, [action |-> "remove", node |-> n])
    <3>1. netlink \in Seq(Event) /\ [action |-> "remove", node |-> n] \in Event
      BY DEF SharedType, Event
    <3>2. /\ DOMAIN netlink' = 1..(Len(netlink) + 1)
          /\ \A i \in 1..Len(netlink) : netlink'[i] = netlink[i]
          /\ netlink'[Len(netlink) + 1].action = "remove"
      BY <2>4, <3>1, AppendProperties, LenProperties
    <3>3. \A i \in DOMAIN netlink' : netlink'[i].action # "add"
      BY <1>2, <3>2, SharedFacts DEF Adds
    <3> QED
      BY <1>2, <2>2, <3>3 DEF Adds
  <2>5. CASE Plug(n) /\ Subscribed
    <3>1. main' \in Early /\ main' = main
      BY <2>5 DEF Plug, mainVars
    <3> QED
      BY <2>5, <3>1 DEF Plug, Early
  <2> QED
    BY <2>1, <2>3, <2>4, <2>5 DEF Plug, Unplug, Queued
<1>5. CASE Main
  <2>1. UNCHANGED <<netlink, objects, monitor>> /\ count' \in {0, count} /\ missed' = missed
    <3>1. ResetCount \/ ResetArray \/ MainFaults
      BY <1>1, <1>5 DEF Main, Early, ResetCount, ResetArray, Enumerate, EnumerateFails, MainOpen,
         MainGrow, MainStore, ScanReturns, LoadArray, GetReceiver, DevicesScanned, TypeQ, InputEnds,
         StartFree, FreeReceiver, FreeRegistry, Exit
    <3> QED
      BY <3>1 DEF ResetCount, ResetArray, MainFaults, kernel, heap, registry, monitorVars
  <2> QED
    BY <1>2, <2>1 DEF Adds
<1>6. CASE Monitor
  <2>1. Receive \/ ReceiveFails \/ NotFound \/ MonitorFaults
    <3>1. ~Remove
      BY <1>2 DEF Remove
    <3> QED
      BY <1>2, <1>6, <3>1 DEF Monitor, Handle, MonitorOpen, MonitorScanned, MonitorGrow, MonitorStore,
         Shift, ShiftFrom, Drop
  <2>2. CASE Receive
    <3>1. netlink # <<>> /\ netlink' = Tail(netlink) /\ UNCHANGED <<objects, count, missed>>
          /\ monitor' = IF Head(netlink).action = "add" THEN "opening" ELSE "searching"
      BY <2>2 DEF Receive, ReceiveInto, heap, registry
    <3>2. /\ Len(netlink) > 0 /\ Head(netlink) = netlink[1]
          /\ \A i \in DOMAIN netlink' : i + 1 \in DOMAIN netlink /\ netlink'[i] = netlink[i + 1]
      <4>1. netlink \in Seq(Event)
        BY DEF SharedType
      <4>2. /\ Tail(netlink) \in Seq(Event)
            /\ Len(Tail(netlink)) = Len(netlink) - 1
            /\ \A i \in 1..Len(Tail(netlink)) : Tail(netlink)[i] = netlink[i + 1]
        BY <3>1, <4>1, HeadTailProperties
      <4>3. Len(netlink) \in Nat /\ Len(netlink) > 0 /\ DOMAIN netlink = 1..Len(netlink)
        BY <3>1, <4>1, LenProperties, EmptySeq
      <4>4. DOMAIN Tail(netlink) = 1..(Len(netlink) - 1)
        BY <4>2, LenProperties
      <4>5. Head(netlink) = netlink[1]
        BY <4>1
      <4> QED
        BY <3>1, <4>2, <4>3, <4>4, <4>5
    <3>3. \A i \in DOMAIN netlink : netlink[i].action # "add"
      BY <1>2 DEF Adds
    <3>4. monitor' = "searching"
      BY <3>1, <3>2, <3>3, SharedFacts
    <3>5. Adds' = {}
      BY <3>2, <3>3 DEF Adds
    <3> QED
      BY <1>2, <3>1, <3>4, <3>5
  <2>3. CASE ReceiveFails \/ NotFound \/ MonitorFaults
    <3>1. UNCHANGED <<netlink, objects, count, missed>> /\ monitor' \in {monitor, "waiting"}
      BY <2>3 DEF ReceiveFails, NotFound, LeaveSearch, MonitorFaults, kernel, heap, registry, monitorVars
    <3> QED
      BY <1>2, <3>1 DEF Adds
  <2> QED
    BY <2>1, <2>2, <2>3
<1>7. CASE UNCHANGED vars
  <2>1. UNCHANGED <<netlink, objects, count, missed, monitor>>
    BY <1>7 DEF vars, kernel, heap, registry, monitorVars
  <2> QED
    BY <1>2, <2>1 DEF Adds
<1> QED
  BY <1>3, <1>4, <1>5, <1>6, <1>7 DEF Next

-------------------------------------------------------------------------------
(* The cells.                                                              *)

\* What the proofs below start from.
LEMMA CellsFacts ==
  ASSUME BaseInv, [Next]_vars, CellsInv, Orderly'
  PROVE  Orderly /\ Bounds /\ Contents /\ ~raced
BY OrderlyBefore DEF CellsInv, Orderly

LEMMA CellsIdle ==
  ASSUME BaseInv, [Next]_vars, CellsInv, Idle
  PROVE  CellsInv'
<1> SUFFICES ASSUME Orderly' PROVE (Bounds /\ Contents)'
  BY DEF CellsInv
<1>1. Bounds /\ Contents
  BY CellsFacts
<1>2. /\ UNCHANGED <<objects, Gone, receivers, count, held, made, place>>
      /\ monitor' = "shifting" <=> monitor = "shifting"
      /\ monitor' = "dropping" <=> monitor = "dropping"
      /\ monitor' = "storing" <=> monitor = "storing"
      /\ main' = "storing" <=> main = "storing"
  BY DEF Idle
<1>3. main' \in Scanning \cup {"starting"} => main \in Scanning \cup {"starting"}
  BY Monotone
<1>4. Bounds'
  BY <1>1, <1>2, <1>3 DEF Bounds, Removing
<1>5. Contents'
  BY <1>1, <1>2 DEF Contents, InUse, Alive
<1> QED
  BY <1>4, <1>5

LEMMA CellsReset ==
  ASSUME BaseInv, [Next]_vars, CellsInv, EarlyInv, ResetCount \/ ResetArray
  PROVE  CellsInv'
<1> SUFFICES ASSUME Orderly' PROVE (Bounds /\ Contents)'
  BY DEF CellsInv
<1>1. Bounds /\ Contents /\ ~raced
  BY CellsFacts
<1>2. /\ main \in Early /\ main' \notin {"growing", "storing"} /\ count' \in {0, count}
      /\ receivers' \in {receivers, <<>>}
      /\ UNCHANGED <<heap, monitorVars, held, made, place>>
  BY DEF ResetCount, ResetArray, Early, monitorVars
<1>3. objects = <<>> /\ count = 0 /\ monitor \in {"absent", "waiting", "searching"}
  BY <1>1, <1>2 DEF EarlyInv
<1>4. held = 0 /\ made = 0
  BY <1>2, <1>3 DEF BaseInv, HandsInv, Early
<1>5. Alive' = {} /\ count' = 0 /\ monitor' \notin Removing \cup {"storing"}
  BY <1>2, <1>3 DEF Alive, heap, Gone, monitorVars, Removing
<1>6. Len(receivers') >= 0
  BY <1>2, SharedFacts DEF BaseInv
<1>7. Bounds'
  BY <1>2, <1>5, <1>6 DEF Bounds, Removing
<1>8. Contents'
  BY <1>2, <1>4, <1>5 DEF Contents
<1> QED
  BY <1>7, <1>8

LEMMA CellsOpen ==
  ASSUME BaseInv, [Next]_vars, CellsInv, NEW n \in Devnodes, Open(n),
         \/ MainOpen(n)
         \/ MonitorOpen /\ n = event.node
  PROVE  CellsInv'
<1> USE DEF BaseInv
<1> SUFFICES ASSUME Orderly' PROVE (Bounds /\ Contents)'
  BY DEF CellsInv
<1>1. Bounds /\ Contents /\ ~raced
  BY CellsFacts
<1> DEFINE new == Len(objects) + 1
<1>2. /\ new \in Nat /\ new # 0 /\ new \notin DOMAIN objects
      /\ DOMAIN objects' = DOMAIN objects \cup {new}
      /\ new \notin Gone /\ 0 \notin DOMAIN objects /\ held # new /\ made # new
  <2>1. DOMAIN objects = 1..Len(objects) /\ DOMAIN objects' = 1..(Len(objects) + 1) /\ Len(objects) \in Nat
    BY Opened, SharedFacts
  <2>2. held \in 0..Len(objects) /\ made \in 0..Len(objects) /\ Gone \subseteq 1..Len(objects)
    BY <2>1, GoneFacts DEF ThreadType
  <2> QED
    BY <2>1, <2>2
<1> HIDE DEF new
<1>3. Alive' = Alive \cup {new} /\ new \notin Alive /\ 0 \notin Alive
  <2>1. Gone' = Gone
    BY DEF MainOpen, MonitorOpen, Gone
  <2> QED
    BY <1>2, <2>1 DEF Alive
<1>4. /\ UNCHANGED <<Gone, receivers, count, place>>
      /\ \/ held = 0 /\ held' = new /\ made' = made /\ monitor' = monitor /\ main' = "growing"
         \/ made = 0 /\ made' = new /\ held' = held /\ main' = main /\ monitor = "opening" /\ monitor' = "scanning"
  <2>1. CASE MainOpen(n)
    <3>1. main = "opening" /\ held = 0
      BY <2>1 DEF MainOpen, HandsInv
    <3>2. held' = new /\ main' = "growing"
      <4>1. ~OpenFails(n)
        <5>1. objects' # objects
          BY <1>2
        <5> QED
          BY <5>1 DEF OpenFails
      <4> QED
        BY <2>1, <4>1 DEF MainOpen, new
    <3> QED
      BY <2>1, <3>1, <3>2 DEF MainOpen, Gone, registry, monitorVars
  <2>2. CASE MonitorOpen /\ n = event.node
    <3>1. monitor = "opening" /\ made = 0
      BY <2>2 DEF MonitorOpen, HandsInv
    <3>2. made' = new /\ monitor' = "scanning"
      <4>1. ~OpenFails(n)
        <5>1. objects' # objects
          BY <1>2
        <5> QED
          BY <5>1 DEF OpenFails
      <4> QED
        BY <2>2, <4>1 DEF MonitorOpen, new
    <3> QED
      BY <2>2, <3>1, <3>2 DEF MonitorOpen, Gone, registry, mainVars
  <2> QED
    BY <2>1, <2>2
<1>5. Bounds'
  BY <1>1, <1>4, Monotone DEF Bounds, Removing
<1>6. \A i : InUse(i)' <=> InUse(i)
  BY <1>4 DEF InUse
<1>7. Contents'
  <2>1. \A r : r \in (Alive \ {held, made})' <=> r \in Alive \ {held, made}
    BY <1>1, <1>2, <1>3, <1>4 DEF Contents
  <2>2. (held # 0 => held # made)' /\ ({held, made} \ {0} \subseteq Alive)'
    BY <1>1, <1>2, <1>3, <1>4 DEF Contents
  <2> QED
    BY <1>1, <1>4, <1>6, <2>1, <2>2 DEF Contents
<1> QED
  BY <1>5, <1>7

LEMMA CellsGrow ==
  ASSUME BaseInv, [Next]_vars, CellsInv, MainGrow \/ MonitorGrow
  PROVE  CellsInv'
<1> USE DEF BaseInv
<1> SUFFICES ASSUME Orderly' PROVE (Bounds /\ Contents)'
  BY DEF CellsInv
<1>1. Bounds /\ Contents /\ ~raced /\ ~raced'
  BY CellsFacts DEF Orderly
<1>2. Grow /\ UNCHANGED <<objects, Gone, held, made, place>>
  BY DEF MainGrow, MonitorGrow, heap, Gone, mainVars, monitorVars
<1>3. /\ Len(receivers') > count /\ count' = count /\ Len(receivers') \in Nat
      /\ \A k \in 1..Len(receivers') : k <= Len(receivers) => receivers'[k] = receivers[k]
  BY <1>2, Grown
<1>4. \A k \in 1..count : receivers'[k] = receivers[k]
  BY <1>1, <1>3, SharedFacts DEF Bounds
<1>5. /\ monitor \notin Removing => monitor' \notin Removing
      /\ monitor' \in Removing => monitor' = monitor
  BY DEF MainGrow, MonitorGrow, monitorVars, Removing
<1>6. \A i : InUse(i)' <=> InUse(i)
  BY <1>2, <1>3, <1>5 DEF InUse, Removing, MainGrow, MonitorGrow, monitorVars
<1>7. Bounds'
  <2>1. main' \in Scanning \cup {"starting"} => monitor' \notin Removing \cup {"storing"}
    <3>1. CASE MainGrow
      BY <1>1, <3>1 DEF MainGrow, monitorVars, Bounds, Scanning
    <3>2. CASE MonitorGrow
      <4>1. main \notin Scanning /\ main' = main
        BY <1>1, <3>2 DEF MonitorGrow, Touch, mainVars
      <4>2. main # "starting"
        BY <3>2 DEF MonitorGrow, SetupInv
      <4> QED
        BY <4>1, <4>2
    <3> QED
      BY <3>1, <3>2
  <2>2. monitor' = "shifting" => place' \in 1..count'
    BY <1>1, <1>2, <1>3, <1>5 DEF Bounds, Removing
  <2>3. monitor' = "dropping" => count' > 0
    BY <1>1, <1>3, <1>5 DEF Bounds, Removing
  <2>4. monitor' \in Removing => Gone' # {}
    BY <1>1, <1>2, <1>5 DEF Bounds
  <2>5. count' < Len(receivers') /\ count' <= Len(receivers')
    BY <1>3, SharedFacts
  <2> QED
    BY <2>1, <2>2, <2>3, <2>4, <2>5 DEF Bounds
<1>8. Contents'
  <2>1. Alive' = Alive
    BY <1>2 DEF Alive
  <2>2. \A i : InUse(i) => i \in 1..count
    BY DEF InUse
  <2> QED
    BY <1>1, <1>2, <1>3, <1>4, <1>6, <2>1, <2>2 DEF Contents
<1> QED
  BY <1>7, <1>8

LEMMA CellsStore ==
  ASSUME BaseInv, [Next]_vars, CellsInv, MainStore \/ MonitorStore
  PROVE  CellsInv'
<1> USE DEF BaseInv
<1> SUFFICES ASSUME Orderly' PROVE (Bounds /\ Contents)'
  BY DEF CellsInv
<1>1. Bounds /\ Contents /\ ~raced /\ ~raced'
  BY CellsFacts DEF Orderly
<1>2. PICK r \in {held, made} :
        /\ r # 0
        /\ Store(r)
        /\ \/ r = held /\ held' = 0 /\ made' = made
           \/ r = made /\ made' = 0 /\ held' = held
        /\ UNCHANGED <<objects, Gone, place>>
        /\ monitor \notin Removing /\ monitor' \notin Removing \cup {"storing"}
        /\ main' # "storing"
        /\ monitor' \notin Removing
  <2>1. CASE MainStore
    <3>1. held # 0 /\ monitor \notin Removing \cup {"storing"}
      BY <1>1, <2>1 DEF MainStore, HandsInv, Bounds, Scanning
    <3> QED
      BY <2>1, <3>1 DEF MainStore, heap, Gone, monitorVars
  <2>2. CASE MonitorStore
    <3>1. made # 0 /\ main' \notin Scanning
      BY <1>1, <2>2 DEF MonitorStore, HandsInv, Touch, mainVars
    <3> QED
      BY <2>2, <3>1 DEF MonitorStore, heap, Gone, mainVars, Scanning, Removing
  <2> QED
    BY <2>1, <2>2
<1>3. r \in Alive /\ r \in 0..Len(objects)
  BY <1>1, <1>2 DEF Contents, ThreadType
<1>4. /\ Len(receivers') = Len(receivers) /\ count < Len(receivers) /\ count' = count + 1
      /\ receivers'[count + 1] = r
      /\ \A k \in 1..Len(receivers) : k # count + 1 => receivers'[k] = receivers[k]
  BY <1>2, <1>3, Stored
<1>5. /\ \A i : InUse(i) <=> i \in 1..count
      /\ \A i : InUse(i)' <=> i \in 1..count \/ i = count + 1
      /\ \A i \in 1..count : i # count + 1 /\ receivers'[i] = receivers[i]
  <2>1. \A i : i \in 1..(count + 1) <=> i \in 1..count \/ i = count + 1
    BY SharedFacts
  <2>2. \A i \in 1..count : i # count + 1 /\ i \in 1..Len(receivers)
    BY <1>4, SharedFacts
  <2> QED
    BY <1>2, <1>4, <2>1, <2>2 DEF InUse, Removing
<1>6. Bounds'
  <2>1. count' <= Len(receivers')
    BY <1>4, SharedFacts
  <2> QED
    BY <1>2, <2>1 DEF Bounds, Removing
<1>7. Contents'
  <2>1. Alive' = Alive /\ 0 \notin Alive
    BY <1>2, SharedFacts DEF Alive
  <2>2. /\ \A i \in 1..count : receivers[i] \in Alive \ {held, made}
        /\ \A i, j \in 1..count : i # j => receivers[i] # receivers[j]
        /\ \A s \in Alive \ {held, made} : \E i \in 1..count : receivers[i] = s
        /\ {held, made} \ {0} \subseteq Alive
        /\ held # 0 => held # made
    BY <1>1, <1>5 DEF Contents
  <2>3. \A s \in Alive : s \notin {held', made'} <=> s \notin {held, made} \/ s = r
    BY <1>2, <2>1, <2>2
  <2>4. \A i \in 1..count' : InUse(i)' => receivers'[i] \in Alive' \ {held', made'}
    BY <1>3, <1>4, <1>5, <2>1, <2>2, <2>3
  <2>5. \A i, j \in 1..count' : InUse(i)' /\ InUse(j)' /\ i # j => receivers'[i] # receivers'[j]
    BY <1>2, <1>4, <1>5, <2>2
  <2>6. \A s \in Alive' \ {held', made'} : \E i \in 1..count' : InUse(i)' /\ receivers'[i] = s
    <3>1. \A i : InUse(i)' => i \in 1..count'
      BY DEF InUse
    <3> QED
      BY <1>4, <1>5, <2>1, <2>2, <2>3, <3>1
  <2>7. {held', made'} \ {0} \subseteq Alive' /\ (held' # 0 => held' # made')
    BY <1>2, <2>1, <2>2
  <2> QED
    BY <2>4, <2>5, <2>6, <2>7 DEF Contents
<1> QED
  BY <1>6, <1>7

LEMMA CellsRemove ==
  ASSUME BaseInv, [Next]_vars, CellsInv, Remove
  PROVE  CellsInv'
<1> USE DEF BaseInv
<1> SUFFICES ASSUME Orderly' PROVE (Bounds /\ Contents)'
  BY DEF CellsInv
<1>1. Bounds /\ Contents /\ ~raced /\ ~raced'
  BY CellsFacts DEF Orderly
<1>2. PICK i \in 1..count : RemoveAt(i)
  BY DEF Remove
<1>3. /\ monitor = "searching" /\ monitor' = "shifting" /\ place' = i
      /\ Usable(receivers[i]) /\ Gone' = Gone \cup {receivers[i]}
      /\ UNCHANGED <<objects, receivers, count, held, made, main>>
      /\ main \notin Scanning
  BY <1>1, <1>2, FreeIsGone DEF RemoveAt, Matches, Sound, Touch, registry, mainVars
<1>4. held = 0 /\ made = 0 /\ main # "starting"
  BY <1>3 DEF HandsInv, Scanning, SetupInv
<1>5. /\ \A k : InUse(k) <=> k \in 1..count
      /\ \A k : InUse(k)' <=> k \in 1..count /\ k # i
  BY <1>3 DEF InUse
<1>6. Bounds'
  BY <1>1, <1>2, <1>3, <1>4 DEF Bounds, Removing, Scanning
<1>7. Contents'
  <2>1. Alive' = Alive \ {receivers[i]} /\ 0 \notin Alive
    BY <1>3, SharedFacts DEF Alive
  <2>2. /\ \A k \in 1..count : receivers[k] \in Alive
        /\ \A k, j \in 1..count : k # j => receivers[k] # receivers[j]
        /\ \A s \in Alive : \E k \in 1..count : receivers[k] = s
    BY <1>1, <1>4, <1>5, <2>1 DEF Contents
  <2>3. \A k \in 1..count' : InUse(k)' => receivers'[k] \in Alive' \ {held', made'}
    BY <1>2, <1>3, <1>4, <1>5, <2>1, <2>2
  <2>4. \A s \in Alive' \ {held', made'} : \E k \in 1..count' : InUse(k)' /\ receivers'[k] = s
    BY <1>2, <1>3, <1>4, <1>5, <2>1, <2>2
  <2> QED
    BY <1>3, <1>4, <1>5, <2>2, <2>3, <2>4 DEF Contents
<1> QED
  BY <1>6, <1>7

LEMMA CellsShift ==
  ASSUME BaseInv, [Next]_vars, CellsInv, Shift
  PROVE  CellsInv'
<1> USE DEF BaseInv
<1> SUFFICES ASSUME Orderly' PROVE (Bounds /\ Contents)'
  BY DEF CellsInv
<1>1. Bounds /\ Contents /\ ~raced /\ ~raced'
  BY CellsFacts DEF Orderly
<1>2. /\ monitor = "shifting" /\ monitor' = "dropping"
      /\ UNCHANGED <<objects, Gone, count, held, made, main>>
      /\ main \notin Scanning /\ main # "starting"
  BY <1>1 DEF Shift, ShiftFrom, Touch, heap, Gone, mainVars, SetupInv
<1>3. /\ place \in 1..count /\ count \in Nat /\ count <= Len(receivers) /\ Gone # {}
      /\ Len(receivers) \in Nat
  BY <1>1, <1>2, SharedFacts DEF Bounds, Removing
<1>4. /\ Len(receivers') = Len(receivers)
      /\ \A k \in 1..Len(receivers) :
           receivers'[k] = IF k \in place..(count - 1) THEN receivers[k + 1] ELSE receivers[k]
  <2>1. place \in Nat
    BY DEF ThreadType
  <2> QED
    BY <2>1, Shifted
<1>5. /\ \A k : InUse(k) <=> k \in 1..count /\ k # place
      /\ \A k : InUse(k)' <=> k \in 1..count /\ k # count
  BY <1>2 DEF InUse
<1> DEFINE from == [k \in 1..count |-> IF k >= place THEN k + 1 ELSE k]
<1>6. /\ \A k : InUse(k)' => InUse(from[k]) /\ receivers'[k] = receivers[from[k]]
      /\ \A j, k : InUse(j)' /\ InUse(k)' /\ j # k => from[j] # from[k]
      /\ \A j : InUse(j) => \E k : InUse(k)' /\ from[k] = j
  <2>1. ASSUME NEW k \in 1..count, k # count
        PROVE  /\ from[k] \in 1..count /\ from[k] # place
               /\ receivers'[k] = receivers[from[k]]
    <3>1. from[k] = IF k >= place THEN k + 1 ELSE k
      OBVIOUS
    <3> HIDE DEF from
    <3>2. k \in 1..Len(receivers) /\ (k \in place..(count - 1) <=> k >= place)
      BY <1>3, <2>1
    <3>3. receivers'[k] = receivers[from[k]]
      BY <1>4, <3>1, <3>2
    <3> QED
      BY <1>3, <2>1, <3>1, <3>3
  <2>2. \A j, k \in 1..count : j # k => from[j] # from[k]
    BY <1>3
  <2>3. ASSUME NEW j \in 1..count, j # place
        PROVE  \E k \in 1..count : k # count /\ from[k] = j
    <3>1. CASE j < place
      BY <1>3, <3>1
    <3>2. CASE j > place
      <4>1. j - 1 \in 1..count /\ j - 1 # count /\ from[j - 1] = j
        BY <1>3, <3>2
      <4> QED
        BY <4>1
    <3> QED
      BY <1>3, <2>3, <3>1, <3>2
  <2> HIDE DEF from
  <2> QED
    BY <1>5, <2>1, <2>2, <2>3
<1> HIDE DEF from
<1>7. Bounds'
  BY <1>1, <1>2, <1>3, <1>4 DEF Bounds, Removing, Scanning
<1>8. Contents'
  <2>1. Alive' = Alive
    BY <1>2 DEF Alive
  <2>2. /\ \A i : InUse(i) => receivers[i] \in Alive \ {held, made}
        /\ \A i, j : InUse(i) /\ InUse(j) /\ i # j => receivers[i] # receivers[j]
        /\ \A r \in Alive \ {held, made} : \E i : InUse(i) /\ receivers[i] = r
    BY <1>1, <1>5 DEF Contents
  <2>3. \A i : InUse(i)' => receivers'[i] \in Alive' \ {held', made'}
    BY <1>2, <1>6, <2>1, <2>2
  <2>4. \A i, j : InUse(i)' /\ InUse(j)' /\ i # j => receivers'[i] # receivers'[j]
    BY <1>6, <2>2
  <2>5. \A r \in Alive' \ {held', made'} : \E i : InUse(i)' /\ receivers'[i] = r
    BY <1>2, <1>6, <2>1, <2>2
  <2>6. \A i : InUse(i)' => i \in 1..count'
    BY DEF InUse
  <2> QED
    BY <1>1, <1>2, <2>1, <2>3, <2>4, <2>5, <2>6 DEF Contents
<1> QED
  BY <1>7, <1>8

LEMMA CellsDrop ==
  ASSUME BaseInv, [Next]_vars, CellsInv, Drop
  PROVE  CellsInv'
<1> USE DEF BaseInv
<1> SUFFICES ASSUME Orderly' PROVE (Bounds /\ Contents)'
  BY DEF CellsInv
<1>1. Bounds /\ Contents /\ ~raced /\ ~raced'
  BY CellsFacts DEF Orderly
<1>2. /\ monitor = "dropping" /\ monitor' = "waiting" /\ count > 0 /\ count' = count - 1
      /\ UNCHANGED <<objects, Gone, receivers, held, made, main>>
      /\ main \notin Scanning
  BY <1>1 DEF Drop, Touch, heap, Gone, mainVars
<1>3. \A i : InUse(i)' <=> InUse(i)
  <2>1. \A i : i \in 1..(count - 1) <=> i \in 1..count /\ i # count
    BY <1>2, SharedFacts
  <2> QED
    BY <1>2, <2>1 DEF InUse
<1>4. Bounds'
  <2>1. count' <= Len(receivers')
    BY <1>1, <1>2, SharedFacts DEF Bounds
  <2>2. main # "storing"
    BY <1>2 DEF Scanning
  <2> QED
    BY <1>2, <2>1, <2>2 DEF Bounds, Removing
<1>5. Contents'
  <2>1. Alive' = Alive
    BY <1>2 DEF Alive
  <2>2. \A i : InUse(i) => i \in 1..count
    BY DEF InUse
  <2>3. \A i : InUse(i)' => i \in 1..count'
    BY DEF InUse
  <2> QED
    BY <1>1, <1>2, <1>3, <2>1, <2>2, <2>3 DEF Contents
<1> QED
  BY <1>4, <1>5

LEMMA CellsStep ==
  ASSUME BaseInv, [Next]_vars, EarlyInv, CellsInv
  PROVE  CellsInv'
<1>1. CASE Idle
  BY <1>1, CellsIdle
<1>2. CASE FreeReceiver
  <2>1. ~Orderly'
    <3>1. main' = "freeing" /\ Gone' # {}
      BY <1>2, FreeIsGone DEF FreeReceiver
    <3> QED
      BY <3>1 DEF Orderly, Late
  <2> QED
    BY <2>1 DEF CellsInv
<1>3. ASSUME NEW n \in todo, MainOpen(n), Open(n)
      PROVE  CellsInv'
  <2>1. n \in Devnodes
    BY DEF BaseInv, ThreadType
  <2> QED
    BY <1>3, <2>1, CellsOpen
<1>4. CASE MonitorOpen /\ Open(event.node)
  <2>1. event.node \in Devnodes
    BY <1>4 DEF MonitorOpen, BaseInv, HandsInv, Event
  <2> QED
    BY <1>4, <2>1, CellsOpen
<1> QED
  BY <1>1, <1>2, <1>3, <1>4, IdleOrWorking, CellsReset, CellsGrow, CellsStore, CellsRemove,
     CellsShift, CellsDrop DEF Working

-------------------------------------------------------------------------------
(* Main's loop, and which memory is touched.                               *)

LEMMA LoopStep ==
  ASSUME BaseInv, [Next]_vars, EarlyInv, CellsInv, LoopInv
  PROVE  LoopInv'
<1> USE DEF BaseInv
<1> DEFINE Looping == {"looping", "indexing", "scanning", "typing", "spinning", "freeing"}
<1> SUFFICES ASSUME ~raced', Gone' = {}
             PROVE  /\ main' \in Scanning \cup {"starting"} => found' = 0
                    /\ main' \in Looping => found' <= count'
                    /\ main' = "indexing" => turn' < found'
                    /\ main' = "scanning" => current' # 0
  BY DEF LoopInv
<1>1. ~raced /\ Gone = {}
  BY Monotone
<1>2. Orderly /\ Bounds /\ Contents /\ monitor \notin Removing
  BY <1>1 DEF CellsInv, Orderly, Bounds
<1>3. /\ main \in Scanning \cup {"starting"} => found = 0
      /\ main \in Looping => found <= count
      /\ main = "indexing" => turn < found
      /\ main = "scanning" => current # 0
  BY <1>1 DEF LoopInv
<1>4. count \in Nat /\ found \in Nat /\ turn \in Nat
  BY DEF SharedType, ThreadType
<1>5. ASSUME UNCHANGED <<main, found, turn, current>>, count' = count \/ count' = count + 1
      PROVE  /\ main' \in Scanning \cup {"starting"} => found' = 0
             /\ main' \in Looping => found' <= count'
             /\ main' = "indexing" => turn' < found'
             /\ main' = "scanning" => current' # 0
  BY <1>3, <1>4, <1>5
<1>6. CASE Start
  <2>1. /\ main = "starting" /\ main' \in {"starting", "resetting"} /\ found' = found
    BY <1>6 DEF Start, MonitorCall, MonitorCallFails
  <2> QED
    BY <1>3, <2>1
<1>7. CASE Kernel
  BY <1>5, <1>7 DEF Kernel, Plug, Unplug, registry, mainVars
<1>8. CASE Main
  <2>1. CASE ResetCount \/ ResetArray \/ Enumerate \/ EnumerateFails
    BY <1>3, <1>4, <2>1 DEF ResetCount, ResetArray, Enumerate, EnumerateFails, registry, Scanning
  <2>2. CASE \E n \in todo : MainOpen(n)
    BY <1>3, <2>2 DEF MainOpen, Scanning
  <2>3. CASE MainGrow \/ MainStore
    BY <1>3, <2>3 DEF MainGrow, MainStore, Scanning
  <2>4. CASE ScanReturns \/ LoadArray \/ TypeQ \/ InputEnds \/ DevicesScanned
    BY <1>3, <1>4, <2>4 DEF ScanReturns, LoadArray, TypeQ, InputEnds, DevicesScanned, registry,
       Scanning
  <2>5. CASE GetReceiver
    <3>1. /\ main = "indexing" /\ main' = "scanning" /\ UNCHANGED <<found, count>>
          /\ current' = receivers[turn + 1]
      BY <2>5 DEF GetReceiver, registry
    <3>2. turn + 1 \in 1..count /\ found <= count
      BY <1>3, <1>4, <3>1
    <3>3. InUse(turn + 1)
      BY <1>2, <3>2 DEF InUse, Removing
    <3>4. current' \in Alive
      BY <1>2, <3>1, <3>2, <3>3 DEF Contents
    <3> QED
      BY <3>1, <3>2, <3>4, SharedFacts DEF Alive, Scanning
  <2>6. CASE StartFree \/ FreeReceiver \/ FreeRegistry \/ Exit
    BY <1>3, <1>4, <2>6 DEF StartFree, FreeReceiver, FreeRegistry, Exit, registry, Scanning
  <2>7. CASE MainFaults
    BY <1>5, <2>7 DEF MainFaults, registry, mainVars
  <2> QED
    BY <1>8, <2>1, <2>2, <2>3, <2>4, <2>5, <2>6, <2>7 DEF Main
<1>9. CASE Monitor
  <2>1. UNCHANGED <<main, found, turn, current>>
    BY <1>9 DEF Monitor, Handle, ReceiveFails, Receive, ReceiveInto, MonitorOpen, MonitorScanned, MonitorGrow,
       MonitorStore, NotFound, LeaveSearch, Remove, RemoveAt, Shift, ShiftFrom, Drop,
       MonitorFaults, mainVars
  <2>2. count' = count \/ count' = count + 1
    BY <1>2, <1>9 DEF Monitor, Handle, ReceiveFails, Receive, ReceiveInto, MonitorOpen, MonitorScanned, MonitorGrow,
       MonitorStore, Store, Grow, NotFound, LeaveSearch, Remove, RemoveAt, Shift, ShiftFrom, Drop,
       MonitorFaults, registry, Removing
  <2> QED
    BY <1>5, <2>1, <2>2
<1>10. CASE UNCHANGED vars
  BY <1>5, <1>10 DEF vars, registry, mainVars
<1> QED
  BY <1>6, <1>7, <1>8, <1>9, <1>10 DEF Next

LEMMA FaultStep ==
  ASSUME BaseInv, [Next]_vars, CellsInv, LoopInv, DefinedUnlessRaced
  PROVE  DefinedUnlessRaced'
<1> USE DEF BaseInv
<1>1. CASE UNCHANGED vars
  BY <1>1 DEF vars, heap, registry, mainVars, monitorVars, DefinedUnlessRaced
<1>2. CASE Next /\ fault' = fault
  BY <1>2 DEF Next, Running, DefinedUnlessRaced
<1>3. CASE MainFaults /\ Running
  <2> SUFFICES ASSUME ~raced, Gone = {}, ~stale
               PROVE  FALSE
    BY <1>3 DEF DefinedUnlessRaced, MainFaults, heap, Gone, registry, monitorVars
  <2>1. Bounds /\ Contents /\ monitor \notin Removing
    BY DEF CellsInv, Orderly, Bounds
  <2>2. /\ main \in {"indexing", "freeing"} => found <= count
        /\ main = "indexing" => turn < found
        /\ main = "scanning" => current # 0
    BY DEF LoopInv
  <2>3. /\ count \in Nat /\ found \in Nat /\ turn \in Nat /\ Len(receivers) \in Nat
        /\ count <= Len(receivers)
    BY <2>1, SharedFacts DEF SharedType, ThreadType, Bounds
  <2>4. CASE main = "storing"
    BY <1>3, <2>1, <2>3, <2>4 DEF MainFaults, Bounds
  <2>5. CASE main = "indexing"
    <3>1. Readable(turn + 1)
      BY <2>2, <2>3, <2>5 DEF Readable
    <3> QED
      BY <1>3, <2>5, <3>1 DEF MainFaults
  <2>6. CASE main = "scanning"
    BY <1>3, <2>2, <2>6 DEF MainFaults, Usable, Gone
  <2>7. CASE main = "freeing"
    <3>1. turn < found
      BY <1>3, <2>7 DEF MainFaults
    <3>2. turn + 1 \in 1..count /\ turn + 1 <= Len(receivers)
      BY <2>2, <2>3, <2>7, <3>1
    <3>3. InUse(turn + 1)
      BY <2>1, <3>2 DEF InUse, Removing
    <3>4. receivers[turn + 1] \in Alive
      BY <2>1, <3>2, <3>3 DEF Contents
    <3>5. Readable(turn + 1) /\ Fresh(receivers[turn + 1])
      BY <3>2, <3>4, SharedFacts DEF Alive, Gone, Readable, Fresh, Usable
    <3> QED
      BY <1>3, <2>7, <3>5 DEF MainFaults
  <2> QED
    BY <1>3, <2>4, <2>5, <2>6, <2>7 DEF MainFaults
<1>4. CASE MonitorFaults /\ Running
  <2> SUFFICES ASSUME ~raced, main \notin {"freeing", "freed"}
               PROVE  FALSE
    BY <1>4 DEF DefinedUnlessRaced, MonitorFaults, mainVars
  <2>1. Bounds /\ Contents
    BY <1>4 DEF CellsInv, Orderly, Running, Late
  <2>2. count \in Nat /\ Len(receivers) \in Nat /\ count <= Len(receivers)
    BY <2>1, SharedFacts DEF Bounds
  <2>3. CASE monitor = "storing"
    BY <1>4, <2>1, <2>2, <2>3 DEF MonitorFaults, Bounds
  <2>4. CASE monitor = "searching"
    <3>1. ASSUME NEW i \in 1..count
          PROVE  Sound(i) /\ Fresh(receivers[i])
      <4>1. InUse(i)
        BY <2>4 DEF InUse
      <4>2. receivers[i] \in Alive
        BY <2>1, <4>1 DEF Contents
      <4> QED
        BY <2>2, <4>2, SharedFacts DEF Alive, Gone, Sound, Fresh, Usable
    <3> QED
      BY <1>4, <2>4, <3>1 DEF MonitorFaults
  <2>5. CASE monitor = "shifting"
    BY <1>4, <2>2, <2>5 DEF MonitorFaults
  <2>6. CASE monitor = "dropping"
    BY <1>4, <2>1, <2>2, <2>6 DEF MonitorFaults, Bounds
  <2> QED
    BY <1>4, <2>3, <2>4, <2>5, <2>6 DEF MonitorFaults
<1>5. CASE ReceiveFails
  BY <1>5 DEF ReceiveFails, DefinedUnlessRaced, monitorVars
<1>6. Next => fault' = fault \/ MainFaults \/ MonitorFaults \/ ReceiveFails
  BY DEF Next, Start, MonitorCall, MonitorCallFails, Kernel, Plug, Unplug, Main, ResetCount,
     ResetArray, Enumerate, EnumerateFails, MainOpen, MainGrow, MainStore, ScanReturns, LoadArray,
     GetReceiver, DevicesScanned, TypeQ, InputEnds, StartFree, FreeReceiver, FreeRegistry, Exit,
     Monitor, Handle, Receive, ReceiveInto, MonitorOpen, MonitorScanned, MonitorGrow, MonitorStore,
     NotFound, LeaveSearch, Remove, RemoveAt, Shift, ShiftFrom, Drop
<1> QED
  BY <1>1, <1>2, <1>3, <1>4, <1>5, <1>6 DEF Next

LEMMA OrderInit == Init => OrderInv
<1> SUFFICES ASSUME Init PROVE OrderInv
  OBVIOUS
<1>1. /\ objects = <<>> /\ Gone = {} /\ receivers = <<>> /\ count = 0 /\ held = 0 /\ made = 0
      /\ main = "starting" /\ monitor = "absent" /\ missed = {} /\ found = 0 /\ netlink = <<>>
      /\ fault = "none"
  BY DEF Init, Gone
<1>2. Alive = {} /\ Adds = {} /\ Len(receivers) = 0
  BY <1>1, EmptySeq DEF Alive, Adds
<1>3. EarlyInv /\ LoopInv /\ DefinedUnlessRaced
  BY <1>1, <1>2 DEF EarlyInv, LoopInv, DefinedUnlessRaced
<1>4. Bounds /\ Contents
  BY <1>1, <1>2 DEF Bounds, Contents, Removing
<1> QED
  BY <1>3, <1>4 DEF OrderInv, CellsInv

LEMMA OrderInvariant == Spec => [](BaseInv /\ OrderInv)
<1>1. Init => BaseInv /\ OrderInv
  BY BaseInit, OrderInit
<1>2. BaseInv /\ OrderInv /\ [Next]_vars => (BaseInv /\ OrderInv)'
  BY BaseStep, EarlyStep, CellsStep, LoopStep, FaultStep DEF OrderInv
<1> QED
  BY <1>1, <1>2, PTL DEF Spec

\* As long as the monitor has not run while main was enumerating, no receiver is
\* forgotten but one that slavery_receiver_free gave up with -1, and none that is freed
\* or given up stays in slavery_t.receivers: each cell holds one that is alive, no two
\* cells the same, and only a thread that has just made a receiver has one that is in
\* no cell.
THEOREM NothingForgottenCorrect == Spec => []NothingForgotten
<1>1. ASSUME BaseInv, OrderInv
      PROVE  NothingForgotten
  <2> SUFFICES ASSUME ~raced, monitor \notin Removing, main \notin Late
               PROVE  Alive = Listed \cup ({held, made} \ {0})
    BY DEF NothingForgotten, Alive, Gone, Removing, Late
  <2>1. Contents
    BY <1>1 DEF OrderInv, CellsInv, Orderly
  <2>2. \A i : InUse(i) <=> i \in 1..count
    BY DEF InUse, Removing
  <2>3. 0 \notin Alive
    BY <1>1, SharedFacts DEF Alive, BaseInv
  <2>4. /\ \A i \in 1..count : receivers[i] \in Alive
        /\ {held, made} \ {0} \subseteq Alive
        /\ \A r \in Alive \ {held, made} : \E i \in 1..count : receivers[i] = r
    BY <2>1, <2>2 DEF Contents
  <2>5. Listed \subseteq Alive
    BY <2>4 DEF Listed
  <2>6. ASSUME NEW r \in Alive
        PROVE  r \in Listed \cup ({held, made} \ {0})
    BY <2>3, <2>4 DEF Listed
  <2> QED
    BY <2>4, <2>5, <2>6
<1> QED
  BY <1>1, OrderInvariant, PTL

\* As long as the monitor has not run while main was enumerating, it never touches
\* memory it may not before slavery_free has begun, but for the NULL that udev may hand
\* it instead of an event; and main never does unless a receiver was freed or given up,
\* or the array moved under it.
THEOREM DefinedCorrect == Spec => []DefinedUnlessRaced
<1>1. OrderInv => DefinedUnlessRaced
  BY DEF OrderInv
<1> QED
  BY <1>1, OrderInvariant, PTL

-------------------------------------------------------------------------------
(* How the receivers follow the events.                                    *)

\* The events not yet handled, the one in the monitor's hands first.
Pending == IF event = NoNode THEN netlink ELSE <<event>> \o netlink

\* What the last event of devnode n says when those at the devnodes D are plugged in.
Now(n, D) == IF n \in D THEN "add" ELSE "remove"

\* The events q of a devnode take turns, and the last one is the devnode's state.
Alternates(q, D) ==
  /\ \A i \in DOMAIN q :
       q[i].action # Now(q[i].node, D) =>
         \E j \in DOMAIN q :
           i < j /\ q[j].node = q[i].node /\ q[j].action = Now(q[i].node, D)
  /\ \A i, j \in DOMAIN q :
       i < j /\ q[i] = q[j] =>
         \E k \in DOMAIN q : i < k /\ k < j /\ q[k].node = q[i].node /\ q[k] # q[i]

\* A receiver at one of the devnodes D goes before another one comes.
RemovesFirst(q, D) ==
  \A i \in DOMAIN q :
    q[i].action = "add" /\ q[i].node \in D =>
      \E j \in DOMAIN q : j < i /\ q[j].node = q[i].node /\ q[j].action = "remove"

\* The devnodes that have a receiver, or that main has still to try.
Here == {objects[r].node : r \in Alive} \cup todo

\* One receiver at most for a devnode.
Unique ==
  /\ \A r, s \in Alive : objects[r].node = objects[s].node => r = s
  /\ \A r \in Alive : objects[r].node \notin todo

\* No event of n is left to handle.
Unconcerned(n) == \A i \in DOMAIN Pending : Pending[i].node # n

\* Devnode n has a receiver, or will, just when it should.
AsSaid(n) ==
  /\ n \in Here <=> n \in connected \ missed
  /\ \A r \in Alive : objects[r].node = n => objects[r].life = life[n]

\* A devnode that no event concerns is as the enumeration or the last event said.
UpToDate ==
  Subscribed /\ main \notin Early => \A n \in Devnodes : Unconcerned(n) => AsSaid(n)

Follows ==
  /\ Alternates(Pending, connected)
  /\ RemovesFirst(Pending, Here)
  /\ Unique
  /\ UpToDate

FollowInv == ~raced /\ main \notin Late => Follows

\* The sequence of events: how it is extended, and what is left without its head.
LEMMA Extended ==
  ASSUME NEW q \in Seq(Event), NEW e \in Event
  PROVE  /\ Append(q, e) \in Seq(Event)
         /\ Len(q) \in Nat
         /\ DOMAIN q = 1..Len(q)
         /\ \A i \in DOMAIN q : q[i] \in Event
         /\ DOMAIN Append(q, e) = 1..(Len(q) + 1)
         /\ \A i \in DOMAIN q : Append(q, e)[i] = q[i]
         /\ Append(q, e)[Len(q) + 1] = e
<1>1. /\ Append(q, e) \in Seq(Event)
      /\ Len(Append(q, e)) = Len(q) + 1
      /\ \A i \in 1..Len(q) : Append(q, e)[i] = q[i]
      /\ Append(q, e)[Len(q) + 1] = e
  BY AppendProperties
<1>2. Len(q) \in Nat /\ DOMAIN q = 1..Len(q)
  BY LenProperties
<1>3. DOMAIN Append(q, e) = 1..(Len(q) + 1)
  BY <1>1, LenProperties
<1>4. \A i \in DOMAIN q : q[i] \in Event
  BY <1>2, ElementOfSeq
<1> QED
  BY <1>1, <1>2, <1>3, <1>4

LEMMA Remainder ==
  ASSUME NEW q \in Seq(Event), q # <<>>
  PROVE  /\ Tail(q) \in Seq(Event)
         /\ Len(q) \in Nat /\ Len(q) > 0
         /\ DOMAIN q = 1..Len(q)
         /\ \A i \in DOMAIN q : q[i] \in Event
         /\ Head(q) = q[1]
         /\ DOMAIN Tail(q) = 1..(Len(q) - 1)
         /\ \A i \in DOMAIN Tail(q) : Tail(q)[i] = q[i + 1]
<1>1. /\ Tail(q) \in Seq(Event)
      /\ Len(Tail(q)) = Len(q) - 1
      /\ \A i \in 1..Len(Tail(q)) : Tail(q)[i] = q[i + 1]
  BY HeadTailProperties
<1>2. Len(q) \in Nat /\ Len(q) > 0 /\ DOMAIN q = 1..Len(q)
  BY LenProperties, EmptySeq
<1>3. DOMAIN Tail(q) = 1..(Len(q) - 1)
  BY <1>1, LenProperties
<1>4. \A i \in DOMAIN q : q[i] \in Event
  BY <1>2, ElementOfSeq
<1>5. Head(q) = q[1]
  OBVIOUS
<1> QED
  BY <1>1, <1>2, <1>3, <1>4, <1>5

LEMMA EventFacts ==
  /\ \A e \in Event : e.action \in {"add", "remove"} /\ e.node \in Devnodes
  /\ \A e, d \in Event : e.action = d.action /\ e.node = d.node => e = d
  /\ NoNode \notin Event
<1>1. \A e \in Event : e.action \in {"add", "remove"} /\ e.node \in Devnodes
  BY DEF Event
<1>2. \A e \in Event : e = [action |-> e.action, node |-> e.node]
  BY DEF Event
<1>3. \A e, d \in Event : e.action = d.action /\ e.node = d.node => e = d
  BY <1>2
<1>4. NoNode.action = "none"
  BY DEF NoNode
<1> QED
  BY <1>1, <1>3, <1>4

LEMMA AlternatesExtended ==
  ASSUME NEW q \in Seq(Event), NEW D, NEW F, NEW e \in Event,
         Alternates(q, D),
         e.action # Now(e.node, D), e.action = Now(e.node, F),
         \A n \in Devnodes : n # e.node => Now(n, F) = Now(n, D)
  PROVE  Alternates(Append(q, e), F)
<1> DEFINE p == Append(q, e)
           len == Len(q)
<1>1. /\ len \in Nat /\ DOMAIN q = 1..len /\ DOMAIN p = 1..(len + 1)
      /\ \A i \in 1..len : q[i] \in Event /\ p[i] = q[i]
      /\ p[len + 1] = e
  BY Extended
<1>n. \A n : Now(n, D) \in {"add", "remove"}
  BY DEF Now
<1>2. /\ \A i \in 1..len :
           q[i].action # Now(q[i].node, D) =>
             \E j \in 1..len :
               i < j /\ q[j].node = q[i].node /\ q[j].action = Now(q[i].node, D)
      /\ \A i, j \in 1..len :
           i < j /\ q[i] = q[j] =>
             \E k \in 1..len : i < k /\ k < j /\ q[k].node = q[i].node /\ q[k] # q[i]
  BY <1>1 DEF Alternates
<1>3. \A i : i \in 1..(len + 1) <=> i \in 1..len \/ i = len + 1
  BY <1>1
<1> HIDE DEF p, len
<1>4. ASSUME NEW i \in 1..(len + 1), p[i].action # Now(p[i].node, F)
      PROVE  \E j \in 1..(len + 1) :
               i < j /\ p[j].node = p[i].node /\ p[j].action = Now(p[i].node, F)
  <2>1. i \in 1..len /\ p[i] = q[i] /\ i < len + 1
    BY <1>1, <1>3, <1>4
  <2>2. CASE q[i].node = e.node
    BY <1>1, <1>3, <2>1, <2>2
  <2>3. CASE q[i].node # e.node
    <3>1. Now(q[i].node, F) = Now(q[i].node, D)
      BY <1>1, <2>1, <2>3, EventFacts
    <3>2. PICK j \in 1..len : i < j /\ q[j].node = q[i].node /\ q[j].action = Now(q[i].node, D)
      BY <1>2, <1>4, <2>1, <3>1
    <3> QED
      BY <1>1, <1>3, <2>1, <3>1, <3>2
  <2> QED
    BY <2>2, <2>3
<1>5. ASSUME NEW i \in 1..(len + 1), NEW j \in 1..(len + 1), i < j, p[i] = p[j]
      PROVE  \E k \in 1..(len + 1) : i < k /\ k < j /\ p[k].node = p[i].node /\ p[k] # p[i]
  <2>1. i \in 1..len /\ p[i] = q[i]
    BY <1>1, <1>3, <1>5
  <2>2. CASE j \in 1..len
    <3>1. PICK k \in 1..len : i < k /\ k < j /\ q[k].node = q[i].node /\ q[k] # q[i]
      <4>1. q[i] = q[j]
        BY <1>1, <1>5, <2>1, <2>2
      <4> QED
        BY <1>2, <1>5, <2>1, <2>2, <4>1
    <3> QED
      BY <1>1, <1>3, <2>1, <3>1
  <2>3. CASE j = len + 1
    <3>1. q[i] = e
      BY <1>1, <1>5, <2>1, <2>3
    <3>2. PICK k \in 1..len : i < k /\ q[k].node = q[i].node /\ q[k].action = Now(q[i].node, D)
      BY <1>2, <2>1, <3>1
    <3>3. q[k] # q[i] /\ k < j /\ k \in 1..(len + 1)
      BY <1>1, <1>3, <2>3, <3>1, <3>2
    <3> QED
      BY <1>1, <2>1, <3>2, <3>3
  <2> QED
    BY <1>3, <2>2, <2>3
<1>6. \A i \in DOMAIN p :
        p[i].action # Now(p[i].node, F) =>
          \E j \in DOMAIN p : i < j /\ p[j].node = p[i].node /\ p[j].action = Now(p[i].node, F)
  BY <1>1, <1>4
<1>7. \A i, j \in DOMAIN p :
        i < j /\ p[i] = p[j] =>
          \E k \in DOMAIN p : i < k /\ k < j /\ p[k].node = p[i].node /\ p[k] # p[i]
  BY <1>1, <1>5
<1>8. Alternates(p, F)
  BY <1>6, <1>7, Zenon DEF Alternates
<1> QED
  BY <1>8 DEF p

LEMMA AlternatesRemainder ==
  ASSUME NEW q \in Seq(Event), q # <<>>, NEW D, Alternates(q, D)
  PROVE  Alternates(Tail(q), D)
<1> DEFINE p == Tail(q)
           len == Len(q)
<1>1. /\ len \in Nat /\ len > 0 /\ DOMAIN q = 1..len /\ DOMAIN p = 1..(len - 1)
      /\ \A i \in 1..(len - 1) : p[i] = q[i + 1]
  BY Remainder
<1>2. /\ \A i \in 1..len :
           q[i].action # Now(q[i].node, D) =>
             \E j \in 1..len :
               i < j /\ q[j].node = q[i].node /\ q[j].action = Now(q[i].node, D)
      /\ \A i, j \in 1..len :
           i < j /\ q[i] = q[j] =>
             \E k \in 1..len : i < k /\ k < j /\ q[k].node = q[i].node /\ q[k] # q[i]
  BY <1>1 DEF Alternates
<1> HIDE DEF p, len
<1>3. /\ \A i \in 1..(len - 1) : i + 1 \in 1..len
      /\ \A j \in 1..len : \A i \in 1..(len - 1) :
           i + 1 < j => j - 1 \in 1..(len - 1) /\ i < j - 1 /\ p[j - 1] = q[j]
  <2>1. ASSUME NEW j \in 1..len, NEW i \in 1..(len - 1), i + 1 < j
        PROVE  j - 1 \in 1..(len - 1) /\ i < j - 1 /\ (j - 1) + 1 = j
    BY <1>1, <2>1
  <2> QED
    BY <1>1, <2>1
<1>4. ASSUME NEW i \in 1..(len - 1), p[i].action # Now(p[i].node, D)
      PROVE  \E j \in 1..(len - 1) :
               i < j /\ p[j].node = p[i].node /\ p[j].action = Now(p[i].node, D)
  <2>1. PICK j \in 1..len : i + 1 < j /\ q[j].node = p[i].node /\ q[j].action = Now(p[i].node, D)
    BY <1>1, <1>2, <1>3, <1>4
  <2> QED
    BY <1>3, <2>1
<1>5. ASSUME NEW i \in 1..(len - 1), NEW j \in 1..(len - 1), i < j, p[i] = p[j]
      PROVE  \E k \in 1..(len - 1) : i < k /\ k < j /\ p[k].node = p[i].node /\ p[k] # p[i]
  <2>1. i + 1 \in 1..len /\ j + 1 \in 1..len /\ i + 1 < j + 1 /\ q[i + 1] = q[j + 1]
    BY <1>1, <1>3, <1>5
  <2>2. PICK k \in 1..len : i + 1 < k /\ k < j + 1 /\ q[k].node = p[i].node /\ q[k] # p[i]
    BY <1>1, <1>2, <2>1
  <2>3. k - 1 \in 1..(len - 1) /\ i < k - 1 /\ k - 1 < j /\ p[k - 1] = q[k]
    BY <1>3, <2>2
  <2> QED
    BY <2>2, <2>3
<1>6. \A i \in DOMAIN p :
        p[i].action # Now(p[i].node, D) =>
          \E j \in DOMAIN p : i < j /\ p[j].node = p[i].node /\ p[j].action = Now(p[i].node, D)
  BY <1>1, <1>4
<1>7. \A i, j \in DOMAIN p :
        i < j /\ p[i] = p[j] =>
          \E k \in DOMAIN p : i < k /\ k < j /\ p[k].node = p[i].node /\ p[k] # p[i]
  BY <1>1, <1>5
<1>8. Alternates(p, D)
  BY <1>6, <1>7, Zenon DEF Alternates
<1> QED
  BY <1>8 DEF p

LEMMA RemovesFirstExtended ==
  ASSUME NEW q \in Seq(Event), NEW H, NEW e \in Event, RemovesFirst(q, H),
         e.action = "add" /\ e.node \in H =>
           \E j \in DOMAIN q : q[j].node = e.node /\ q[j].action = "remove"
  PROVE  RemovesFirst(Append(q, e), H)
<1> DEFINE p == Append(q, e)
           len == Len(q)
<1>1. /\ len \in Nat /\ DOMAIN q = 1..len /\ DOMAIN p = 1..(len + 1)
      /\ \A i \in 1..len : p[i] = q[i]
      /\ p[len + 1] = e
  BY Extended
<1>2. \A i \in 1..len :
        q[i].action = "add" /\ q[i].node \in H =>
          \E j \in 1..len : j < i /\ q[j].node = q[i].node /\ q[j].action = "remove"
  BY <1>1 DEF RemovesFirst
<1>3. \A i : i \in 1..(len + 1) <=> i \in 1..len \/ i = len + 1
  BY <1>1
<1> HIDE DEF p, len
<1>4. ASSUME NEW i \in 1..(len + 1), p[i].action = "add", p[i].node \in H
      PROVE  \E j \in 1..(len + 1) : j < i /\ p[j].node = p[i].node /\ p[j].action = "remove"
  <2>1. CASE i \in 1..len
    <3>1. PICK j \in 1..len : j < i /\ q[j].node = q[i].node /\ q[j].action = "remove"
      BY <1>1, <1>2, <1>4, <2>1
    <3> QED
      BY <1>1, <1>3, <2>1, <3>1
  <2>2. CASE i = len + 1
    <3>1. PICK j \in 1..len : q[j].node = e.node /\ q[j].action = "remove"
      BY <1>1, <1>4, <2>2
    <3> QED
      BY <1>1, <1>3, <2>2, <3>1
  <2> QED
    BY <1>3, <2>1, <2>2
<1> QED
  BY <1>1, <1>4 DEF RemovesFirst, p

LEMMA RemovesFirstRemainder ==
  ASSUME NEW q \in Seq(Event), q # <<>>, NEW D, NEW H, NEW G,
         Alternates(q, D), RemovesFirst(q, H),
         G \subseteq H \cup {Head(q).node},
         Head(q).action = "remove" => Head(q).node \notin G
  PROVE  RemovesFirst(Tail(q), G)
<1> DEFINE p == Tail(q)
           len == Len(q)
<1>1. /\ len \in Nat /\ len > 0 /\ DOMAIN q = 1..len /\ DOMAIN p = 1..(len - 1)
      /\ \A i \in 1..(len - 1) : p[i] = q[i + 1]
      /\ \A i \in 1..len : q[i] \in Event
      /\ Head(q) = q[1]
  BY Remainder
<1>2. /\ \A i \in 1..len :
           q[i].action = "add" /\ q[i].node \in H =>
             \E j \in 1..len : j < i /\ q[j].node = q[i].node /\ q[j].action = "remove"
      /\ \A i, j \in 1..len :
           i < j /\ q[i] = q[j] =>
             \E k \in 1..len : i < k /\ k < j /\ q[k].node = q[i].node /\ q[k] # q[i]
  <2>1. DOMAIN q = 1..len
    BY <1>1
  <2> HIDE DEF p, len
  <2>2. \A i \in 1..len :
          q[i].action = "add" /\ q[i].node \in H =>
            \E j \in 1..len : j < i /\ q[j].node = q[i].node /\ q[j].action = "remove"
    BY <2>1 DEF RemovesFirst
  <2>3. \A i, j \in 1..len :
          i < j /\ q[i] = q[j] =>
            \E k \in 1..len : i < k /\ k < j /\ q[k].node = q[i].node /\ q[k] # q[i]
    BY <2>1 DEF Alternates
  <2> QED
    BY <2>2, <2>3
<1> HIDE DEF p, len
<1>3. ASSUME NEW i \in 1..(len - 1), p[i].action = "add", p[i].node \in G
      PROVE  \E j \in 1..(len - 1) : j < i /\ p[j].node = p[i].node /\ p[j].action = "remove"
  <2>1. i + 1 \in 1..len /\ 1 \in 1..len /\ 1 < i + 1 /\ p[i] = q[i + 1]
    BY <1>1
  <2>2. \E j \in 1..len : 1 < j /\ j < i + 1 /\ q[j].node = p[i].node /\ q[j].action = "remove"
    <3>1. CASE p[i].node = q[1].node
      <4>1. q[1].action = "add"
        BY <1>1, <1>3, <2>1, <3>1, EventFacts
      <4>2. q[1] = q[i + 1]
        BY <1>1, <1>3, <2>1, <3>1, <4>1, EventFacts
      <4>3. PICK k \in 1..len : 1 < k /\ k < i + 1 /\ q[k].node = q[1].node /\ q[k] # q[1]
        BY <1>2, <2>1, <4>2
      <4>4. q[k].action = "remove"
        BY <1>1, <2>1, <4>1, <4>3, EventFacts
      <4> QED
        BY <3>1, <4>3, <4>4
    <3>2. CASE p[i].node # q[1].node
      <4>1. p[i].node \in H
        BY <1>1, <1>3, <3>2
      <4>2. PICK j \in 1..len : j < i + 1 /\ q[j].node = p[i].node /\ q[j].action = "remove"
        BY <1>2, <1>3, <2>1, <4>1
      <4>3. j # 1
        BY <3>2, <4>2
      <4>4. 1 < j
        BY <4>3, <1>1
      <4> QED
        BY <4>2, <4>4
    <3> QED
      BY <3>1, <3>2
  <2>3. PICK j \in 1..len : 1 < j /\ j < i + 1 /\ q[j].node = p[i].node /\ q[j].action = "remove"
    BY <2>2
  <2>4. j - 1 \in 1..(len - 1) /\ j - 1 < i /\ (j - 1) + 1 = j
    BY <1>1, <2>3
  <2>5. p[j - 1] = q[j]
    BY <1>1, <2>4
  <2> QED
    BY <2>3, <2>4, <2>5
<1> QED
  BY <1>1, <1>3 DEF RemovesFirst, p

\* What a step does to the events not yet handled.
LEMMA PendingFacts ==
  ASSUME BaseInv
  PROVE  /\ Pending \in Seq(Event)
         /\ event # NoNode => Pending # <<>> /\ Head(Pending) = event /\ Tail(Pending) = netlink
         /\ ~Subscribed => Pending = <<>>
<1> USE DEF BaseInv
<1>1. netlink \in Seq(Event) /\ (event # NoNode => event \in Event)
  BY DEF SharedType, ThreadType
<1>2. ASSUME event # NoNode
      PROVE  /\ Pending \in Seq(Event) /\ Pending # <<>>
             /\ Head(Pending) = event /\ Tail(Pending) = netlink
  <2>1. Pending = <<event>> \o netlink /\ <<event>> \in Seq(Event)
    BY <1>1, <1>2 DEF Pending
  <2>2. Pending \in Seq(Event) /\ Len(Pending) = Len(netlink) + 1
        /\ \A i \in 1..Len(Pending) : Pending[i] = IF i <= 1 THEN event ELSE netlink[i - 1]
    BY <1>1, <2>1, ConcatProperties
  <2>3. Len(netlink) \in Nat
    BY <1>1, LenProperties
  <2>4. Pending # <<>> /\ Pending[1] = event
    BY <2>2, <2>3, EmptySeq
  <2>5. /\ Tail(Pending) \in Seq(Event)
        /\ Len(Tail(Pending)) = Len(netlink)
        /\ \A i \in 1..Len(Tail(Pending)) : Tail(Pending)[i] = Pending[i + 1]
    BY <2>2, <2>3, <2>4, HeadTailProperties
  <2>6. \A i \in 1..Len(netlink) : Tail(Pending)[i] = netlink[i]
    BY <2>2, <2>3, <2>5
  <2>7. Tail(Pending) = netlink
    BY <1>1, <2>5, <2>6, SeqEqual
  <2>8. Head(Pending) = Pending[1]
    BY <2>2, <2>4
  <2> QED
    BY <2>2, <2>4, <2>7, <2>8
<1>3. ASSUME ~Subscribed
      PROVE  Pending = <<>>
  <2>1. netlink = <<>>
    BY <1>3 DEF SetupInv
  <2>2. monitor = "absent"
    <3>1. stage \in 0..6
      BY MonitorCallsFacts DEF ThreadType
    <3>2. CASE stage = 0
      BY <1>3, <3>2 DEF SetupInv, MonitorWholeOrNot, Subscribed
    <3>3. CASE stage # 0
      BY <3>3 DEF SetupInv
    <3> QED
      BY <3>2, <3>3
  <2>3. event = NoNode
    BY <2>2 DEF HandsInv
  <2> QED
    BY <2>1, <2>3 DEF Pending
<1> QED
  BY <1>1, <1>2, <1>3 DEF Pending

LEMMA PendingQueued ==
  ASSUME BaseInv, Subscribed, NEW action \in {"add", "remove"}, NEW n \in Devnodes,
         netlink' = Queued(action, n), event' = event
  PROVE  Pending' = Append(Pending, [action |-> action, node |-> n])
<1> DEFINE e == [action |-> action, node |-> n]
<1>1. netlink \in Seq(Event) /\ (event # NoNode => event \in Event) /\ e \in Event
  BY DEF BaseInv, SharedType, ThreadType, Event
<1>2. netlink' = Append(netlink, e)
  BY DEF Queued
<1> HIDE DEF e
<1>3. CASE event = NoNode
  <2>1. Pending' = Append(Pending, e)
    BY <1>2, <1>3 DEF Pending, NoNode
  <2> QED
    BY <2>1 DEF e
<1>4. CASE event # NoNode
  <2> DEFINE p == Append(<<event>> \o netlink, e)
             r == <<event>> \o Append(netlink, e)
  <2>1. <<event>> \in Seq(Event) /\ Len(<<event>>) = 1 /\ <<event>>[1] = event
    BY <1>1, <1>4
  <2>2. /\ Len(netlink) \in Nat
        /\ Append(netlink, e) \in Seq(Event) /\ Len(Append(netlink, e)) = Len(netlink) + 1
        /\ \A i \in 1..Len(netlink) : Append(netlink, e)[i] = netlink[i]
        /\ Append(netlink, e)[Len(netlink) + 1] = e
    BY <1>1, AppendProperties, LenProperties
  <2>3. /\ <<event>> \o netlink \in Seq(Event)
        /\ Len(<<event>> \o netlink) = Len(netlink) + 1
        /\ \A i \in 1..Len(<<event>> \o netlink) :
             (<<event>> \o netlink)[i] = IF i <= 1 THEN event ELSE netlink[i - 1]
    BY <1>1, <2>1, <2>2, ConcatProperties
  <2>4. /\ p \in Seq(Event) /\ Len(p) = Len(netlink) + 2
        /\ \A i \in 1..(Len(netlink) + 1) : p[i] = (<<event>> \o netlink)[i]
        /\ p[Len(netlink) + 2] = e
    BY <1>1, <2>2, <2>3, AppendProperties
  <2>5. /\ r \in Seq(Event) /\ Len(r) = Len(netlink) + 2
        /\ \A i \in 1..Len(r) : r[i] = IF i <= 1 THEN event ELSE Append(netlink, e)[i - 1]
    BY <2>1, <2>2, ConcatProperties
  <2> HIDE DEF p, r
  <2>6. ASSUME NEW i \in 1..Len(p)
        PROVE  p[i] = r[i]
    <3>1. CASE i = 1
      BY <2>2, <2>3, <2>4, <2>5, <3>1
    <3>2. CASE i = Len(netlink) + 2
      BY <2>2, <2>4, <2>5, <3>2
    <3>3. CASE i # 1 /\ i # Len(netlink) + 2
      <4>1. i \in 1..(Len(netlink) + 1) /\ i - 1 \in 1..Len(netlink) /\ ~(i <= 1) /\ i \in 1..Len(r)
        BY <2>2, <2>4, <2>5, <3>3
      <4>2. p[i] = netlink[i - 1]
        BY <2>3, <2>4, <4>1
      <4>3. r[i] = netlink[i - 1]
        BY <2>2, <2>5, <4>1
      <4> QED
        BY <4>2, <4>3
    <3> QED
      BY <3>1, <3>2, <3>3
  <2>7. p = r
    BY <2>4, <2>5, <2>6, SeqEqual
  <2>8. Pending' = r /\ Append(Pending, e) = p
    BY <1>2, <1>4 DEF Pending, NoNode, p, r
  <2>9. Pending' = Append(Pending, e)
    BY <2>7, <2>8
  <2> QED
    BY <2>9 DEF e
<1> QED
  BY <1>3, <1>4 DEF e

LEMMA PendingReceived == ASSUME BaseInv, BaseInv', Receive PROVE Pending' = Pending
<1>1. event = NoNode /\ event' = Head(netlink) /\ netlink' = Tail(netlink) /\ netlink # <<>>
  BY DEF Receive, ReceiveInto, BaseInv, HandsInv
<1>2. netlink \in Seq(Event)
  BY DEF BaseInv, SharedType
<1>3. Head(netlink) \in Event /\ netlink = <<Head(netlink)>> \o Tail(netlink)
  BY <1>1, <1>2, HeadTailProperties
<1> QED
  BY <1>1, <1>3, EventFacts DEF Pending

\* The last event of a devnode says what is the case.
LEMMA LastEvent ==
  ASSUME NEW q \in Seq(Event), q # <<>>, NEW D, Alternates(q, D),
         \A i \in DOMAIN Tail(q) : Tail(q)[i].node # Head(q).node
  PROVE  Head(q).action = Now(Head(q).node, D)
<1> SUFFICES ASSUME Head(q).action # Now(Head(q).node, D) PROVE FALSE
  OBVIOUS
<1>1. /\ Len(q) \in Nat /\ Len(q) > 0 /\ DOMAIN q = 1..Len(q)
      /\ DOMAIN Tail(q) = 1..(Len(q) - 1)
      /\ \A i \in DOMAIN Tail(q) : Tail(q)[i] = q[i + 1]
      /\ Head(q) = q[1]
  BY Remainder
<1>2. 1 \in DOMAIN q
  BY <1>1
<1>3. PICK j \in DOMAIN q : 1 < j /\ q[j].node = q[1].node
  BY <1>1, <1>2 DEF Alternates
<1>4. j - 1 \in DOMAIN Tail(q) /\ (j - 1) + 1 = j
  BY <1>1, <1>3
<1> QED
  BY <1>1, <1>3, <1>4

LEMMA FollowsBefore ==
  ASSUME BaseInv, [Next]_vars, FollowInv, ~raced', main' \notin Late
  PROVE  Follows /\ ~raced /\ main \notin Late
BY Monotone DEF FollowInv

LEMMA FollowsFrame ==
  ASSUME Follows, UNCHANGED <<Pending, connected, life, missed, todo, objects, Gone>>,
         Subscribed' /\ main' \notin Early => Subscribed /\ main \notin Early
  PROVE  Follows'
<1>1. Alive' = Alive /\ Here' = Here
  BY DEF Alive, Here
<1>2. Alternates(Pending, connected)' /\ RemovesFirst(Pending, Here)'
  BY <1>1 DEF Follows
<1>3. Unique'
  BY <1>1 DEF Follows, Unique
<1>4. \A n \in Devnodes : Unconcerned(n)' = Unconcerned(n) /\ AsSaid(n)' = AsSaid(n)
  BY <1>1 DEF Unconcerned, AsSaid
<1>5. UpToDate'
  BY <1>4 DEF Follows, UpToDate
<1> QED
  BY <1>2, <1>3, <1>5 DEF Follows

\* An event is queued.
LEMMA FollowsQueued ==
  ASSUME BaseInv, Follows, Subscribed,
         NEW action \in {"add", "remove"}, NEW n \in Devnodes,
         netlink' = Queued(action, n), UNCHANGED <<event, objects, Gone, todo, main, setup>>,
         action # Now(n, connected), action = Now(n, connected'),
         \A m \in Devnodes : m # n => Now(m, connected') = Now(m, connected),
         action = "add" /\ n \in Here =>
           \E j \in DOMAIN Pending : Pending[j].node = n /\ Pending[j].action = "remove",
         \A m \in Devnodes : m # n /\ AsSaid(m) => AsSaid(m)'
  PROVE  Follows'
<1> DEFINE e == [action |-> action, node |-> n]
<1>1. Pending' = Append(Pending, e)
  BY PendingQueued
<1>2. Pending \in Seq(Event) /\ e \in Event /\ e.action = action /\ e.node = n
  BY PendingFacts DEF Event
<1> HIDE DEF e
<1>3. Alive' = Alive /\ Here' = Here
  BY DEF Alive, Here
<1>4. Alternates(Pending', connected')
  BY <1>1, <1>2, AlternatesExtended DEF Follows
<1>5. RemovesFirst(Pending', Here')
  BY <1>1, <1>2, <1>3, RemovesFirstExtended DEF Follows
<1>6. Unique'
  BY <1>3 DEF Follows, Unique
<1>7. ASSUME NEW m \in Devnodes, Unconcerned(m)'
      PROVE  Unconcerned(m) /\ m # n
  <2>1. /\ DOMAIN Pending = 1..Len(Pending) /\ Len(Pending) \in Nat
        /\ DOMAIN Pending' = 1..(Len(Pending) + 1)
        /\ \A i \in DOMAIN Pending : Pending'[i] = Pending[i]
        /\ Pending'[Len(Pending) + 1] = e
    BY <1>1, <1>2, Extended
  <2>2. \A i \in 1..(Len(Pending) + 1) : Pending'[i].node # m
    BY <1>7, <2>1 DEF Unconcerned
  <2> QED
    BY <1>2, <2>1, <2>2 DEF Unconcerned
<1>8. UpToDate'
  <2>1. Subscribed' = Subscribed
    BY DEF setup, Subscribed
  <2> QED
    BY <1>7, <2>1 DEF Follows, UpToDate
<1> QED
  BY <1>4, <1>5, <1>6, <1>8 DEF Follows

\* The monitor has done what its event asks for.
LEMMA FollowsHandled ==
  ASSUME BaseInv, BaseInv', Follows,
         NEW n \in Devnodes, n = event.node, event # NoNode, event' = NoNode,
         UNCHANGED <<netlink, connected, main, setup>>,
         Here' \subseteq Here \cup {n},
         event.action = "remove" => n \notin Here',
         Unique',
         \A m \in Devnodes : m # n /\ AsSaid(m) => AsSaid(m)',
         event.action = Now(n, connected) => AsSaid(n)'
  PROVE  Follows'
<1>1. /\ Pending \in Seq(Event) /\ Pending # <<>> /\ Head(Pending) = event
      /\ Pending' = Tail(Pending)
  <2>1. Pending' = netlink
    BY DEF Pending, NoNode
  <2> QED
    BY <2>1, PendingFacts
<1>2. Alternates(Pending', connected')
  BY <1>1, AlternatesRemainder DEF Follows
<1>3. RemovesFirst(Pending', Here')
  <2>1. Alternates(Pending, connected) /\ RemovesFirst(Pending, Here)
    BY DEF Follows
  <2> QED
    BY <1>1, <2>1, RemovesFirstRemainder
<1>4. ASSUME NEW m \in Devnodes, Unconcerned(m)', m # n
      PROVE  Unconcerned(m)
  <2>1. /\ DOMAIN Pending = 1..Len(Pending) /\ Len(Pending) \in Nat
        /\ DOMAIN Pending' = 1..(Len(Pending) - 1)
        /\ \A i \in DOMAIN Pending' : Pending'[i] = Pending[i + 1]
        /\ Pending[1] = event
    BY <1>1, Remainder
  <2>2. ASSUME NEW i \in DOMAIN Pending, i # 1
        PROVE  Pending[i].node # m
    <3>1. i - 1 \in DOMAIN Pending' /\ (i - 1) + 1 = i
      BY <2>1, <2>2
    <3> QED
      BY <1>4, <2>1, <3>1 DEF Unconcerned
  <2> QED
    BY <1>4, <2>1, <2>2 DEF Unconcerned
<1>5. ASSUME Unconcerned(n)'
      PROVE  AsSaid(n)'
  <2>1. \A i \in DOMAIN Tail(Pending) : Tail(Pending)[i].node # Head(Pending).node
    BY <1>1, <1>5 DEF Unconcerned
  <2>2. Head(Pending).action = Now(Head(Pending).node, connected)
    BY <1>1, <2>1, LastEvent DEF Follows
  <2> QED
    BY <1>1, <2>2
<1>6. UpToDate'
  <2>1. Subscribed' = Subscribed
    BY DEF setup, Subscribed
  <2>2. ASSUME NEW m \in Devnodes, Unconcerned(m)', Subscribed, main \notin Early
        PROVE  AsSaid(m)'
    <3>1. CASE m = n
      BY <1>5, <2>2, <3>1
    <3>2. CASE m # n
      BY <1>4, <2>2, <3>2 DEF Follows, UpToDate
    <3> QED
      BY <3>1, <3>2
  <2> QED
    BY <2>1, <2>2 DEF UpToDate
<1> QED
  BY <1>2, <1>3, <1>6 DEF Follows

LEMMA FollowsPlug ==
  ASSUME BaseInv, [Next]_vars, UNCHANGED setup, FollowInv, NEW n \in Devnodes, Plug(n)
  PROVE  FollowInv'
<1> SUFFICES ASSUME ~raced', main' \notin Late PROVE Follows'
  BY DEF FollowInv
<1>1. Follows /\ ~raced
  BY FollowsBefore
<1>2. /\ n \notin connected /\ connected' = connected \cup {n}
      /\ life' = [life EXCEPT ![n] = @ + 1] /\ netlink' = Queued("add", n)
      /\ UNCHANGED <<event, objects, Gone, todo, main, missed>>
      /\ Subscribed => main \notin Early
  BY DEF Plug, heap, Gone, mainVars, monitorVars, Early
<1>3. Alive' = Alive /\ Here' = Here
  BY <1>2 DEF Alive, Here
<1>4. CASE ~Subscribed
  <2>1. ~Subscribed' /\ netlink' = netlink /\ Pending' = Pending /\ Pending = <<>>
    BY <1>2, <1>4, PendingFacts DEF Queued, Pending, NoNode, setup, Subscribed
  <2>2. DOMAIN Pending' = {}
    BY <2>1
  <2>3. Alternates(Pending', connected') /\ RemovesFirst(Pending', Here')
    BY <2>2 DEF Alternates, RemovesFirst
  <2>4. Unique'
    BY <1>1, <1>2, <1>3 DEF Follows, Unique
  <2> QED
    BY <2>1, <2>3, <2>4 DEF Follows, UpToDate
<1>5. CASE Subscribed
  <2>1. "add" # Now(n, connected) /\ "add" = Now(n, connected')
        /\ \A m \in Devnodes : m # n => Now(m, connected') = Now(m, connected)
    BY <1>2 DEF Now
  <2>2. ASSUME n \in Here
        PROVE  \E j \in DOMAIN Pending : Pending[j].node = n /\ Pending[j].action = "remove"
    <3>1. ~AsSaid(n)
      BY <1>2, <2>2 DEF AsSaid
    <3>2. ~Unconcerned(n)
      BY <1>1, <1>2, <1>5, <3>1 DEF Follows, UpToDate
    <3>3. PICK i \in DOMAIN Pending : Pending[i].node = n
      BY <3>2 DEF Unconcerned
    <3>4. Now(n, connected) = "remove"
      BY <1>2 DEF Now
    <3> QED
      BY <1>1, <3>3, <3>4 DEF Follows, Alternates
  <2>3. \A m \in Devnodes : m # n /\ AsSaid(m) => AsSaid(m)'
    <3>1. \A m \in Devnodes : m # n => life'[m] = life[m]
      BY <1>2 DEF BaseInv, SharedType
    <3> QED
      BY <1>2, <1>3, <3>1 DEF AsSaid
  <2> QED
    BY <1>1, <1>2, <1>5, <2>1, <2>2, <2>3, FollowsQueued
<1> QED
  BY <1>4, <1>5

LEMMA FollowsUnplug ==
  ASSUME BaseInv, [Next]_vars, UNCHANGED setup, FollowInv, NEW n \in Devnodes, Unplug(n)
  PROVE  FollowInv'
<1> SUFFICES ASSUME ~raced', main' \notin Late PROVE Follows'
  BY DEF FollowInv
<1>1. Follows /\ ~raced
  BY FollowsBefore
<1>2. /\ n \in connected /\ connected' = connected \ {n} /\ missed' = missed \ {n}
      /\ netlink' = Queued("remove", n)
      /\ UNCHANGED <<life, event, objects, Gone, todo, main>>
  BY DEF Unplug, heap, Gone, mainVars, monitorVars
<1>3. Alive' = Alive /\ Here' = Here
  BY <1>2 DEF Alive, Here
<1>4. CASE ~Subscribed
  <2>1. ~Subscribed' /\ netlink' = netlink /\ Pending' = Pending /\ Pending = <<>>
    BY <1>2, <1>4, PendingFacts DEF Queued, Pending, NoNode, setup, Subscribed
  <2>2. DOMAIN Pending' = {}
    BY <2>1
  <2>3. Alternates(Pending', connected') /\ RemovesFirst(Pending', Here')
    BY <2>2 DEF Alternates, RemovesFirst
  <2>4. Unique'
    BY <1>1, <1>2, <1>3 DEF Follows, Unique
  <2> QED
    BY <2>1, <2>3, <2>4 DEF Follows, UpToDate
<1>5. CASE Subscribed
  <2>1. "remove" # Now(n, connected) /\ "remove" = Now(n, connected')
        /\ \A m \in Devnodes : m # n => Now(m, connected') = Now(m, connected)
    BY <1>2 DEF Now
  <2>2. \A m \in Devnodes : m # n /\ AsSaid(m) => AsSaid(m)'
    BY <1>2, <1>3 DEF AsSaid
  <2> QED
    BY <1>1, <1>2, <1>5, <2>1, <2>2, FollowsQueued
<1> QED
  BY <1>4, <1>5

LEMMA FollowsStart ==
  ASSUME BaseInv, BaseInv', [Next]_vars, FollowInv, Start
  PROVE  FollowInv'
<1> SUFFICES ASSUME ~raced', main' \notin Late PROVE Follows'
  BY DEF FollowInv
<1>1. Follows
  BY FollowsBefore
<1>2. /\ main' \in {"starting", "resetting"}
      /\ UNCHANGED <<connected, life, missed, todo, objects, Gone, event>>
      /\ netlink' = netlink \/ netlink' = <<>>
      /\ event = NoNode
  BY DEF Start, MonitorCall, MonitorCallFails, kernel, heap, Gone, monitorVars, BaseInv, SetupInv,
     HandsInv
<1>3. CASE netlink' = netlink
  <2>1. Pending' = Pending
    BY <1>2, <1>3 DEF Pending, NoNode
  <2> QED
    BY <1>1, <1>2, <2>1, FollowsFrame DEF Early
<1>4. CASE netlink' = <<>>
  <2>1. Pending' = <<>>
    BY <1>2, <1>4 DEF Pending, NoNode
  <2>2. DOMAIN Pending' = {}
    BY <2>1
  <2>3. Alternates(Pending', connected') /\ RemovesFirst(Pending', Here')
    BY <2>2 DEF Alternates, RemovesFirst
  <2>4. Alive' = Alive
    BY <1>2 DEF Alive
  <2>5. Unique'
    BY <1>1, <1>2, <2>4 DEF Follows, Unique
  <2> QED
    BY <1>2, <2>3, <2>5 DEF Follows, UpToDate, Early
<1> QED
  BY <1>2, <1>3, <1>4

LEMMA FollowsEnumerate ==
  ASSUME BaseInv, [Next]_vars, UNCHANGED setup, EarlyInv, FollowInv, Enumerate \/ EnumerateFails
  PROVE  FollowInv'
<1> SUFFICES ASSUME ~raced', main' \notin Late PROVE Follows'
  BY DEF FollowInv
<1>1. Follows /\ ~raced
  BY FollowsBefore
<1>2. /\ main \in Early
      /\ UNCHANGED <<connected, life, netlink, objects, Gone, event>>
      /\ \/ todo' = connected /\ missed' = missed
         \/ todo' = todo /\ missed' = connected
  BY DEF Enumerate, EnumerateFails, Early, kernel, heap, Gone, monitorVars
<1>3. /\ objects = <<>> /\ missed = {} /\ Adds = {}
      /\ monitor \in {"absent", "waiting", "searching"}
  BY <1>1, <1>2 DEF EarlyInv
<1>4. todo = {}
  BY <1>2 DEF BaseInv, HandsInv, Early
<1>5. Alive = {} /\ Alive' = {} /\ Here' = todo'
  BY <1>2, <1>3 DEF Alive, Here
<1>6. Pending' = Pending
  BY <1>2 DEF Pending, NoNode
<1>7. \A i \in DOMAIN Pending : Pending[i].action # "add"
  <2>1. \A i \in DOMAIN netlink : netlink[i].action # "add"
    BY <1>3 DEF Adds
  <2>2. CASE event = NoNode
    BY <2>1, <2>2 DEF Pending
  <2>3. CASE event # NoNode
    <3>1. event.action = "remove"
      BY <1>3, <2>3 DEF BaseInv, HandsInv
    <3>2. /\ DOMAIN Pending = 1..Len(Pending) /\ Len(Pending) \in Nat
          /\ DOMAIN netlink = 1..(Len(Pending) - 1)
          /\ \A i \in DOMAIN netlink : netlink[i] = Pending[i + 1]
          /\ Pending[1] = event
      BY <2>3, PendingFacts, Remainder
    <3>3. \A i \in DOMAIN Pending : i # 1 => i - 1 \in DOMAIN netlink /\ (i - 1) + 1 = i
      BY <3>2
    <3> QED
      BY <2>1, <3>1, <3>2, <3>3
  <2> QED
    BY <2>2, <2>3
<1>8. Alternates(Pending', connected') /\ RemovesFirst(Pending', Here')
  BY <1>1, <1>2, <1>6, <1>7 DEF Follows, RemovesFirst
<1>9. Unique' /\ UpToDate'
  BY <1>2, <1>3, <1>4, <1>5 DEF Unique, UpToDate, AsSaid
<1> QED
  BY <1>8, <1>9 DEF Follows

\* A receiver is made for devnode n, which had none alive.
LEMMA Joined ==
  ASSUME BaseInv, Follows, NEW n \in Devnodes, Open(n), Gone' = Gone, life' = life,
         \A r \in Alive : objects[r].node # n,
         todo' = todo \ {n}
  PROVE  /\ Unique'
         /\ Here' = Here \cup {n}
         /\ n \in connected
         /\ \A r \in Alive' : objects'[r].node = n => objects'[r].life = life'[n]
         /\ \A m \in Devnodes : m # n /\ AsSaid(m) /\ connected' = connected => AsSaid(m)'
<1> DEFINE new == Len(objects) + 1
<1>1. /\ n \in connected /\ missed' = missed \ {n}
      /\ DOMAIN objects' = DOMAIN objects \cup {new} /\ new \notin DOMAIN objects
      /\ \A r \in DOMAIN objects : objects'[r] = objects[r]
      /\ objects'[new].node = n /\ objects'[new].life = life[n]
      /\ new \notin Gone
  <2>1. /\ n \in connected /\ missed' = missed \ {n}
        /\ DOMAIN objects' = 1..(Len(objects) + 1)
        /\ \A r \in DOMAIN objects : objects'[r] = objects[r]
        /\ objects'[new] = [node |-> n, life |-> life[n]]
    BY Opened DEF BaseInv
  <2>2. DOMAIN objects = 1..Len(objects) /\ Len(objects) \in Nat /\ Gone \subseteq DOMAIN objects
    BY SharedFacts, GoneFacts DEF BaseInv
  <2>3. 1..(Len(objects) + 1) = 1..Len(objects) \cup {new} /\ new \notin 1..Len(objects)
    BY <2>2
  <2> QED
    BY <2>1, <2>2, <2>3
<1> HIDE DEF new
<1>2. Alive' = Alive \cup {new} /\ Alive \subseteq DOMAIN objects
  BY <1>1 DEF Alive
<1>3. \A r \in Alive : objects'[r] = objects[r]
  BY <1>1, <1>2
<1>4. Unique'
  BY <1>1, <1>2, <1>3 DEF Follows, Unique
<1>5. Here' = Here \cup {n}
  BY <1>1, <1>2, <1>3 DEF Here
<1>6. \A r \in Alive' : objects'[r].node = n => objects'[r].life = life'[n]
  BY <1>1, <1>2, <1>3
<1>7. \A m \in Devnodes : m # n /\ AsSaid(m) /\ connected' = connected => AsSaid(m)'
  BY <1>1, <1>2, <1>3, <1>5 DEF AsSaid
<1> QED
  BY <1>1, <1>4, <1>5, <1>6, <1>7

LEMMA FollowsMainOpen ==
  ASSUME BaseInv, [Next]_vars, UNCHANGED setup, FollowInv, NEW n \in todo, MainOpen(n)
  PROVE  FollowInv'
<1> SUFFICES ASSUME ~raced', main' \notin Late PROVE Follows'
  BY DEF FollowInv
<1>1. Follows
  BY FollowsBefore
<1>2. /\ main = "opening" /\ todo' = todo \ {n} /\ (Open(n) \/ OpenFails(n))
      /\ UNCHANGED <<connected, life, netlink, Gone, event>> /\ n \in Devnodes
  BY DEF MainOpen, Gone, kernel, monitorVars, BaseInv, ThreadType
<1>3. Pending' = Pending
  BY <1>2 DEF Pending, NoNode
<1>4. \A r \in Alive : objects[r].node # n
  BY <1>1 DEF Follows, Unique
<1>5. /\ Unique' /\ Here' \subseteq Here
      /\ \A m \in Devnodes : AsSaid(m) => AsSaid(m)'
  <2>1. CASE Open(n)
    <3>1. /\ Unique' /\ Here' = Here \cup {n} /\ n \in connected
          /\ \A r \in Alive' : objects'[r].node = n => objects'[r].life = life'[n]
          /\ \A m \in Devnodes : m # n /\ AsSaid(m) => AsSaid(m)'
      BY <1>1, <1>2, <1>4, <2>1, Joined
    <3>2. n \in Here
      BY DEF Here
    <3>3. AsSaid(n)'
      BY <1>2, <2>1, <3>1 DEF AsSaid, Open
    <3> QED
      BY <3>1, <3>2, <3>3
  <2>2. CASE OpenFails(n)
    <3>1. objects' = objects /\ missed' = missed \cup (connected \cap {n})
      BY <2>2 DEF OpenFails
    <3>2. Alive' = Alive
      BY <1>2, <3>1 DEF Alive
    <3>3. Here' = Here \ {n}
      BY <1>2, <1>4, <3>1, <3>2 DEF Here
    <3>4. Unique'
      BY <1>1, <1>2, <3>1, <3>2 DEF Follows, Unique
    <3>5. \A m \in Devnodes : AsSaid(m) => AsSaid(m)'
      BY <1>2, <1>4, <3>1, <3>2, <3>3 DEF AsSaid
    <3> QED
      BY <3>3, <3>4, <3>5
  <2> QED
    BY <1>2, <2>1, <2>2
<1>6. Alternates(Pending', connected') /\ RemovesFirst(Pending', Here')
  BY <1>1, <1>2, <1>3, <1>5 DEF Follows, RemovesFirst
<1>7. UpToDate'
  <2>1. Subscribed' = Subscribed /\ main \notin Early
    BY <1>2 DEF setup, Subscribed, Early
  <2>2. \A m \in Devnodes : Unconcerned(m)' = Unconcerned(m)
    BY <1>3 DEF Unconcerned
  <2> QED
    BY <1>1, <1>5, <2>1, <2>2 DEF Follows, UpToDate
<1> QED
  BY <1>5, <1>6, <1>7 DEF Follows

LEMMA FollowsMonitorOpen ==
  ASSUME BaseInv, BaseInv', [Next]_vars, UNCHANGED setup, FollowInv, MonitorOpen
  PROVE  FollowInv'
<1> SUFFICES ASSUME ~raced', main' \notin Late PROVE Follows'
  BY DEF FollowInv
<1>1. Follows
  BY FollowsBefore
<1> DEFINE n == event.node
<1>2. /\ monitor = "opening" /\ event' = NoNode /\ (Open(n) \/ OpenFails(n))
      /\ UNCHANGED <<connected, life, netlink, Gone, todo, main>>
  BY DEF MonitorOpen, Gone, kernel, mainVars
<1>3. event \in Event /\ event.action = "add" /\ n \in Devnodes /\ event # NoNode
  BY <1>2, EventFacts DEF BaseInv, HandsInv
<1>4. n \notin Here
  <2>1. Pending \in Seq(Event) /\ Pending # <<>> /\ Head(Pending) = event
    BY <1>3, PendingFacts
  <2>2. /\ DOMAIN Pending = 1..Len(Pending) /\ Len(Pending) \in Nat /\ Len(Pending) > 0
        /\ Pending[1] = event
    BY <2>1, Remainder
  <2>3. 1 \in DOMAIN Pending /\ ~ \E j \in DOMAIN Pending : j < 1
    BY <2>2
  <2>4. RemovesFirst(Pending, Here)
    BY <1>1 DEF Follows
  <2> QED
    BY <1>3, <2>2, <2>3, <2>4 DEF RemovesFirst
<1>5. n \notin todo /\ \A r \in Alive : objects[r].node # n
  BY <1>4 DEF Here
<1>6. PICK d \in Devnodes : d = n
  BY <1>3
<1> HIDE DEF n
<1>7. /\ Unique' /\ Here' \subseteq Here \cup {d} /\ AsSaid(d)'
      /\ \A m \in Devnodes : m # d /\ AsSaid(m) => AsSaid(m)'
  <2>1. CASE Open(n)
    <3>1. /\ Unique' /\ Here' = Here \cup {d} /\ d \in connected
          /\ \A r \in Alive' : objects'[r].node = d => objects'[r].life = life'[d]
          /\ \A m \in Devnodes : m # d /\ AsSaid(m) => AsSaid(m)'
      <4>1. todo' = todo \ {d} /\ Open(d) /\ \A r \in Alive : objects[r].node # d
        BY <1>2, <1>5, <1>6, <2>1
      <4> QED
        BY <1>1, <1>2, <4>1, Joined
    <3>2. missed' = missed \ {d}
      BY <1>6, <2>1 DEF Open
    <3>3. AsSaid(d)'
      BY <1>2, <3>1, <3>2 DEF AsSaid
    <3> QED
      BY <3>1, <3>3
  <2>2. CASE OpenFails(n)
    <3>1. objects' = objects /\ missed' = missed \cup (connected \cap {d})
      BY <1>6, <2>2 DEF OpenFails
    <3>2. Alive' = Alive /\ Here' = Here
      BY <1>2, <3>1 DEF Alive, Here
    <3>3. Unique'
      BY <1>1, <1>2, <3>1, <3>2 DEF Follows, Unique
    <3>4. \A m \in Devnodes : m # d /\ AsSaid(m) => AsSaid(m)'
      BY <1>2, <3>1, <3>2 DEF AsSaid
    <3>5. AsSaid(d)'
      BY <1>2, <1>4, <1>5, <1>6, <3>1, <3>2 DEF AsSaid
    <3> QED
      BY <3>2, <3>3, <3>4, <3>5
  <2> QED
    BY <1>2, <2>1, <2>2
<1>8. d = event.node
  BY <1>6 DEF n
<1> QED
  BY <1>1, <1>2, <1>3, <1>7, <1>8, FollowsHandled

\* The monitor has searched for the devnode of a remove event: either it was found,
\* or no receiver is there.
LEMMA FollowsSearched ==
  ASSUME BaseInv, BaseInv', [Next]_vars, UNCHANGED setup, CellsInv, FollowInv,
         NotFound \/ Remove
  PROVE  FollowInv'
<1> SUFFICES ASSUME ~raced', main' \notin Late PROVE Follows'
  BY DEF FollowInv
<1>1. Follows /\ ~raced /\ main \notin Late
  BY FollowsBefore
<1>2. /\ monitor = "searching" /\ event' = NoNode
      /\ UNCHANGED <<connected, life, netlink, objects, todo, main, missed>>
      /\ main \notin Scanning
  BY <1>1 DEF NotFound, LeaveSearch, Remove, RemoveAt, Free, Touch, kernel, heap, mainVars
<1>3. event \in Event /\ event.action = "remove" /\ event.node \in Devnodes /\ event # NoNode
  BY <1>2, EventFacts DEF BaseInv, HandsInv
<1>4. PICK n \in Devnodes : n = event.node
  BY <1>3
<1>5. held = 0 /\ made = 0 /\ todo = {}
  BY <1>2 DEF BaseInv, HandsInv, Scanning
<1>6. /\ Alive' \subseteq Alive
      /\ \A r \in Alive : objects[r].node # n => r \in Alive'
      /\ \A r \in Alive' : objects[r].node # n
  <2>1. CASE Remove
    <3>1. PICK i \in 1..count : RemoveAt(i)
      BY <2>1 DEF Remove
    <3>2. /\ Matches(i) /\ Gone' = Gone \cup {receivers[i]}
      BY <3>1, FreeIsGone DEF RemoveAt
    <3>3. Alive' = Alive \ {receivers[i]}
      BY <1>2, <3>2 DEF Alive
    <3>4. objects[receivers[i]].node = n /\ receivers[i] \in Alive
      <4>1. Contents /\ InUse(i)
        BY <1>1, <1>2 DEF CellsInv, Orderly, InUse
      <4> QED
        BY <1>4, <3>2, <4>1 DEF Matches, Contents
    <3> QED
      BY <1>1, <3>3, <3>4 DEF Follows, Unique
  <2>2. CASE NotFound
    <3>1. Stops = {} /\ Gone' = Gone
      BY <2>2 DEF NotFound, LeaveSearch, heap, Gone
    <3>2. Alive' = Alive
      BY <1>2, <3>1 DEF Alive
    <3>3. ASSUME NEW r \in Alive
          PROVE  objects[r].node # n
      <4>1. Contents /\ 0 \notin Alive
        BY <1>1, SharedFacts DEF CellsInv, Orderly, BaseInv, Alive
      <4>2. PICK i \in 1..count : receivers[i] = r
        BY <1>5, <4>1 DEF Contents
      <4>3. ~Matches(i) /\ Sound(i)
        BY <3>1, <4>2 DEF Stops
      <4> QED
        BY <1>4, <4>2, <4>3 DEF Matches
    <3> QED
      BY <3>2, <3>3
  <2> QED
    BY <2>1, <2>2
<1>7. n \notin Here' /\ Here' \subseteq Here
  BY <1>2, <1>5, <1>6 DEF Here
<1>8. Unique'
  BY <1>1, <1>2, <1>6 DEF Follows, Unique
<1>9. \A m \in Devnodes : m # n /\ AsSaid(m) => AsSaid(m)'
  <2>1. \A m \in Devnodes : m # n => (m \in Here' <=> m \in Here)
    BY <1>2, <1>6 DEF Here
  <2> QED
    BY <1>2, <1>6, <2>1 DEF AsSaid
<1>10. event.action = Now(n, connected) => AsSaid(n)'
  <2>1. ASSUME event.action = Now(n, connected)
        PROVE  n \notin connected
    BY <1>3, <2>1 DEF Now
  <2> QED
    BY <1>2, <1>6, <1>7, <2>1 DEF AsSaid
<1> QED
  BY <1>1, <1>2, <1>3, <1>4, <1>7, <1>8, <1>9, <1>10, FollowsHandled

LEMMA FollowsQuiet ==
  ASSUME BaseInv, BaseInv', [Next]_vars, FollowInv, UNCHANGED setup,
         \/ ResetCount \/ ResetArray \/ MainGrow \/ MainStore \/ ScanReturns
         \/ LoadArray \/ GetReceiver \/ DevicesScanned \/ TypeQ \/ InputEnds
         \/ StartFree \/ FreeReceiver \/ FreeRegistry \/ Exit \/ MainFaults
         \/ Receive \/ MonitorScanned \/ MonitorGrow \/ MonitorStore \/ Shift \/ Drop
         \/ ReceiveFails \/ MonitorFaults \/ UNCHANGED vars
  PROVE  FollowInv'
<1> SUFFICES ASSUME ~raced', main' \notin Late PROVE Follows'
  BY DEF FollowInv
<1>1. Follows
  BY FollowsBefore
<1>2. UNCHANGED <<connected, life, missed, todo, objects>>
  BY DEF ResetCount, ResetArray, MainGrow, MainStore, ScanReturns, LoadArray, GetReceiver,
     DevicesScanned, TypeQ, InputEnds, StartFree, FreeReceiver, FreeRegistry, Exit, MainFaults,
     Receive, ReceiveInto, MonitorScanned, MonitorGrow, MonitorStore, Shift, ShiftFrom, Drop,
     ReceiveFails, MonitorFaults, Free, vars, kernel, heap, mainVars
<1>3. UNCHANGED Gone
  <2>1. ~FreeReceiver
    BY DEF FreeReceiver, Late
  <2> QED
    BY <2>1 DEF ResetCount, ResetArray, MainGrow, MainStore, ScanReturns, LoadArray, GetReceiver,
       DevicesScanned, TypeQ, InputEnds, StartFree, FreeRegistry, Exit, MainFaults,
       Receive, ReceiveInto, MonitorScanned, MonitorGrow, MonitorStore, Shift, ShiftFrom, Drop,
       ReceiveFails, MonitorFaults, vars, heap, Gone
<1>4. Pending' = Pending
  <2>1. CASE Receive
    BY <2>1, PendingReceived
  <2>2. CASE ~Receive
    <3>1. UNCHANGED <<netlink, event>>
      BY <2>2 DEF ResetCount, ResetArray, MainGrow, MainStore, ScanReturns, LoadArray, GetReceiver,
         DevicesScanned, TypeQ, InputEnds, StartFree, FreeReceiver, FreeRegistry, Exit, MainFaults,
         MonitorScanned, MonitorGrow, MonitorStore, Shift, ShiftFrom, Drop,
         ReceiveFails, MonitorFaults, vars, kernel, monitorVars
    <3> QED
      BY <3>1 DEF Pending, NoNode
  <2> QED
    BY <2>1, <2>2
<1>5. main' \notin Early => main \notin Early
  BY DEF ResetCount, ResetArray, MainGrow, MainStore, ScanReturns, LoadArray, GetReceiver,
     DevicesScanned, TypeQ, InputEnds, StartFree, FreeReceiver, FreeRegistry, Exit, MainFaults,
     Receive, ReceiveInto, MonitorScanned, MonitorGrow, MonitorStore, Shift, ShiftFrom, Drop,
     ReceiveFails, MonitorFaults, vars, mainVars, Early
<1>6. Subscribed' = Subscribed
  BY DEF setup, Subscribed
<1> QED
  BY <1>1, <1>2, <1>3, <1>4, <1>5, <1>6, FollowsFrame

LEMMA FollowStep ==
  ASSUME BaseInv, BaseInv', [Next]_vars, EarlyInv, CellsInv, FollowInv
  PROVE  FollowInv'
<1>1. CASE Start
  BY <1>1, FollowsStart
<1>2. CASE Kernel /\ UNCHANGED setup
  BY <1>2, FollowsPlug, FollowsUnplug DEF Kernel
<1>3. CASE Main /\ UNCHANGED setup
  BY <1>3, FollowsQuiet, FollowsEnumerate, FollowsMainOpen DEF Main
<1>4. CASE Monitor /\ UNCHANGED setup
  BY <1>4, FollowsQuiet, FollowsMonitorOpen, FollowsSearched DEF Monitor, Handle
<1>5. CASE UNCHANGED vars
  BY <1>5, FollowsQuiet DEF vars, setup
<1> QED
  BY <1>1, <1>2, <1>3, <1>4, <1>5 DEF Next

LEMMA FollowInit == Init => FollowInv
<1> SUFFICES ASSUME Init PROVE Follows
  BY DEF FollowInv
<1>1. Pending = <<>> /\ DOMAIN Pending = {} /\ Alive = {} /\ main \in Early
  BY DEF Init, Pending, Alive, Early
<1>2. Alternates(Pending, connected) /\ RemovesFirst(Pending, Here)
  BY <1>1 DEF Alternates, RemovesFirst
<1> QED
  BY <1>1, <1>2 DEF Follows, Unique, UpToDate

LEMMA FollowInvariant == Spec => [](BaseInv /\ OrderInv /\ FollowInv)
<1>1. Init => BaseInv /\ OrderInv /\ FollowInv
  BY BaseInit, OrderInit, FollowInit
<1>2. BaseInv /\ OrderInv /\ FollowInv /\ [Next]_vars => (BaseInv /\ OrderInv /\ FollowInv)'
  <2>1. BaseInv /\ OrderInv /\ [Next]_vars => (BaseInv /\ OrderInv)'
    BY BaseStep, EarlyStep, CellsStep, LoopStep, FaultStep DEF OrderInv
  <2> QED
    BY <2>1, FollowStep DEF OrderInv
<1> QED
  BY <1>1, <1>2, PTL DEF Spec

\* As long as the monitor has not run while main was enumerating, whenever it has
\* caught up with udev slavery_t.receivers lists every connected receiver that
\* could be opened, once, as it was last plugged in, and nothing else.
THEOREM RegistryCorrect == Spec => []RegistryFollows
<1>1. ASSUME BaseInv, OrderInv, FollowInv
      PROVE  RegistryFollows
  <2> SUFFICES ASSUME Settled, ~raced
               PROVE  /\ {objects[r] : r \in Listed} =
                           {[node |-> n, life |-> life[n]] : n \in connected \ missed}
                      /\ \A i, j \in 1..count :
                           i # j => objects[receivers[i]].node # objects[receivers[j]].node
    BY DEF RegistryFollows
  <2>1. /\ monitor = "waiting" /\ netlink = <<>> /\ event = NoNode
        /\ main \notin Early /\ main \notin Late
        /\ held = 0 /\ made = 0 /\ todo = {}
    BY <1>1 DEF Settled, Early, Late, BaseInv, HandsInv
  <2>2. Follows /\ Contents
    BY <1>1, <2>1 DEF FollowInv, OrderInv, CellsInv, Orderly
  <2>3. Subscribed
    <3>1. stage = 0 /\ acquired = {"monitor", "udev", "socket"}
      BY <1>1, <2>1 DEF BaseInv, SetupInv, MonitorWholeOrNot, Early
    <3> QED
      BY <3>1 DEF Subscribed
  <2>4. \A n \in Devnodes : AsSaid(n)
    <3>1. DOMAIN Pending = {}
      BY <2>1 DEF Pending
    <3> QED
      BY <2>1, <2>2, <2>3, <3>1 DEF Follows, UpToDate, Unconcerned
  <2>5. Listed = Alive
    <3>1. \A i \in 1..count : InUse(i)
      BY <2>1 DEF InUse
    <3>2. 0 \notin Alive
      BY <1>1, SharedFacts DEF Alive, BaseInv
    <3> QED
      BY <2>1, <2>2, <3>1, <3>2 DEF Contents, Listed
  <2>6. \A r \in Alive : /\ objects[r].node \in Devnodes
                         /\ objects[r] = [node |-> objects[r].node, life |-> objects[r].life]
    <3>1. \A r \in DOMAIN objects : objects[r] \in [node : Devnodes, life : 0..MaxPlugs]
      BY <1>1, ElementOfSeq, SharedFacts DEF BaseInv, SharedType
    <3> QED
      BY <3>1 DEF Alive
  <2>7. ASSUME NEW r \in Alive
        PROVE  /\ objects[r].node \in connected \ missed
               /\ objects[r] = [node |-> objects[r].node, life |-> life[objects[r].node]]
    <3>1. objects[r].node \in Here
      BY DEF Here
    <3> QED
      BY <2>4, <2>6, <3>1 DEF AsSaid
  <2>8. ASSUME NEW n \in connected \ missed
        PROVE  \E r \in Alive : objects[r] = [node |-> n, life |-> life[n]]
    <3>1. n \in Devnodes
      BY <1>1 DEF BaseInv, SharedType
    <3>2. n \in Here
      BY <2>4, <3>1 DEF AsSaid
    <3>3. PICK r \in Alive : objects[r].node = n
      BY <2>1, <3>2 DEF Here
    <3> QED
      BY <2>7, <3>3
  <2>9. {objects[r] : r \in Listed} = {[node |-> n, life |-> life[n]] : n \in connected \ missed}
    <3> DEFINE Said == {[node |-> n, life |-> life[n]] : n \in connected \ missed}
    <3>1. ASSUME NEW r \in Alive
          PROVE  objects[r] \in Said
      BY <2>7
    <3>2. ASSUME NEW n \in connected \ missed
          PROVE  [node |-> n, life |-> life[n]] \in {objects[r] : r \in Alive}
      <4>1. PICK r \in Alive : objects[r] = [node |-> n, life |-> life[n]]
        BY <2>8
      <4> QED
        BY <4>1
    <3>3. Said \subseteq {objects[r] : r \in Alive}
      BY <3>2
    <3>4. {objects[r] : r \in Alive} \subseteq Said
      <4> HIDE DEF Said
      <4> QED
        BY <3>1
    <3> QED
      BY <2>5, <3>3, <3>4
  <2>10. ASSUME NEW i \in 1..count, NEW j \in 1..count, i # j
         PROVE  objects[receivers[i]].node # objects[receivers[j]].node
    <3>1. InUse(i) /\ InUse(j)
      BY <2>1 DEF InUse
    <3>2. receivers[i] # receivers[j] /\ receivers[i] \in Alive /\ receivers[j] \in Alive
      BY <2>2, <2>10, <3>1 DEF Contents
    <3> QED
      BY <2>2, <3>2 DEF Follows, Unique
  <2> QED
    BY <2>9, <2>10
<1> QED
  BY <1>1, FollowInvariant, PTL
===============================================================================
