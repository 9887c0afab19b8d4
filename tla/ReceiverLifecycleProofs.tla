------------------------ MODULE ReceiverLifecycleProofs ------------------------
(***************************************************************************)
(* Proofs about ReceiverLifecycle and the workers of EventDispatch, for    *)
(* every number of device indexes, scans and events.                       *)
(***************************************************************************)
EXTENDS ReceiverLifecycle, SequenceTheorems, TLAPS

-------------------------------------------------------------------------------
(* The invariant.                                                          *)

Scanning == {"clearing", "detecting", "growing", "moving", "storing"}
Freeing  == {"freeing devices", "freeing receiver", "freed"}
Control  == {"fd", "read end", "write end"}

\* What slavery_receiver_from_devnode has acquired before its n-th call.
Acquired ==
  << {"struct"},
     {"struct", "fd"},
     {"struct", "fd"},
     {"struct", "fd", "devnode", "name"},
     {"struct", "fd", "devnode", "name", "address"},
     {"struct", "fd", "devnode", "name", "address"},
     Resources,
     Resources >>

\* What has been closed before the n-th close.
Closed(n) == {Descriptors[i] : i \in 1..(n - 1)}

\* What the owner holds, and what it has given back.
HeldInv ==
  /\ owner = "constructing" => step \in 1..8 /\ held = Acquired[step]
  /\ owner = "null" => held \subseteq {"devnode"}
  /\ owner \in Scanning \cup {"idle", "joining"} => held = Resources
  /\ owner = "closing" =>
       step \in 1..3 /\ held = Resources \ Closed(step)
  /\ owner \in {"freeing devices", "freeing receiver"} => held = Resources \ Control
  /\ owner = "freed" => held = {}
  /\ owner = "failed" => Resources \ Control \subseteq held
  /\ allocated <=> owner \notin {"null", "freed"}

\* Which thread there is when, and what it has in its hands.
ListenerInv ==
  /\ listener = "none" <=> owner \in {"constructing", "null"}
  /\ owner \in {"closing"} \cup Freeing => listener = "ended"
  /\ owner \in {"constructing", "null"} => workers = <<>>
  /\ listener = "dispatching" => Len(workers) < MaxEvents
  /\ listener = "started" => workers # <<>>
  /\ lost = 1 => cancelled /\ listener = "ended"
  /\ owner \in {"joining", "closing"} \cup Freeing => cancelled

\* How far a scan or a release has come.
StepInv ==
  /\ owner = "clearing" => numDevices = 0
  /\ owner = "detecting" => step \in 1..(LastIndex + 1) /\ numDevices < step
  /\ owner \in {"growing", "moving", "storing"} => step \in 1..LastIndex
  /\ owner \in {"growing", "moving"} => numDevices < step
  /\ owner = "storing" => /\ pending # {}
                          /\ numDevices <= step
                          /\ IF "count" \in pending THEN numDevices < step ELSE numDevices # 0
  /\ owner \in Scanning => scans # 0
  /\ owner = "freeing devices" => step \in 1..(numDevices + 1)

CellPending  == owner = "storing" /\ "cell" \in pending
CountPending == owner = "storing" /\ "count" \in pending

\* The cells that are written.
Filled == IF CellPending THEN Len(OldCells) - 1 ELSE Len(OldCells)

\* A device is made but not in the array yet.
DeviceWaits == owner \in {"growing", "moving"} \/ CellPending

\* The array has a cell per device, each a device of its own.
ArrayInv ==
  /\ array # 0 /\ owner \notin {"moving", "freeing receiver", "freed"} =>
       blocks[array].live
  /\ owner # "clearing" =>
       /\ Len(OldCells) = IF CountPending THEN numDevices + 1 ELSE numDevices
       /\ \A n \in 1..Filled : OldCells[n] # 0
       /\ \A m, n \in 1..Filled : m < n => OldCells[m] < OldCells[n]
       /\ DeviceWaits => \A n \in 1..Filled : OldCells[n] < Len(devices)
  /\ DeviceWaits => Len(devices) # 0
  /\ owner = "storing" => array # 0
  /\ owner = "moving" => /\ array < Len(blocks)
                                /\ blocks[Len(blocks)].cells = NewCells
                                /\ blocks[Len(blocks)].live
  /\ deviceFree =
       CASE owner = "freeing devices" -> {OldCells[n] : n \in 1..(step - 1)}
         [] owner \in {"freeing receiver", "freed"} -> {OldCells[n] : n \in 1..numDevices}
         [] OTHER -> {}

\* What is of the last scan: the devices in the array, the one on its way there,
\* and the array.
ScanInv ==
  /\ \A d \in DOMAIN devices : devices[d].scan <= scans
  /\ \A b \in DOMAIN blocks : blocks[b].scan <= scans
  /\ owner = "clearing" =>
       /\ \A d \in DOMAIN devices : devices[d].scan < scans
       /\ \A b \in DOMAIN blocks : blocks[b].scan < scans
  /\ owner # "clearing" =>
       /\ \A n \in 1..Filled : devices[OldCells[n]].scan = scans
       /\ \A d \in DOMAIN devices :
            devices[d].scan = scans =>
              \/ \E n \in 1..Filled : OldCells[n] = d
              \/ DeviceWaits /\ d = Len(devices)
       /\ DeviceWaits => devices[Len(devices)].scan = scans
       /\ \A b \in DOMAIN blocks :
            blocks[b].live => \/ blocks[b].scan < scans
                              \/ /\ b = array
                                 /\ owner \notin {"moving", "freeing receiver", "freed"}
                              \/ owner = "moving" /\ b = Len(blocks)

\* A worker left in peace walks an array that stays as it is.
InPeace(k) ==
  /\ OwnerRests
  /\ k.position <= numDevices
  /\ k.at \in {"loading", "comparing", "reloading", "taking"} => k.position < numDevices
  /\ k.at \in {"comparing", "taking"} => k.pointer = array
  /\ k.at \in {"reloading", "taking"} =>
       devices[OldCells[k.position + 1]].index = k.index
  /\ k.at = "pressing" => k.position = numDevices
  /\ k.device # 0 => /\ \E n \in 1..k.position : OldCells[n] = k.device
                     /\ devices[k.device].index = k.index
  /\ k.device = 0 => \A n \in 1..k.position : devices[OldCells[n]].index # k.index

WorkersInv ==
  /\ \A w \in DOMAIN workers :
       /\ workers[w].calm /\ Active(w) => InPeace(workers[w])
       /\ workers[w].at = "faulted" => ~workers[w].calm \/ ~workers[w].intact
  /\ fault = "listener" => \E w \in DOMAIN workers : ~workers[w].intact

LifeInv ==
  /\ TypeOK
  /\ HeldInv
  /\ ListenerInv
  /\ StepInv
  /\ ArrayInv
  /\ ScanInv
  /\ WorkersInv
  /\ fault # "owner"

-------------------------------------------------------------------------------
(* Types.                                                                  *)

Block == [cells : Seq(0..Len(devices)), live : BOOLEAN, scan : 1..MaxScans]

OwnerTypes ==
  /\ allocated \in BOOLEAN
  /\ numDevices \in 0..LastIndex
  /\ array \in 0..Len(blocks)
  /\ blocks \in Seq(Block)
  /\ devices \in Seq([index : Indexes, scan : 1..MaxScans])
  /\ deviceFree \subseteq DOMAIN devices
  /\ owner \in {"constructing", "null", "idle", "clearing", "detecting", "growing",
                "moving", "storing", "joining", "closing", "freeing devices",
                "freeing receiver", "freed", "failed"}
  /\ step \in 0..(LastIndex + 8)
  /\ held \subseteq Resources
  /\ scans \in 0..MaxScans
  /\ pending \subseteq {"cell", "count"}

ListenerTypes ==
  /\ listener \in {"none", "reading", "dispatching", "started", "writing", "ended"}
  /\ cancelled \in BOOLEAN
  /\ lost \in 0..1

LEMMA TypeParts ==
  TypeOK <=> /\ OwnerTypes
             /\ ListenerTypes
             /\ WorkerTypeOK /\ Len(workers) <= MaxEvents
             /\ fault \in {"none", "owner", "listener", "worker"}
<1>1. Len(Acquisitions) = 8
  BY DEF Acquisitions
<1>2. QED
  BY <1>1, Zenon DEF TypeOK, OwnerTypes, ListenerTypes, Block

LEMMA TypePartsNext ==
  TypeOK' <=> /\ OwnerTypes'
              /\ ListenerTypes'
              /\ WorkerTypeOK' /\ Len(workers') <= MaxEvents
              /\ fault' \in {"none", "owner", "listener", "worker"}
<1>1. Len(Acquisitions) = 8
  BY DEF Acquisitions
<1>2. QED
  BY <1>1, Zenon DEF TypeOK, OwnerTypes, ListenerTypes, Block

LEMMA Lengths ==
  ASSUME OwnerTypes
  PROVE  /\ Len(blocks) \in Nat /\ DOMAIN blocks = 1..Len(blocks)
         /\ Len(devices) \in Nat /\ DOMAIN devices = 1..Len(devices)
         /\ numDevices \in Nat /\ array \in Nat /\ scans \in Nat
<1>1. Len(blocks) \in Nat /\ DOMAIN blocks = 1..Len(blocks)
  BY LenProperties DEF OwnerTypes
<1>2. Len(devices) \in Nat /\ DOMAIN devices = 1..Len(devices)
  BY LenProperties DEF OwnerTypes
<1>3. /\ numDevices \in 0..LastIndex
      /\ array \in 0..Len(blocks)
      /\ scans \in 0..MaxScans
  BY Zenon DEF OwnerTypes
<1>4. LastIndex \in Nat /\ MaxScans \in Nat
  BY DispatchAssumption, LifecycleAssumption
<1>5. numDevices \in Nat /\ array \in Nat /\ scans \in Nat
  BY <1>1, <1>3, <1>4
<1>6. QED
  BY <1>1, <1>2, <1>5

LEMMA OldCellsType ==
  ASSUME OwnerTypes
  PROVE  /\ OldCells \in Seq(0..Len(devices))
         /\ Len(OldCells) \in Nat
         /\ DOMAIN OldCells = 1..Len(OldCells)
         /\ \A n \in 1..Len(OldCells) : OldCells[n] \in 0..Len(devices)
<1>1. OldCells \in Seq(0..Len(devices))
  <2>1. CASE array = 0
    BY <2>1 DEF OldCells
  <2>2. CASE array # 0
    <3>1. blocks[array] \in Block
      <4>1. array \in 0..Len(blocks) /\ blocks \in Seq(Block)
        BY Zenon DEF OwnerTypes
      <4>2. QED
        BY <2>2, <4>1, Lengths, ElementOfSeq
    <3>2. QED
      BY <2>2, <3>1 DEF OldCells, Block
  <2>3. QED
    BY <2>1, <2>2
<1>2. QED
  BY <1>1

LEMMA WorkerFields ==
  ASSUME WorkerTypeOK, NEW w \in DOMAIN workers
  PROVE  /\ workers[w] \in Worker
         /\ workers[w].position \in Nat
         /\ workers[w].index \in Nat
         /\ workers[w].device \in 0..Len(devices)
         /\ workers[w].pointer \in 0..Len(blocks)
         /\ w \in 1..Len(workers)
         /\ Len(workers) \in Nat
<1>1. workers[w] \in Worker
  BY DEF WorkerTypeOK
<1>2. QED
  BY <1>1 DEF Worker, WorkerTypeOK

\* What a step leaves of the owner's parts of the invariant if it changes nothing
\* of the owner's.
LEMMA OwnerFrame ==
  ASSUME LifeInv, UNCHANGED <<shared, ownerVars>>
  PROVE  /\ OwnerTypes' /\ HeldInv' /\ StepInv' /\ ArrayInv' /\ ScanInv'
         /\ OldCells' = OldCells /\ (OwnerRests <=> OwnerRests')
<1> USE DEF shared, receiver, memory, ownerVars
<1>1. OwnerTypes'
  BY TypeParts DEF LifeInv, OwnerTypes, Block
<1>2. HeldInv'
  BY DEF LifeInv, HeldInv
<1>3. StepInv'
  BY DEF LifeInv, StepInv
<1>4. OldCells' = OldCells /\ NewCells' = NewCells
  BY DEF OldCells, NewCells
<1>5. Filled' = Filled /\ DeviceWaits' = DeviceWaits /\ CountPending' = CountPending
  BY <1>4 DEF Filled, DeviceWaits, CountPending, CellPending
<1>6. ArrayInv'
  BY <1>4, <1>5 DEF LifeInv, ArrayInv
<1>7. ScanInv'
  BY <1>4, <1>5 DEF LifeInv, ScanInv
<1>8. OwnerRests <=> OwnerRests'
  BY DEF OwnerRests
<1>9. QED
  BY <1>1, <1>2, <1>3, <1>4, <1>6, <1>7, <1>8

-------------------------------------------------------------------------------
(* The workers.                                                            *)

LEMMA PeaceFrame ==
  ASSUME NEW k, InPeace(k), UNCHANGED <<shared, ownerVars>>
  PROVE  InPeace(k)'
  BY DEF InPeace, OwnerRests, OldCells, shared, receiver, memory, ownerVars

\* A worker that takes a step.
LEMMA BecomeStep ==
  ASSUME LifeInv, fault = "none",
         NEW w \in DOMAIN workers, NEW k \in Worker,
         workers' = [workers EXCEPT ![w] = k],
         UNCHANGED <<shared, ownerVars, listenerVars>>,
         fault' \in {"none", "worker"},
         k.calm = workers[w].calm, k.intact = workers[w].intact,
         k.at = "faulted" => ~k.calm \/ ~k.intact,
         k.calm /\ k.at \notin {"done", "faulted"} => InPeace(k)
  PROVE  LifeInv'
<1>1. UNCHANGED <<shared, ownerVars, listenerVars>>
  OBVIOUS
<1>2. /\ OwnerTypes' /\ HeldInv' /\ StepInv' /\ ArrayInv' /\ ScanInv'
      /\ OldCells' = OldCells
  BY <1>1, OwnerFrame
<1>3. /\ WorkerTypeOK /\ Len(workers) \in Nat /\ Len(workers) <= MaxEvents
      /\ DOMAIN workers = 1..Len(workers)
  BY TypeParts DEF LifeInv, WorkerTypeOK
<1>4. /\ workers' = [workers EXCEPT ![w] = k]
      /\ Len(workers') = Len(workers)
      /\ DOMAIN workers' = DOMAIN workers
  BY <1>3 DEF WorkerTypeOK
<1>5. workers' \in Seq(Worker)
  BY <1>3, <1>4, ExceptSeq DEF WorkerTypeOK
<1>6. Worker' = Worker
  BY <1>1 DEF Worker, shared, memory
<1>7. WorkerTypeOK' /\ Len(workers') <= MaxEvents
  BY <1>3, <1>4, <1>5, <1>6 DEF WorkerTypeOK
<1>8. TypeOK'
  BY <1>1, <1>2, <1>7, TypeParts, TypePartsNext DEF LifeInv, ListenerTypes, listenerVars
<1>9. ListenerInv'
  BY <1>1, <1>3, <1>4 DEF LifeInv, ListenerInv, ownerVars, listenerVars
<1>10. WorkersInv'
  <2> SUFFICES ASSUME NEW v \in DOMAIN workers
               PROVE  /\ workers'[v].calm /\ Active(v)' => InPeace(workers[v])'
                      /\ workers'[v].at = "faulted" =>
                           ~workers'[v].calm \/ ~workers'[v].intact
    BY <1>1, <1>4 DEF WorkersInv, listenerVars
  <2>1. CASE v = w
    <3>1. workers'[v] = k
      BY <1>4, <2>1
    <3>2. k.calm /\ k.at \notin {"done", "faulted"} => InPeace(k)'
      BY <1>1, PeaceFrame
    <3>3. QED
      BY <3>1, <3>2 DEF Active, InPeace
  <2>2. CASE v # w
    <3>1. workers'[v] = workers[v]
      BY <1>4, <2>2
    <3>2. InPeace(workers[v]) => InPeace(workers[v])'
      BY <1>1, <3>1 DEF InPeace, OwnerRests, OldCells, shared, receiver, memory, ownerVars
    <3>3. QED
      BY <3>1, <3>2 DEF LifeInv, WorkersInv, Active
  <2>3. QED
    BY <2>1, <2>2
<1>11. QED
  BY <1>1, <1>2, <1>8, <1>9, <1>10 DEF LifeInv

\* The array as long as its owner is not at work on it.
LEMMA AtRest ==
  ASSUME LifeInv, OwnerRests
  PROVE  /\ allocated
         /\ deviceFree = {}
         /\ Len(OldCells) = numDevices
         /\ \A n \in 1..numDevices : /\ OldCells[n] \in 1..Len(devices)
                                     /\ devices[OldCells[n]].scan = scans
         /\ numDevices # 0 => array # 0 /\ blocks[array].live /\ OldCells = blocks[array].cells
<1>1. OwnerTypes
  BY TypeParts DEF LifeInv
<1>2. allocated
  BY DEF LifeInv, HeldInv, OwnerRests
<1>3. ~CellPending /\ ~CountPending /\ Filled = Len(OldCells)
  BY DEF OwnerRests, CellPending, CountPending, Filled
<1>4. deviceFree = {} /\ Len(OldCells) = numDevices
  BY <1>3 DEF LifeInv, ArrayInv, OwnerRests
<1>5. \A n \in 1..numDevices : OldCells[n] # 0
  BY <1>3, <1>4 DEF LifeInv, ArrayInv, OwnerRests
<1>6. \A n \in 1..numDevices : OldCells[n] \in 1..Len(devices)
  BY <1>1, <1>4, <1>5, OldCellsType, Lengths
<1>7. \A n \in 1..numDevices : devices[OldCells[n]].scan = scans
  BY <1>3, <1>4 DEF LifeInv, ScanInv, OwnerRests
<1>8. numDevices # 0 => array # 0
  BY <1>4 DEF OldCells
<1>9. array # 0 => blocks[array].live /\ OldCells = blocks[array].cells
  BY DEF LifeInv, ArrayInv, OwnerRests, OldCells
<1>10. QED
  BY <1>2, <1>4, <1>6, <1>7, <1>8, <1>9

\* So a worker left in peace may go on.
LEMMA SafeInPeace ==
  ASSUME LifeInv, NEW w \in DOMAIN workers,
         workers[w].calm, workers[w].intact, Active(w)
  PROVE  Safe(w)
<1> DEFINE k == workers[w]
<1>1. InPeace(k) /\ OwnerRests
  BY DEF LifeInv, WorkersInv, InPeace
<1>2. k.position \in Nat
  BY WorkerFields, TypeParts DEF LifeInv
<1>3. ASSUME k.at \in {"comparing", "taking"}
      PROVE  CellUsable(k)
  <2>1. k.position < numDevices /\ k.pointer = array
    BY <1>1, <1>3 DEF InPeace
  <2>2. numDevices \in Nat /\ k.position + 1 \in 1..numDevices
    BY <1>2, <2>1, Lengths, TypeParts DEF LifeInv
  <2>3. array # 0 /\ blocks[array].live /\ OldCells = blocks[array].cells
    BY <1>1, <2>2, AtRest
  <2>4. Cell(k) = OldCells[k.position + 1] /\ Len(blocks[k.pointer].cells) = numDevices
    BY <1>1, <2>1, <2>3, AtRest DEF Cell
  <2>5. Cell(k) # 0 /\ deviceFree = {}
    BY <1>1, <2>2, <2>4, AtRest
  <2>6. QED
    BY <2>1, <2>3, <2>4, <2>5 DEF CellUsable
<1>4. allocated /\ deviceFree = {}
  BY <1>1, AtRest
<1>5. QED
  BY <1>3, <1>4 DEF Safe

\* The loop over the devices, by a worker in peace: what it has found of the first
\* position cells is what is there.
LEMMA WorkStep ==
  ASSUME LifeInv, fault = "none", NEW w \in DOMAIN workers,
         Work(w), UNCHANGED <<ownerVars, listenerVars>>
  PROVE  LifeInv'
<1> DEFINE k == workers[w]
<1>0. OwnerTypes /\ WorkerTypeOK
  BY TypeParts DEF LifeInv
<1>1. /\ k \in Worker /\ k.position \in Nat /\ k.position + 1 \in Nat
      /\ numDevices \in Nat
      /\ k.device \in 0..Len(devices)
      /\ array \in 0..Len(blocks) /\ 0 \in 0..Len(blocks)
      /\ OwnerTypes
  <2>1. array \in 0..Len(blocks)
    BY <1>0, Zenon DEF OwnerTypes
  <2>2. Len(blocks) \in Nat /\ numDevices \in Nat
    BY <1>0, Lengths
  <2>3. k \in Worker /\ k.position \in Nat /\ k.device \in 0..Len(devices)
    BY <1>0, WorkerFields
  <2>4. QED
    BY <1>0, <2>1, <2>2, <2>3
<1>2. k.calm /\ Active(w) => InPeace(k)
  BY DEF LifeInv, WorkersInv
<1> USE DEF Become
<1>3. CASE Check(w)
  <2> DEFINE l == [k EXCEPT !.at = IF k.position < numDevices THEN "loading" ELSE "pressing"]
  <2>1. k.at = "checking" /\ Become(w, l)
    BY <1>3 DEF Check, CheckBound
  <2>2. l \in Worker /\ l.calm = k.calm /\ l.intact = k.intact /\ l.at # "faulted"
    BY <1>1 DEF Worker, Searching
  <2>3. l.calm => InPeace(l)
    BY <1>1, <1>2, <2>1 DEF InPeace, Active, Worker
  <2>4. QED
    BY <2>1, <2>2, <2>3, BecomeStep
<1>4. CASE Load(w)
  <2> DEFINE l == [k EXCEPT !.pointer = array,
                            !.at = IF k.at = "loading" THEN "comparing" ELSE "taking"]
  <2>1. k.at \in {"loading", "reloading"} /\ Become(w, l)
    BY <1>4 DEF Load
  <2>2. l \in Worker /\ l.calm = k.calm /\ l.intact = k.intact /\ l.at # "faulted"
    BY <1>1 DEF Worker, Searching
  <2>3. l.calm => InPeace(l)
    BY <1>1, <1>2, <2>1 DEF InPeace, Active, Worker
  <2>4. QED
    BY <2>1, <2>2, <2>3, BecomeStep
<1>5. ASSUME k.calm, k.at \in {"comparing", "taking"}
      PROVE  /\ InPeace(k) /\ Cell(k) = OldCells[k.position + 1]
             /\ k.position + 1 \in 1..numDevices
             /\ Cell(k) \in 1..Len(devices)
  <2>1. InPeace(k) /\ OwnerRests /\ k.position < numDevices /\ k.pointer = array
    BY <1>2, <1>5 DEF InPeace, Active
  <2>2. k.position + 1 \in 1..numDevices
    BY <1>1, <2>1
  <2>3. OldCells = blocks[array].cells
    BY <2>1, <2>2, AtRest
  <2>4. QED
    BY <2>1, <2>2, <2>3, AtRest DEF Cell
<1>6. CASE Compare(w) /\ devices[Cell(k)].index = k.index
  <2> DEFINE l == [k EXCEPT !.pointer = 0, !.at = "reloading"]
  <2>1. k.at = "comparing" /\ Become(w, l)
    BY <1>6 DEF Compare
  <2>2. l \in Worker /\ l.calm = k.calm /\ l.intact = k.intact /\ l.at # "faulted"
    BY <1>1 DEF Worker, Searching
  <2>3. l.calm => InPeace(l)
    BY <1>1, <1>5, <1>6, <2>1 DEF InPeace, Worker
  <2>4. QED
    BY <2>1, <2>2, <2>3, BecomeStep
<1>7. CASE Compare(w) /\ devices[Cell(k)].index # k.index
  <2> DEFINE l == [k EXCEPT !.position = @ + 1, !.pointer = 0, !.at = "checking"]
  <2>1. k.at = "comparing" /\ Become(w, l)
    BY <1>7 DEF Compare, Advance
  <2>2. l \in Worker /\ l.calm = k.calm /\ l.intact = k.intact /\ l.at # "faulted"
    BY <1>1 DEF Worker, Searching
  <2>3. l.calm => InPeace(l)
    <3> SUFFICES ASSUME k.calm PROVE InPeace(l)
      BY <2>2
    <3>1. /\ l.position = k.position + 1 /\ l.at = "checking"
          /\ l.device = k.device /\ l.index = k.index
      BY <1>1 DEF Worker
    <3>2. \A n \in 1..(k.position + 1) : n \in 1..k.position \/ n = k.position + 1
      BY <1>1
    <3>3. QED
      BY <1>1, <1>5, <1>7, <2>1, <3>1, <3>2 DEF InPeace
  <2>4. QED
    BY <2>1, <2>2, <2>3, BecomeStep
<1>8. CASE Take(w)
  <2> DEFINE l == [k EXCEPT !.device = Cell(k), !.position = @ + 1, !.pointer = 0,
                            !.at = "checking"]
  <2>1. k.at = "taking" /\ Become(w, l) /\ CellUsable(k)
    BY <1>1, <1>8 DEF Take, Advance, Safe, Worker
  <2>2. Cell(k) \in 0..Len(devices)
    <3>1. k.pointer \in 1..Len(blocks) /\ k.position < Len(blocks[k.pointer].cells)
      BY <2>1, WorkerFields, TypeParts, Lengths DEF LifeInv, CellUsable
    <3>2. blocks[k.pointer] \in Block
      BY <1>1, <3>1, ElementOfSeq DEF OwnerTypes
    <3>3. blocks[k.pointer].cells \in Seq(0..Len(devices))
      BY <3>2 DEF Block
    <3>4. QED
      <4> DEFINE s == blocks[k.pointer].cells
      <4>1. Len(s) \in Nat /\ s \in Seq(0..Len(devices))
        BY <3>3, LenProperties
      <4>2. k.position + 1 \in 1..Len(s)
        BY <1>1, <3>1, <4>1
      <4>3. s[k.position + 1] \in 0..Len(devices)
        BY <4>1, <4>2, ElementOfSeq
      <4>4. QED
        BY <4>3 DEF Cell
  <2>3. l \in Worker /\ l.calm = k.calm /\ l.intact = k.intact /\ l.at # "faulted"
    BY <1>1, <2>2 DEF Worker, Searching
  <2>4. l.calm => InPeace(l)
    <3> SUFFICES ASSUME k.calm PROVE InPeace(l)
      BY <2>3
    <3>1. /\ l.position = k.position + 1 /\ l.at = "checking"
          /\ l.device = Cell(k) /\ l.index = k.index
      BY <1>1 DEF Worker
    <3>2. /\ InPeace(k) /\ Cell(k) = OldCells[k.position + 1]
          /\ k.position + 1 \in 1..numDevices
          /\ Cell(k) # 0
      BY <1>5, <2>1, Lengths
    <3>3. devices[Cell(k)].index = k.index
      BY <2>1, <3>2 DEF InPeace
    <3>4. k.position + 1 \in 1..l.position
      BY <1>1, <3>1
    <3>5. QED
      BY <1>1, <3>1, <3>2, <3>3, <3>4 DEF InPeace
  <2>5. QED
    BY <2>1, <2>3, <2>4, BecomeStep
<1>9. CASE Finish(w)
  <2> DEFINE l == [k EXCEPT !.at = "done", !.report = Pressed(k)]
  <2>1. k.at = "pressing" /\ Become(w, l)
    BY <1>9 DEF Finish
  <2>2. Pressed(k) \subseteq Cids \cup {"ignored"}
    BY <1>1 DEF Pressed, Worker
  <2>3. l \in Worker /\ l.calm = k.calm /\ l.intact = k.intact /\ l.at = "done"
    BY <1>1, <2>2 DEF Worker, Searching
  <2>4. QED
    BY <2>1, <2>3, BecomeStep
<1>10. CASE WorkerFaults(w)
  <2> DEFINE l == [k EXCEPT !.at = "faulted"]
  <2>1. l \in Worker /\ l.calm = k.calm /\ l.intact = k.intact /\ l.at = "faulted"
    BY <1>1 DEF Worker
  <2>2. ~k.calm \/ ~k.intact
    BY <1>10, SafeInPeace DEF WorkerFaults
  <2>3. /\ workers' = [workers EXCEPT ![w] = l]
        /\ fault' = "worker"
        /\ UNCHANGED shared
    BY <1>10 DEF WorkerFaults
  <2>4. QED
    BY <2>1, <2>2, <2>3, BecomeStep
<1>11. QED
  BY <1>3, <1>4, <1>6, <1>7, <1>8, <1>9, <1>10 DEF Work, Compare

-------------------------------------------------------------------------------
(* The listener.                                                           *)

LEMMA ListenerFrame ==
  ASSUME LifeInv, UNCHANGED <<shared, ownerVars, workers, fault>>,
         ListenerTypes', ListenerInv'
  PROVE  LifeInv'
<1>1. /\ OwnerTypes' /\ HeldInv' /\ StepInv' /\ ArrayInv' /\ ScanInv'
  BY OwnerFrame
<1>2. WorkerTypeOK' /\ Len(workers') <= MaxEvents
  BY TypeParts DEF LifeInv, WorkerTypeOK, Worker, shared, memory
<1>3. TypeOK'
  BY <1>1, <1>2, TypeParts, TypePartsNext DEF LifeInv
<1>4. WorkersInv'
  BY DEF LifeInv, WorkersInv, Active, InPeace, OwnerRests, OldCells, shared, receiver, memory,
         ownerVars
<1>5. QED
  BY <1>1, <1>3, <1>4 DEF LifeInv

\* The listener reads, redirects, gives up or is cancelled: its place is all that
\* changes, but for an event that nobody will free.
LEMMA ListenerMoves ==
  ASSUME LifeInv, fault = "none",
         ReadEvent \/ ReadControl \/ ControlWritten \/ ReadFails \/ Cancelled
           \/ AttributesFail \/ StartFails \/ AttributesDestroyed
  PROVE  LifeInv'
<1> USE DEF ListenerStep
<1>1. ListenerInv /\ ListenerTypes
  BY TypeParts DEF LifeInv
<1>2. CASE ReadEvent \/ ReadControl \/ ControlWritten \/ ReadFails \/ AttributesFail
             \/ AttributesDestroyed
  <2> USE DEF ReadEvent, ReadControl, ControlWritten, ReadFails, AttributesFail,
              AttributesDestroyed, ownerVars
  <2>1. ListenerTypes'
    BY <1>1, <1>2 DEF ListenerTypes
  <2>2. ListenerInv'
    BY <1>1, <1>2 DEF ListenerInv
  <2>3. QED
    BY <1>2, <2>1, <2>2, ListenerFrame
<1>3. CASE Cancelled
  <2> USE DEF Cancelled, CancelledIn, ownerVars
  <2>1. ListenerTypes'
    BY <1>1, <1>3 DEF ListenerTypes
  <2>2. ListenerInv'
    BY <1>1, <1>3 DEF ListenerInv
  <2>3. QED
    BY <1>3, <2>1, <2>2, ListenerFrame
<1>4. CASE StartFails
  <2> USE DEF StartFails, ownerVars
  <2>1. lost = 0
    BY <1>1, <1>4 DEF ListenerTypes, ListenerInv
  <2>2. ListenerTypes'
    BY <1>1, <1>4, <2>1 DEF ListenerTypes
  <2>3. ListenerInv'
    BY <1>1, <1>4, <2>1 DEF ListenerInv
  <2>4. QED
    BY <1>4, <2>2, <2>3, ListenerFrame
<1>5. QED
  BY <1>2, <1>3, <1>4

\* A worker is started, in peace if the owner rests.
LEMMA StartWorkerStep ==
  ASSUME LifeInv, fault = "none",
         NEW i \in 0..LastIndex, NEW p \in Presses, StartWorker(i, p)
  PROVE  LifeInv'
<1>0. PICK k : k = NewWorker(i, p, OwnerRests)
  OBVIOUS
<1>1. /\ listener = "dispatching" /\ listener' = "started"
      /\ UNCHANGED <<shared, ownerVars, cancelled, lost, fault>>
      /\ workers' = Append(workers, k)
  BY <1>0 DEF StartWorker, ListenerStep
<1>2. /\ OwnerTypes' /\ HeldInv' /\ StepInv' /\ ArrayInv' /\ ScanInv' /\ OldCells' = OldCells
  BY <1>1, OwnerFrame
<1>3. /\ OwnerTypes /\ ListenerTypes /\ WorkerTypeOK /\ ListenerInv
      /\ workers \in Seq(Worker) /\ Len(workers) \in Nat
  BY TypeParts DEF LifeInv, WorkerTypeOK
<1>4. k \in Worker
  <2>1. i \in Nat /\ p \subseteq Cids /\ OwnerRests \in BOOLEAN
    BY DispatchAssumption, LifecycleAssumption DEF OwnerRests
  <2>2. 0 \in 0..Len(blocks) /\ 0 \in 0..Len(devices)
    BY <1>3, Lengths
  <2>3. QED
    BY <1>0, <2>1, <2>2 DEF NewWorker, Worker, Searching
<1>5. /\ workers' \in Seq(Worker) /\ Len(workers') = Len(workers) + 1
      /\ DOMAIN workers' = 1..(Len(workers) + 1)
      /\ workers'[Len(workers) + 1] = k
      /\ \A v \in 1..Len(workers) : workers'[v] = workers[v]
  BY <1>1, <1>3, <1>4
<1>6. Worker' = Worker
  BY <1>1 DEF Worker, shared, memory
<1>7. Len(workers') <= MaxEvents
  BY <1>1, <1>3, <1>5, LifecycleAssumption DEF ListenerInv
<1>8. TypeOK'
  BY <1>1, <1>2, <1>3, <1>5, <1>6, <1>7, TypePartsNext DEF ListenerTypes, WorkerTypeOK
<1>9. ListenerInv'
  BY <1>1, <1>3, <1>5 DEF ListenerInv, ownerVars
<1>10. k.calm => InPeace(k)
  BY <1>0, <1>3, Lengths DEF NewWorker, InPeace
<1>11. WorkersInv'
  <2> SUFFICES ASSUME NEW v \in 1..(Len(workers) + 1)
               PROVE  /\ workers'[v].calm /\ Active(v)' => InPeace(workers[v])'
                      /\ workers'[v].at = "faulted" =>
                           ~workers'[v].calm \/ ~workers'[v].intact
    BY <1>1, <1>5 DEF WorkersInv
  <2>1. CASE v = Len(workers) + 1
    <3>1. workers'[v] = k
      BY <1>5, <2>1
    <3>2. k.calm => InPeace(k)'
      BY <1>1, <1>10, PeaceFrame
    <3>3. k.at = "checking"
      BY <1>0 DEF NewWorker
    <3>4. QED
      BY <3>1, <3>2, <3>3 DEF InPeace
  <2>2. CASE v \in 1..Len(workers)
    <3>1. workers'[v] = workers[v] /\ v \in DOMAIN workers
      BY <1>3, <1>5, <2>2
    <3>2. InPeace(workers[v]) => InPeace(workers[v])'
      BY <1>1, <3>1 DEF InPeace, OwnerRests, OldCells, shared, receiver, memory, ownerVars
    <3>3. QED
      BY <3>1, <3>2 DEF LifeInv, WorkersInv, Active
  <2>3. QED
    BY <1>3, <2>1, <2>2
<1>12. QED
  BY <1>1, <1>2, <1>8, <1>9, <1>11 DEF LifeInv

\* The event is freed behind the back of its worker.
LEMMA DestroyFailsStep ==
  ASSUME LifeInv, fault = "none", DestroyFails
  PROVE  LifeInv'
<1>1. /\ listener = "started" /\ listener' = "ended"
      /\ UNCHANGED <<shared, ownerVars, cancelled, lost>>
  BY DEF DestroyFails, ListenerStep
<1>2. ListenerTypes /\ ListenerInv
  BY TypeParts DEF LifeInv
<1>3. ListenerTypes' /\ (workers' = workers => ListenerInv')
  BY <1>1, <1>2 DEF ListenerTypes, ListenerInv, ownerVars
<1>4. CASE UNCHANGED <<workers, fault>>
  BY <1>1, <1>3, <1>4, ListenerFrame
<1>5. CASE ~UNCHANGED <<workers, fault>>
  <2> DEFINE n == Len(workers)
             k == [workers[n] EXCEPT !.intact = FALSE]
  <2>1. /\ fault' \in {"none", "listener"}
        /\ workers' = [workers EXCEPT ![n] = k]
    BY <1>5 DEF DestroyFails
  <2>2. /\ WorkerTypeOK /\ workers \in Seq(Worker) /\ Len(workers) \in Nat
        /\ workers # <<>> /\ DOMAIN workers = 1..n /\ Len(workers) <= MaxEvents
    BY <1>1, <1>2, TypeParts DEF LifeInv, WorkerTypeOK, ListenerInv
  <2>3. n \in 1..Len(workers)
    BY <2>2
  <2>4. workers[n] \in Worker
    BY <2>2, <2>3, ElementOfSeq
  <2>5. /\ k \in Worker /\ k.calm = workers[n].calm /\ k.at = workers[n].at
        /\ k.position = workers[n].position /\ k.pointer = workers[n].pointer
        /\ k.device = workers[n].device /\ k.index = workers[n].index
        /\ k.intact = FALSE
    BY <2>4 DEF Worker
  <2> HIDE DEF k
  <2>6. /\ workers' \in Seq(Worker) /\ Len(workers') = n /\ DOMAIN workers' = 1..n
        /\ workers'[n] = k
        /\ \A v \in 1..n : v # n => workers'[v] = workers[v]
    <3>1. k \in Worker /\ n \in 1..n
      BY <2>3, <2>5
    <3>2. /\ [workers EXCEPT ![n] = k] \in Seq(Worker)
          /\ Len([workers EXCEPT ![n] = k]) = n
      BY <2>2, <3>1, ExceptSeq
    <3>3. /\ DOMAIN workers' = DOMAIN workers /\ workers'[n] = k
          /\ \A v \in DOMAIN workers : v # n => workers'[v] = workers[v]
      BY <2>1, <2>2, <3>1
    <3>4. QED
      BY <2>1, <2>2, <3>2, <3>3
  <2>7. Worker' = Worker
    BY <1>1 DEF Worker, shared, memory
  <2>8. /\ OwnerTypes' /\ HeldInv' /\ StepInv' /\ ArrayInv' /\ ScanInv'
    BY <1>1, OwnerFrame
  <2>9. TypeOK'
    BY <1>3, <2>1, <2>2, <2>6, <2>7, <2>8, TypePartsNext DEF WorkerTypeOK
  <2>10. ListenerInv'
    BY <1>1, <1>2, <2>2, <2>6 DEF ListenerInv, ownerVars
  <2>11. WorkersInv'
    <3>1. ASSUME NEW v \in 1..n
          PROVE  /\ workers'[v].calm /\ Active(v)' => InPeace(workers[v])'
                 /\ workers'[v].at = "faulted" =>
                      ~workers'[v].calm \/ ~workers'[v].intact
      <4>1. /\ workers'[v].calm = workers[v].calm /\ workers'[v].at = workers[v].at
            /\ workers'[v].position = workers[v].position
            /\ workers'[v].pointer = workers[v].pointer
            /\ workers'[v].device = workers[v].device /\ workers'[v].index = workers[v].index
            /\ workers'[v].intact => workers[v].intact
        BY <2>5, <2>6
      <4>2. InPeace(workers[v]) => InPeace(workers[v])'
        BY <1>1, <4>1
        DEF InPeace, OwnerRests, OldCells, shared, receiver, memory, ownerVars
      <4>3. v \in DOMAIN workers
        BY <2>2
      <4>4. QED
        BY <4>1, <4>2, <4>3 DEF LifeInv, WorkersInv, Active
    <3>2. ~workers'[n].intact /\ n \in DOMAIN workers'
      BY <2>3, <2>5, <2>6
    <3>3. QED
      BY <2>6, <3>1, <3>2 DEF WorkersInv
  <2>12. QED
    BY <2>1, <2>8, <2>9, <2>10, <2>11 DEF LifeInv
<1>6. QED
  BY <1>4, <1>5

-------------------------------------------------------------------------------
(* The owner.                                                              *)

\* The owner's and the listener's part of the invariant.
RestInv ==
  /\ OwnerTypes
  /\ ListenerTypes
  /\ HeldInv
  /\ ListenerInv
  /\ StepInv
  /\ ArrayInv
  /\ ScanInv

LEMMA RestOfLife == LifeInv => RestInv
  BY TypeParts DEF LifeInv, RestInv

\* Memory is only added, so what workers point to stays a place in it.
LEMMA WorkerGrows ==
  ASSUME RestInv, RestInv', Len(blocks) <= Len(blocks'), Len(devices) <= Len(devices')
  PROVE  Worker \subseteq Worker'
<1>1. /\ Len(blocks) \in Nat /\ Len(blocks') \in Nat
      /\ Len(devices) \in Nat /\ Len(devices') \in Nat
  <2>1. OwnerTypes /\ OwnerTypes'
    BY DEF RestInv
  <2>2. blocks \in Seq(Block) /\ blocks' \in Seq(Block')
    BY <2>1, Zenon DEF OwnerTypes
  <2>3. /\ devices \in Seq([index : Indexes, scan : 1..MaxScans])
        /\ devices' \in Seq([index : Indexes, scan : 1..MaxScans])
    BY <2>1, Zenon DEF OwnerTypes
  <2>4. QED
    BY <2>2, <2>3, LenProperties
<1>2. 0..Len(blocks) \subseteq 0..Len(blocks') /\ 0..Len(devices) \subseteq 0..Len(devices')
  BY <1>1
<1>3. QED
  BY <1>2 DEF Worker

\* No worker is left in peace by an owner at work.
LEMMA OwnerAtWork ==
  ASSUME LifeInv, RestInv', UNCHANGED <<workers, fault>>,
         Len(blocks) <= Len(blocks'), Len(devices) <= Len(devices'),
         ~OwnerRests
  PROVE  LifeInv'
<1>1. WorkerTypeOK /\ Len(workers) <= MaxEvents
  BY TypeParts DEF LifeInv
<1>2. Worker \subseteq Worker'
  BY RestOfLife, WorkerGrows
<1>3. WorkerTypeOK'
  BY <1>1, <1>2, SeqMonotonic DEF WorkerTypeOK
<1>4. TypeOK'
  BY <1>1, <1>3, TypeParts, TypePartsNext DEF LifeInv, RestInv
<1>5. \A w \in DOMAIN workers : ~(workers[w].calm /\ Active(w))
  BY DEF LifeInv, WorkersInv, InPeace
<1>6. WorkersInv'
  BY <1>5 DEF LifeInv, WorkersInv, Active
<1>7. QED
  BY <1>4, <1>6 DEF LifeInv, RestInv

\* Nor by one that begins to work.
LEMMA OwnerBegins ==
  ASSUME LifeInv, RestInv', workers' = Disturb, UNCHANGED <<memory, fault>>, fault = "none"
  PROVE  LifeInv'
<1>1. WorkerTypeOK /\ Len(workers) <= MaxEvents /\ workers \in Seq(Worker)
      /\ Len(workers) \in Nat /\ DOMAIN workers = 1..Len(workers)
  BY TypeParts DEF LifeInv, WorkerTypeOK
<1>2. \A w \in 1..Len(workers) :
        /\ workers'[w] \in Worker
        /\ workers'[w].at = workers[w].at /\ workers'[w].intact = workers[w].intact
        /\ workers'[w].calm <=> workers[w].calm /\ ~Active(w)
  <2> SUFFICES ASSUME NEW w \in 1..Len(workers)
               PROVE  /\ workers'[w] \in Worker
                      /\ workers'[w].at = workers[w].at
                      /\ workers'[w].intact = workers[w].intact
                      /\ workers'[w].calm <=> workers[w].calm /\ ~Active(w)
    OBVIOUS
  <2>1. workers[w] \in Worker
    BY <1>1, ElementOfSeq
  <2>2. workers'[w] = [workers[w] EXCEPT !.calm = workers[w].calm /\ ~Active(w)]
    BY <1>1, <2>1 DEF Disturb, Worker
  <2>3. (workers[w].calm /\ ~Active(w)) \in BOOLEAN
    OBVIOUS
  <2>4. QED
    BY <2>1, <2>2, <2>3 DEF Worker
<1>3. workers' \in Seq(Worker) /\ Len(workers') = Len(workers)
      /\ DOMAIN workers' = DOMAIN workers
  <2>1. workers' = [w \in 1..Len(workers) |-> workers'[w]]
    BY <1>1 DEF Disturb
  <2>2. workers' \in [1..Len(workers) -> Worker]
    BY <1>2, <2>1
  <2>3. QED
    BY <1>1, <2>1, <2>2
<1>4. Worker' = Worker
  BY DEF Worker, memory
<1>5. TypeOK'
  BY <1>1, <1>3, <1>4, TypeParts, TypePartsNext DEF LifeInv, RestInv, WorkerTypeOK
<1>6. WorkersInv'
  BY <1>1, <1>2, <1>3 DEF LifeInv, WorkersInv, Active
<1>7. QED
  BY <1>5, <1>6 DEF LifeInv, RestInv

\* What each call of slavery_receiver_from_devnode gets, and gives back on failure.
LEMMA TableFacts ==
  ASSUME NEW n \in 1..8
  PROVE  /\ Acquisitions[n].undo \subseteq Acquired[n]
         /\ Acquired[n] \ Acquisitions[n].undo \subseteq {"devnode"}
         /\ Acquired[n] \cup Acquisitions[n].gets
              = IF n < 8 THEN Acquired[n + 1] ELSE Resources
         /\ Acquired[n] \subseteq Resources
         /\ Len(Acquisitions) = 8
<1>0. Len(Acquisitions) = 8
  BY DEF Acquisitions
<1>1. CASE n = 1
  <2>1. Acquisitions[1].gets = {"fd"}
    BY DEF Acquisitions
  <2>2. Acquisitions[1].undo = {"struct"}
    BY DEF Acquisitions
  <2>3. Acquired[1] = {"struct"}
    BY DEF Acquired
  <2>4. Acquired[2] = {"struct", "fd"}
    BY DEF Acquired
  <2>5. Acquisitions[1].undo \subseteq Acquired[1]
    BY <2>2, <2>3
  <2>6. Acquired[1] \ Acquisitions[1].undo \subseteq {"devnode"}
    BY <2>2, <2>3
  <2>7. Acquired[1] \cup Acquisitions[1].gets = Acquired[2]
    BY <2>1, <2>3, <2>4
  <2>8. Acquired[1] \subseteq Resources
    BY <2>3 DEF Resources
  <2>9. QED
    BY <1>0, <1>1, <2>5, <2>6, <2>7, <2>8
<1>2. CASE n = 2
  <2>1. Acquisitions[2].gets = {}
    BY DEF Acquisitions
  <2>2. Acquisitions[2].undo = {"fd", "struct"}
    BY DEF Acquisitions
  <2>3. Acquired[2] = {"struct", "fd"}
    BY DEF Acquired
  <2>4. Acquired[3] = {"struct", "fd"}
    BY DEF Acquired
  <2>5. Acquisitions[2].undo \subseteq Acquired[2]
    BY <2>2, <2>3
  <2>6. Acquired[2] \ Acquisitions[2].undo \subseteq {"devnode"}
    BY <2>2, <2>3
  <2>7. Acquired[2] \cup Acquisitions[2].gets = Acquired[3]
    BY <2>1, <2>3, <2>4
  <2>8. Acquired[2] \subseteq Resources
    BY <2>3 DEF Resources
  <2>9. QED
    BY <1>0, <1>2, <2>5, <2>6, <2>7, <2>8
<1>3. CASE n = 3
  <2>1. Acquisitions[3].gets = {"devnode", "name"}
    BY DEF Acquisitions
  <2>2. Acquisitions[3].undo = {"fd", "struct"}
    BY DEF Acquisitions
  <2>3. Acquired[3] = {"struct", "fd"}
    BY DEF Acquired
  <2>4. Acquired[4] = {"struct", "fd", "devnode", "name"}
    BY DEF Acquired
  <2>5. Acquisitions[3].undo \subseteq Acquired[3]
    BY <2>2, <2>3
  <2>6. Acquired[3] \ Acquisitions[3].undo \subseteq {"devnode"}
    BY <2>2, <2>3
  <2>7. Acquired[3] \cup Acquisitions[3].gets = Acquired[4]
    BY <2>1, <2>3, <2>4
  <2>8. Acquired[3] \subseteq Resources
    BY <2>3 DEF Resources
  <2>9. QED
    BY <1>0, <1>3, <2>5, <2>6, <2>7, <2>8
<1>4. CASE n = 4
  <2>1. Acquisitions[4].gets = {"address"}
    BY DEF Acquisitions
  <2>2. Acquisitions[4].undo = {"fd", "name", "struct"}
    BY DEF Acquisitions
  <2>3. Acquired[4] = {"struct", "fd", "devnode", "name"}
    BY DEF Acquired
  <2>4. Acquired[5] = {"struct", "fd", "devnode", "name", "address"}
    BY DEF Acquired
  <2>5. Acquisitions[4].undo \subseteq Acquired[4]
    BY <2>2, <2>3
  <2>6. Acquired[4] \ Acquisitions[4].undo \subseteq {"devnode"}
    BY <2>2, <2>3
  <2>7. Acquired[4] \cup Acquisitions[4].gets = Acquired[5]
    BY <2>1, <2>3, <2>4
  <2>8. Acquired[4] \subseteq Resources
    BY <2>3 DEF Resources
  <2>9. QED
    BY <1>0, <1>4, <2>5, <2>6, <2>7, <2>8
<1>5. CASE n = 5
  <2>1. Acquisitions[5].gets = {}
    BY DEF Acquisitions
  <2>2. Acquisitions[5].undo = {"fd", "name", "address", "struct"}
    BY DEF Acquisitions
  <2>3. Acquired[5] = {"struct", "fd", "devnode", "name", "address"}
    BY DEF Acquired
  <2>4. Acquired[6] = {"struct", "fd", "devnode", "name", "address"}
    BY DEF Acquired
  <2>5. Acquisitions[5].undo \subseteq Acquired[5]
    BY <2>2, <2>3
  <2>6. Acquired[5] \ Acquisitions[5].undo \subseteq {"devnode"}
    BY <2>2, <2>3
  <2>7. Acquired[5] \cup Acquisitions[5].gets = Acquired[6]
    BY <2>1, <2>3, <2>4
  <2>8. Acquired[5] \subseteq Resources
    BY <2>3 DEF Resources
  <2>9. QED
    BY <1>0, <1>5, <2>5, <2>6, <2>7, <2>8
<1>6. CASE n = 6
  <2>1. Acquisitions[6].gets = {"read end", "write end"}
    BY DEF Acquisitions
  <2>2. Acquisitions[6].undo = {"fd", "name", "address", "struct"}
    BY DEF Acquisitions
  <2>3. Acquired[6] = {"struct", "fd", "devnode", "name", "address"}
    BY DEF Acquired
  <2>4. Acquired[7] = Resources
    BY DEF Acquired
  <2>5. Acquisitions[6].undo \subseteq Acquired[6]
    BY <2>2, <2>3 DEF Resources
  <2>6. Acquired[6] \ Acquisitions[6].undo \subseteq {"devnode"}
    BY <2>2, <2>3 DEF Resources
  <2>7. Acquired[6] \cup Acquisitions[6].gets = Acquired[7]
    BY <2>1, <2>3, <2>4 DEF Resources
  <2>8. Acquired[6] \subseteq Resources
    BY <2>3 DEF Resources
  <2>9. QED
    BY <1>0, <1>6, <2>5, <2>6, <2>7, <2>8
<1>7. CASE n = 7
  <2>1. Acquisitions[7].gets = {}
    BY DEF Acquisitions
  <2>2. Acquisitions[7].undo = {"read end", "write end", "fd", "name", "address", "struct"}
    BY DEF Acquisitions
  <2>3. Acquired[7] = Resources
    BY DEF Acquired
  <2>4. Acquired[8] = Resources
    BY DEF Acquired
  <2>5. Acquisitions[7].undo \subseteq Acquired[7]
    BY <2>2, <2>3 DEF Resources
  <2>6. Acquired[7] \ Acquisitions[7].undo \subseteq {"devnode"}
    BY <2>2, <2>3 DEF Resources
  <2>7. Acquired[7] \cup Acquisitions[7].gets = Acquired[8]
    BY <2>1, <2>3, <2>4 DEF Resources
  <2>8. Acquired[7] \subseteq Resources
    BY <2>3 DEF Resources
  <2>9. QED
    BY <1>0, <1>7, <2>5, <2>6, <2>7, <2>8
<1>8. CASE n = 8
  <2>1. Acquisitions[8].gets = {}
    BY DEF Acquisitions
  <2>2. Acquisitions[8].undo = {"read end", "write end", "fd", "name", "address", "struct"}
    BY DEF Acquisitions
  <2>3. Acquired[8] = Resources
    BY DEF Acquired
  <2>4. Acquisitions[8].undo \subseteq Acquired[8]
    BY <2>2, <2>3 DEF Resources
  <2>5. Acquired[8] \ Acquisitions[8].undo \subseteq {"devnode"}
    BY <2>2, <2>3 DEF Resources
  <2>6. Acquired[8] \cup Acquisitions[8].gets = Resources
    BY <2>1, <2>3 DEF Resources
  <2>7. Acquired[8] \subseteq Resources
    BY <2>3 DEF Resources
  <2>8. QED
    BY <1>0, <1>8, <2>4, <2>5, <2>6, <2>7
<1>9. QED
  BY <1>1, <1>2, <1>3, <1>4, <1>5, <1>6, <1>7, <1>8

\* What a step leaves of ArrayInv and ScanInv that neither touches the array nor
\* comes from or goes to a place where they say more.
Plain == {"constructing", "null", "idle", "detecting", "joining", "closing", "failed"}

LEMMA ArrayFrame ==
  ASSUME ArrayInv, ScanInv, UNCHANGED <<numDevices, array, memory, scans, pending>>,
         owner \in Plain, owner' \in Plain
  PROVE  ArrayInv' /\ ScanInv'
<1> USE DEF memory, Plain
<1>1. OldCells' = OldCells
  BY DEF OldCells
<1>2. /\ ~CellPending /\ ~CountPending /\ ~DeviceWaits
      /\ ~CellPending' /\ ~CountPending' /\ ~DeviceWaits'
  BY DEF CellPending, CountPending, DeviceWaits
<1>3. Filled = Len(OldCells) /\ Filled' = Len(OldCells)
  BY <1>1, <1>2 DEF Filled
<1>4. ArrayInv'
  BY <1>1, <1>2, <1>3 DEF ArrayInv
<1>5. ScanInv'
  BY <1>1, <1>2, <1>3 DEF ScanInv
<1>6. QED
  BY <1>4, <1>5

LEMMA ConstructStep ==
  ASSUME LifeInv, fault = "none", Construct
  PROVE  LifeInv'
<1>1. RestInv /\ WorkerTypeOK /\ LastIndex \in Nat
  BY RestOfLife, TypeParts, DispatchAssumption DEF LifeInv
<1>2. owner = "constructing" /\ step \in 1..8 /\ held = Acquired[step]
      /\ listener = "none" /\ workers = <<>>
  BY <1>1 DEF Construct, Acquire, AcquireFails, ReturnNull, RestInv, HeldInv, ListenerInv
<1>3. /\ UNCHANGED <<numDevices, array, memory, scans, pending, workers, cancelled, lost>>
      /\ owner' \in Plain
  BY <1>2 DEF Construct, Acquire, AcquireFails, ReturnNull, Plain, listenerVars, shared,
              receiver
<1>4. ArrayInv' /\ ScanInv'
  BY <1>1, <1>2, <1>3, ArrayFrame DEF RestInv, Plain
<1>5. CASE Acquire
  <2>1. CASE step < 8
    <3>1. /\ step' = step + 1 /\ held' = Acquired[step'] /\ step' \in 1..8
          /\ UNCHANGED <<owner, listener, allocated, fault>>
      BY <1>2, <1>5, <2>1, TableFacts DEF Acquire, shared, receiver
    <3>2. OwnerTypes'
      BY <1>1, <1>2, <1>3, <3>1, TableFacts
      DEF RestInv, OwnerTypes, memory, Block
    <3>3. ListenerTypes' /\ HeldInv' /\ ListenerInv' /\ StepInv'
      BY <1>1, <1>2, <1>3, <3>1
      DEF RestInv, ListenerTypes, HeldInv, ListenerInv, StepInv, Scanning, Freeing
    <3>4. RestInv'
      BY <1>4, <3>2, <3>3 DEF RestInv
    <3>5. QED
      BY <1>1, <1>2, <1>3, <3>1, <3>4, OwnerAtWork, Lengths DEF memory, OwnerRests, RestInv
  <2>2. CASE step = 8
    <3>0. held \cup Acquisitions[step].gets = Resources /\ Len(Acquisitions) = 8
      BY <1>2, <2>2, TableFacts
    <3>1. /\ step' = 0 /\ held' = Resources
          /\ owner' = "idle" /\ listener' = "reading"
          /\ UNCHANGED <<allocated, fault>>
      BY <1>5, <2>2, <3>0 DEF Acquire, shared, receiver
    <3>2. OwnerTypes'
      BY <1>1, <1>2, <1>3, <3>1 DEF RestInv, OwnerTypes, memory, Block
    <3>3. ListenerTypes' /\ HeldInv' /\ ListenerInv' /\ StepInv'
      BY <1>1, <1>2, <1>3, <3>1
      DEF RestInv, ListenerTypes, HeldInv, ListenerInv, StepInv, Scanning, Freeing
    <3>4. RestInv'
      BY <1>4, <3>2, <3>3 DEF RestInv
    <3>5. QED
      BY <1>1, <1>2, <1>3, <3>1, <3>4, OwnerAtWork, Lengths DEF memory, OwnerRests, RestInv
  <2>3. QED
    BY <1>2, <2>1, <2>2
<1>6. CASE AcquireFails
  <2>1. /\ held' = held \ Acquisitions[step].undo
        /\ owner' = "null" /\ allocated' = FALSE
        /\ UNCHANGED <<step, listener>>
    BY <1>6 DEF AcquireFails, ReturnNull, listenerVars
  <2>2. fault' = fault
    BY <1>2, <1>6, TableFacts DEF AcquireFails, ReturnNull
  <2>3. held' \subseteq {"devnode"}
    BY <1>2, <2>1, TableFacts
  <2>4. OwnerTypes'
    BY <1>1, <1>2, <1>3, <2>1, <2>3 DEF RestInv, OwnerTypes, memory, Block, Resources
  <2>5. ListenerTypes' /\ HeldInv' /\ ListenerInv' /\ StepInv'
    BY <1>1, <1>2, <1>3, <2>1, <2>3
    DEF RestInv, ListenerTypes, HeldInv, ListenerInv, StepInv, Scanning, Freeing
  <2>6. RestInv'
    BY <1>4, <2>4, <2>5 DEF RestInv
  <2>7. QED
    BY <1>1, <1>2, <1>3, <2>2, <2>6, OwnerAtWork, Lengths DEF memory, OwnerRests, RestInv
<1>7. QED
  BY <1>5, <1>6 DEF Construct

-------------------------------------------------------------------------------
(* slavery_receiver_scan_devices.                                          *)

LEMMA ScanNumbers ==
  ASSUME OwnerTypes
  PROVE  /\ \A d \in DOMAIN devices : devices[d].scan \in Nat
         /\ \A b \in DOMAIN blocks : blocks[b].scan \in Nat
<1>1. /\ devices \in Seq([index : Indexes, scan : 1..MaxScans])
      /\ blocks \in Seq(Block)
      /\ MaxScans \in Nat
  BY LifecycleAssumption, Zenon DEF OwnerTypes
<1>2. ASSUME NEW S, devices \in Seq(S)
      PROVE  \A d \in DOMAIN devices : devices[d] \in S
  BY <1>2
<1>3. \A b \in DOMAIN blocks : blocks[b] \in Block
  BY <1>1
<1>4. \A d \in DOMAIN devices : devices[d] \in [index : Indexes, scan : 1..MaxScans]
  BY <1>1, <1>2
<1>5. QED
  BY <1>1, <1>3, <1>4 DEF Block

LEMMA ResetCountStep ==
  ASSUME LifeInv, fault = "none", ResetCount
  PROVE  LifeInv'
<1>1. RestInv
  BY RestOfLife
<1>2. /\ owner = "idle" /\ owner' = "clearing"
      /\ numDevices' = 0 /\ scans < MaxScans /\ scans' = scans + 1
      /\ workers' = Disturb
      /\ UNCHANGED <<allocated, array, memory, fault, step, held, pending>>
      /\ UNCHANGED <<listener, cancelled, lost>>
  BY DEF ResetCount, listenerVars
<1>3. scans \in Nat /\ MaxScans \in Nat /\ LastIndex \in Nat
  BY <1>1, Lengths, DispatchAssumption, LifecycleAssumption DEF RestInv
<1>4. OwnerTypes'
  BY <1>1, <1>2, <1>3 DEF RestInv, OwnerTypes, memory, Block
<1>5. ListenerTypes' /\ HeldInv' /\ StepInv'
  BY <1>1, <1>2, <1>3 DEF RestInv, ListenerTypes, HeldInv, StepInv, Scanning, Freeing
<1>6. ListenerInv'
  <2>1. workers # <<>> => workers' # <<>>
    BY <1>1, <1>2 DEF Disturb, RestInv
  <2>2. DOMAIN workers' = DOMAIN workers /\ workers \in Seq(Worker)
    BY <1>2, TypeParts DEF Disturb, LifeInv, WorkerTypeOK
  <2>3. Len(workers') = Len(workers)
    <3>1. workers' = [w \in 1..Len(workers) |-> workers'[w]] /\ Len(workers) \in Nat
      BY <1>2, <2>2 DEF Disturb
    <3>2. QED
      BY <3>1
  <2>4. QED
    BY <1>1, <1>2, <2>1, <2>3 DEF RestInv, ListenerInv, Freeing
<1>7. ArrayInv'
  BY <1>1, <1>2
  DEF RestInv, ArrayInv, DeviceWaits, CellPending, CountPending, memory
<1>8. ScanInv'
  <2>1. /\ \A d \in DOMAIN devices : devices[d].scan \in Nat /\ devices[d].scan <= scans
        /\ \A b \in DOMAIN blocks : blocks[b].scan \in Nat /\ blocks[b].scan <= scans
    BY <1>1, ScanNumbers DEF RestInv, ScanInv
  <2>2. QED
    BY <1>2, <1>3, <2>1 DEF ScanInv, memory
<1>9. QED
  BY <1>2, <1>4, <1>5, <1>6, <1>7, <1>8, OwnerBegins DEF RestInv

LEMMA ResetArrayStep ==
  ASSUME LifeInv, fault = "none", ResetArray
  PROVE  LifeInv'
<1>1. RestInv /\ LastIndex \in Nat \ {0}
  BY RestOfLife, DispatchAssumption
<1>2. /\ owner = "clearing" /\ owner' = "detecting"
      /\ array' = 0 /\ step' = 1
      /\ UNCHANGED <<allocated, numDevices, memory, workers, fault, held, scans, pending>>
      /\ UNCHANGED <<listener, cancelled, lost>>
  BY DEF ResetArray, listenerVars
<1>3. Len(blocks) \in Nat /\ Len(devices) \in Nat
  BY <1>1, Lengths DEF RestInv
<1>4. OwnerTypes'
  BY <1>1, <1>2, <1>3 DEF RestInv, OwnerTypes, memory, Block
<1>5. ListenerTypes' /\ HeldInv' /\ ListenerInv' /\ StepInv'
  BY <1>1, <1>2
  DEF RestInv, ListenerTypes, HeldInv, ListenerInv, StepInv, Scanning, Freeing
<1>6. OldCells' = <<>> /\ Filled' = 0 /\ ~DeviceWaits' /\ ~CountPending'
  BY <1>2 DEF OldCells, Filled, DeviceWaits, CellPending, CountPending
<1>7. ArrayInv'
  BY <1>1, <1>2, <1>6 DEF RestInv, ArrayInv, StepInv, memory
<1>8. ScanInv'
  BY <1>1, <1>2, <1>6 DEF RestInv, ScanInv, OwnerTypes, memory
<1>9. RestInv'
  BY <1>4, <1>5, <1>7, <1>8 DEF RestInv
<1>10. QED
  BY <1>2, <1>3, <1>9, OwnerAtWork DEF OwnerRests, memory

LEMMA NotDetectedStep ==
  ASSUME LifeInv, fault = "none", NotDetected \/ ScanReturns
  PROVE  LifeInv'
<1>1. RestInv /\ LastIndex \in Nat \ {0}
  BY RestOfLife, DispatchAssumption
<1>2. /\ owner = "detecting" /\ owner' \in {"detecting", "idle"}
      /\ owner' = "detecting" => step <= LastIndex /\ step' = step + 1
      /\ owner' = "idle" => step' = 0
      /\ UNCHANGED <<allocated, numDevices, array, memory, workers, fault>>
      /\ UNCHANGED <<held, scans, pending, listener, cancelled, lost>>
  BY DEF NotDetected, ScanReturns, listenerVars, shared, receiver
<1>3. Len(blocks) \in Nat /\ Len(devices) \in Nat /\ numDevices \in Nat
  BY <1>1, Lengths DEF RestInv
<1>4. step \in 1..(LastIndex + 1) /\ step' \in 0..(LastIndex + 8)
  BY <1>1, <1>2 DEF RestInv, StepInv
<1>5. OwnerTypes'
  BY <1>1, <1>2, <1>4 DEF RestInv, OwnerTypes, memory, Block
<1>6. ListenerTypes' /\ HeldInv' /\ ListenerInv'
  BY <1>1, <1>2
  DEF RestInv, ListenerTypes, HeldInv, ListenerInv, Scanning, Freeing
<1>7. StepInv'
  <2>1. CASE owner' = "idle"
    BY <2>1 DEF StepInv, Scanning
  <2>2. CASE owner' = "detecting"
    <3>1. step' \in 1..(LastIndex + 1) /\ numDevices' < step'
      BY <1>1, <1>2, <1>3, <1>4, <2>2 DEF RestInv, StepInv
    <3>2. scans' # 0
      BY <1>1, <1>2 DEF RestInv, StepInv, Scanning
    <3>3. QED
      BY <2>2, <3>1, <3>2 DEF StepInv
  <2>3. QED
    BY <1>2, <2>1, <2>2
<1>8. ArrayInv' /\ ScanInv'
  BY <1>1, <1>2, ArrayFrame DEF RestInv, Plain
<1>9. RestInv'
  BY <1>5, <1>6, <1>7, <1>8 DEF RestInv
<1>10. QED
  BY <1>2, <1>3, <1>9, OwnerAtWork DEF OwnerRests, memory

LEMMA DetectedStep ==
  ASSUME LifeInv, fault = "none", Detected
  PROVE  LifeInv'
<1>1. RestInv /\ LastIndex \in Nat \ {0} /\ MaxScans \in Nat
  BY RestOfLife, DispatchAssumption, LifecycleAssumption
<1> DEFINE d == [index |-> step, scan |-> scans]
<1>2. /\ owner = "detecting" /\ owner' = "growing" /\ step <= LastIndex
      /\ devices' = Append(devices, d)
      /\ UNCHANGED <<allocated, numDevices, array, blocks, deviceFree, workers, fault>>
      /\ UNCHANGED <<step, held, scans, pending, listener, cancelled, lost>>
  BY DEF Detected, listenerVars, receiver
<1>3. /\ Len(blocks) \in Nat /\ Len(devices) \in Nat /\ numDevices \in Nat /\ scans \in Nat
      /\ DOMAIN devices = 1..Len(devices) /\ DOMAIN blocks = 1..Len(blocks)
  BY <1>1, Lengths DEF RestInv
<1>4. step \in 1..LastIndex /\ scans \in 1..MaxScans
  BY <1>1, <1>2, <1>3 DEF RestInv, StepInv, OwnerTypes, Scanning
<1>5. /\ devices \in Seq([index : Indexes, scan : 1..MaxScans])
      /\ d \in [index : Indexes, scan : 1..MaxScans]
  BY <1>1, <1>4, Zenon DEF RestInv, OwnerTypes, Indexes
<1>6. /\ devices' \in Seq([index : Indexes, scan : 1..MaxScans])
      /\ Len(devices') = Len(devices) + 1
      /\ DOMAIN devices' = 1..(Len(devices) + 1)
      /\ devices'[Len(devices')] = d
      /\ \A n \in 1..Len(devices) : devices'[n] = devices[n]
  BY <1>2, <1>3, <1>5
<1>7. blocks' \in Seq(Block')
  <2>1. 0..Len(devices) \subseteq 0..Len(devices')
    BY <1>3, <1>6
  <2>2. Seq(0..Len(devices)) \subseteq Seq(0..Len(devices'))
    BY <2>1, SeqMonotonic
  <2>3. Block \subseteq Block'
    BY <2>2 DEF Block
  <2>4. blocks \in Seq(Block)
    BY <1>1, Zenon DEF RestInv, OwnerTypes
  <2>5. QED
    BY <1>2, <2>3, <2>4, SeqMonotonic
<1>8. OwnerTypes'
  BY <1>1, <1>2, <1>3, <1>6, <1>7 DEF RestInv, OwnerTypes
<1>9. ListenerTypes' /\ HeldInv' /\ ListenerInv' /\ StepInv'
  BY <1>1, <1>2, <1>4
  DEF RestInv, ListenerTypes, HeldInv, ListenerInv, StepInv, Scanning, Freeing
<1>10. /\ OldCells' = OldCells /\ Filled = Len(OldCells) /\ Filled' = Filled
       /\ DeviceWaits' /\ ~DeviceWaits /\ ~CountPending /\ ~CountPending'
  BY <1>2 DEF OldCells, Filled, DeviceWaits, CellPending, CountPending
<1>11. \A n \in 1..Filled : OldCells[n] \in 1..Len(devices)
  BY <1>1, <1>2, <1>3, <1>10, OldCellsType DEF RestInv, ArrayInv
<1>12. ArrayInv'
  BY <1>1, <1>2, <1>3, <1>6, <1>10, <1>11 DEF RestInv, ArrayInv
<1>13. ScanInv'
  <2>1. \A n \in 1..Filled : devices'[OldCells[n]].scan = scans
    BY <1>1, <1>2, <1>6, <1>10, <1>11 DEF RestInv, ScanInv
  <2>2. \A n \in DOMAIN devices' :
          /\ devices'[n].scan <= scans
          /\ devices'[n].scan = scans => \/ \E m \in 1..Filled : OldCells[m] = n
                                         \/ n = Len(devices')
    BY <1>1, <1>2, <1>3, <1>6, <1>10 DEF RestInv, ScanInv
  <2>3. devices'[Len(devices')].scan = scans
    BY <1>6
  <2>4. QED
    BY <1>1, <1>2, <1>10, <2>1, <2>2, <2>3 DEF RestInv, ScanInv
<1>14. RestInv'
  BY <1>8, <1>9, <1>12, <1>13 DEF RestInv
<1>15. QED
  BY <1>2, <1>3, <1>6, <1>14, OwnerAtWork DEF OwnerRests

\* The cells that realloc returns.
LEMMA NewCellsFacts ==
  ASSUME RestInv, Len(OldCells) = numDevices
  PROVE  /\ NewCells \in Seq(0..Len(devices))
         /\ Len(NewCells) = numDevices + 1
         /\ \A n \in 1..numDevices : NewCells[n] = OldCells[n]
<1>1. numDevices \in Nat /\ Len(devices) \in Nat
  BY Lengths DEF RestInv
<1>2. \A n \in 1..numDevices : OldCells[n] \in 0..Len(devices)
  BY OldCellsType DEF RestInv
<1>3. NewCells \in [1..(numDevices + 1) -> 0..Len(devices)]
  BY <1>1, <1>2 DEF NewCells
<1>4. QED
  BY <1>1, <1>3 DEF NewCells

\* The array as it is while a device waits to be stored.
LEMMA GrowingNumbers ==
  ASSUME RestInv, owner \in {"growing", "moving"}
  PROVE  /\ Len(OldCells) = numDevices /\ Filled = numDevices
         /\ DeviceWaits /\ ~CountPending /\ ~CellPending
         /\ deviceFree = {}
         /\ step \in 1..LastIndex /\ numDevices < step /\ scans # 0
         /\ Len(devices) # 0
<1>1. Filled = Len(OldCells) /\ DeviceWaits /\ ~CellPending /\ ~CountPending
  BY DEF Filled, DeviceWaits, CellPending, CountPending
<1>2. Len(OldCells) = numDevices /\ deviceFree = {} /\ Len(devices) # 0
  BY <1>1 DEF RestInv, ArrayInv
<1>3. step \in 1..LastIndex /\ numDevices < step /\ scans # 0
  BY DEF RestInv, StepInv, Scanning
<1>4. QED
  BY <1>1, <1>2, <1>3

LEMMA GrowingCells ==
  ASSUME RestInv, owner \in {"growing", "moving"}
  PROVE  /\ \A n \in 1..numDevices : /\ OldCells[n] # 0
                                     /\ OldCells[n] < Len(devices)
                                     /\ devices[OldCells[n]].scan = scans
         /\ \A m, n \in 1..numDevices : m < n => OldCells[m] < OldCells[n]
<1>1. Filled = numDevices /\ DeviceWaits
  BY GrowingNumbers
<1>2. \A n \in 1..numDevices : OldCells[n] # 0 /\ OldCells[n] < Len(devices)
  BY <1>1 DEF RestInv, ArrayInv
<1>3. \A m, n \in 1..numDevices : m < n => OldCells[m] < OldCells[n]
  BY <1>1 DEF RestInv, ArrayInv
<1>4. \A n \in 1..numDevices : devices[OldCells[n]].scan = scans
  BY <1>1 DEF RestInv, ScanInv
<1>5. QED
  BY <1>2, <1>3, <1>4

LEMMA GrowingScan ==
  ASSUME RestInv, owner \in {"growing", "moving"}
  PROVE  /\ devices[Len(devices)].scan = scans
         /\ \A d \in DOMAIN devices :
              devices[d].scan = scans =>
                (\E n \in 1..numDevices : OldCells[n] = d) \/ d = Len(devices)
<1>1. Filled = numDevices /\ DeviceWaits
  BY GrowingNumbers
<1>2. QED
  BY <1>1 DEF RestInv, ScanInv

\* realloc has returned NewCells, and the assignment is to come.
Grown ==
  /\ owner' = "storing" /\ pending' = {"cell", "count"}
  /\ UNCHANGED <<allocated, numDevices, devices, deviceFree, workers, fault, step, held,
                 scans, listener, cancelled, lost>>
  /\ OldCells' = NewCells
  /\ array' # 0 /\ array' \in 0..Len(blocks')
  /\ blocks'[array'].live
  /\ blocks' \in Seq(Block) /\ Len(blocks) <= Len(blocks')
  /\ \A b \in DOMAIN blocks' :
       /\ blocks'[b].scan <= scans
       /\ blocks'[b].live => blocks'[b].scan < scans \/ b = array'

LEMMA GrownStep ==
  ASSUME LifeInv, fault = "none", owner \in {"growing", "moving"}, Grown
  PROVE  LifeInv'
<1>0. /\ owner' = "storing" /\ pending' = {"cell", "count"}
      /\ UNCHANGED <<allocated, numDevices, devices, deviceFree, workers, fault>>
      /\ UNCHANGED <<step, held, scans, listener, cancelled, lost>>
      /\ OldCells' = NewCells
  BY DEF Grown
<1>1. RestInv
  BY RestOfLife
<1>2. /\ Len(devices) \in Nat /\ numDevices \in Nat
  BY <1>1, Lengths DEF RestInv
<1>3. /\ Len(NewCells) = numDevices + 1
      /\ \A n \in 1..numDevices : NewCells[n] = OldCells[n]
  BY <1>1, GrowingNumbers, NewCellsFacts
<1>4. OwnerTypes'
  BY <1>1 DEF Grown, RestInv, OwnerTypes, Block
<1>5. ListenerTypes' /\ HeldInv' /\ ListenerInv'
  BY <1>0, <1>1
  DEF RestInv, ListenerTypes, HeldInv, ListenerInv, Scanning, Freeing
<1>6. StepInv'
  <2>1. step \in 1..LastIndex /\ numDevices < step /\ scans # 0
    BY <1>1, GrowingNumbers
  <2>2. step \in Nat /\ numDevices <= step
    BY <1>2, <2>1, DispatchAssumption
  <2>3. QED
    BY <1>0, <2>1, <2>2 DEF StepInv, Scanning
<1>7. Filled' = numDevices /\ DeviceWaits' /\ CountPending' /\ CellPending'
  BY <1>0, <1>2, <1>3 DEF Filled, DeviceWaits, CellPending, CountPending
<1>8. \A n \in 1..numDevices : /\ OldCells'[n] = OldCells[n] /\ OldCells[n] # 0
                               /\ OldCells[n] < Len(devices)
                               /\ devices[OldCells[n]].scan = scans
  BY <1>0, <1>1, <1>3, GrowingCells
<1>9. ArrayInv'
  <2>1. \A m, n \in 1..numDevices : m < n => OldCells'[m] < OldCells'[n]
    BY <1>0, <1>1, <1>8, GrowingCells
  <2>2. deviceFree = {} /\ Len(devices) # 0
    BY <1>1, GrowingNumbers
  <2>3. QED
    BY <1>0, <1>3, <1>7, <1>8, <2>1, <2>2 DEF Grown, ArrayInv
<1>10. ScanInv'
  <2>1. \A n \in 1..Filled' : devices'[OldCells'[n]].scan = scans'
    BY <1>0, <1>7, <1>8
  <2>2. \A d \in DOMAIN devices :
          devices[d].scan = scans =>
            (\E n \in 1..Filled' : OldCells'[n] = d) \/ d = Len(devices)
    BY <1>1, <1>7, <1>8, GrowingScan
  <2>3. devices[Len(devices)].scan = scans
    BY <1>1, GrowingScan
  <2>4. \A d \in DOMAIN devices : devices[d].scan <= scans
    BY <1>1 DEF RestInv, ScanInv
  <2>5. QED
    BY <1>0, <1>7, <2>1, <2>2, <2>3, <2>4 DEF Grown, ScanInv
<1>11. RestInv'
  BY <1>4, <1>5, <1>6, <1>9, <1>10 DEF RestInv
<1>12. Len(devices) <= Len(devices') /\ ~OwnerRests
  BY <1>0, <1>2 DEF OwnerRests
<1>13. QED
  BY <1>0, <1>11, <1>12, OwnerAtWork DEF Grown

LEMMA GrowInPlaceStep ==
  ASSUME LifeInv, fault = "none", GrowInPlace
  PROVE  LifeInv'
<1>1. RestInv /\ blocks \in Seq(Block) /\ Len(blocks) \in Nat /\ DOMAIN blocks = 1..Len(blocks)
  BY RestOfLife, Lengths, Zenon DEF RestInv, OwnerTypes
<1>2. /\ owner = "growing" /\ owner' = "storing" /\ array # 0
      /\ blocks' = [blocks EXCEPT ![array].cells = NewCells]
      /\ pending' = {"cell", "count"}
      /\ UNCHANGED <<allocated, numDevices, array, devices, deviceFree, workers, fault>>
      /\ UNCHANGED <<step, held, scans, listener, cancelled, lost>>
  BY DEF GrowInPlace, receiver, listenerVars
<1>3. array \in 1..Len(blocks) /\ array \in 0..Len(blocks)
  <2>1. array \in 0..Len(blocks)
    BY <1>1, Zenon DEF RestInv, OwnerTypes
  <2>2. QED
    BY <1>1, <1>2, <2>1
<1>4. NewCells \in Seq(0..Len(devices))
  BY <1>1, <1>2, GrowingNumbers, NewCellsFacts
<1>5. blocks[array] \in Block
  BY <1>1, <1>3, ElementOfSeq
<1> DEFINE b == [blocks[array] EXCEPT !.cells = NewCells]
<1>6. b \in Block /\ b.cells = NewCells /\ b.live = blocks[array].live
      /\ b.scan = blocks[array].scan
  BY <1>4, <1>5 DEF Block
<1>7. blocks' = [blocks EXCEPT ![array] = b]
  BY <1>2
<1> HIDE DEF b
<1>8. /\ blocks' \in Seq(Block) /\ Len(blocks') = Len(blocks)
  BY <1>1, <1>3, <1>6, <1>7, ExceptSeq
<1>9. /\ DOMAIN blocks' = DOMAIN blocks /\ blocks'[array] = b
      /\ \A c \in DOMAIN blocks : c # array => blocks'[c] = blocks[c]
  BY <1>1, <1>3, <1>7
<1>10. OldCells' = NewCells
  BY <1>2, <1>6, <1>9 DEF OldCells
<1>11. blocks[array].live
  BY <1>1, <1>2 DEF RestInv, ArrayInv
<1>12. \A c \in DOMAIN blocks : /\ blocks'[c].scan = blocks[c].scan
                                /\ blocks'[c].live = blocks[c].live
  BY <1>6, <1>9
<1>13. \A c \in DOMAIN blocks' :
         /\ blocks'[c].scan <= scans
         /\ blocks'[c].live => blocks'[c].scan < scans \/ c = array'
  BY <1>1, <1>2, <1>9, <1>12 DEF RestInv, ScanInv
<1>14. Grown
  BY <1>1, <1>2, <1>3, <1>6, <1>8, <1>9, <1>10, <1>11, <1>13 DEF Grown
<1>15. QED
  BY <1>2, <1>14, GrownStep

LEMMA GrowElsewhereStep ==
  ASSUME LifeInv, fault = "none", GrowElsewhere
  PROVE  LifeInv'
<1>0. Len(blocks) \in Nat /\ DOMAIN blocks = 1..Len(blocks)
  BY RestOfLife, Lengths DEF RestInv
<1>1. RestInv
  BY RestOfLife
<1>b. blocks \in Seq(Block)
  BY <1>1, Zenon DEF RestInv, OwnerTypes
<1> DEFINE n == Len(blocks)
           kept == [b \in DOMAIN blocks |-> [blocks[b] EXCEPT !.live = @ /\ b # array]]
           new == [cells |-> NewCells, live |-> TRUE, scan |-> scans]
<1>2. /\ owner = "growing" /\ owner' = "moving"
      /\ blocks' = Append(kept, new)
      /\ UNCHANGED <<allocated, numDevices, array, devices, deviceFree, workers, fault>>
      /\ UNCHANGED <<step, held, scans, pending, listener, cancelled, lost>>
  BY DEF GrowElsewhere, receiver, listenerVars
<1>3. /\ Len(devices) \in Nat /\ numDevices \in Nat /\ scans \in 1..MaxScans
      /\ array \in 0..n
  <2>1. array \in 0..Len(blocks) /\ scans \in 0..MaxScans
    BY <1>1, Zenon DEF RestInv, OwnerTypes
  <2>2. QED
    <3>1. scans # 0
      BY <1>1, <1>2, GrowingNumbers
    <3>2. Len(devices) \in Nat /\ numDevices \in Nat /\ scans \in Nat
      BY <1>1, Lengths DEF RestInv
    <3>3. QED
      BY <2>1, <3>1, <3>2, LifecycleAssumption
<1>4. new \in Block
  BY <1>1, <1>2, <1>3, GrowingNumbers, NewCellsFacts DEF Block
<1>5. \A b \in 1..n : /\ kept[b] \in Block
                      /\ kept[b].scan = blocks[b].scan /\ kept[b].cells = blocks[b].cells
                      /\ kept[b].live => blocks[b].live /\ b # array
  <2> SUFFICES ASSUME NEW b \in 1..n
               PROVE  /\ kept[b] \in Block
                      /\ kept[b].scan = blocks[b].scan /\ kept[b].cells = blocks[b].cells
                      /\ kept[b].live => blocks[b].live /\ b # array
    OBVIOUS
  <2>1. blocks[b] \in Block
    BY <1>0, <1>b, ElementOfSeq
  <2>2. kept[b] = [blocks[b] EXCEPT !.live = blocks[b].live /\ b # array]
    BY <1>0, <2>1 DEF Block
  <2>3. QED
    BY <2>1, <2>2 DEF Block
<1>6. kept \in Seq(Block) /\ Len(kept) = n
  <2>1. kept \in [1..n -> Block]
    BY <1>0, <1>5
  <2>2. QED
    BY <1>0, <2>1
<1> HIDE DEF kept
<1>7. /\ blocks' \in Seq(Block) /\ Len(blocks') = n + 1
      /\ blocks'[n + 1] = new
      /\ \A b \in 1..n : blocks'[b] = kept[b]
      /\ DOMAIN blocks' = 1..(n + 1)
  BY <1>0, <1>2, <1>4, <1>6
<1>8. OwnerTypes'
  <2>1. Block' = Block
    BY <1>2 DEF Block
  <2>2. array' \in 0..Len(blocks')
    BY <1>0, <1>2, <1>3, <1>7
  <2>3. blocks' \in Seq(Block')
    BY <1>7, <2>1
  <2>4. QED
    BY <1>1, <1>2, <2>2, <2>3 DEF RestInv, OwnerTypes
<1>9. ListenerTypes' /\ HeldInv' /\ ListenerInv' /\ StepInv'
  BY <1>1, <1>2
  DEF RestInv, ListenerTypes, HeldInv, ListenerInv, StepInv, Scanning, Freeing
<1>10. OldCells' = OldCells /\ NewCells' = NewCells
  <2>1. OldCells' = OldCells
    <3>1. CASE array = 0
      BY <1>2, <3>1 DEF OldCells
    <3>2. CASE array # 0
      <4>1. array \in 1..n
        BY <1>0, <1>3, <3>2
      <4>2. blocks'[array].cells = blocks[array].cells
        BY <1>5, <1>7, <4>1
      <4>3. QED
        BY <1>2, <3>2, <4>2 DEF OldCells
    <3>3. QED
      BY <3>1, <3>2
  <2>2. QED
    BY <1>2, <2>1 DEF NewCells
<1>11. /\ Filled' = numDevices /\ Filled = numDevices /\ DeviceWaits' /\ DeviceWaits
       /\ ~CountPending' /\ ~CountPending
  BY <1>1, <1>2, <1>10, GrowingNumbers DEF Filled, DeviceWaits, CellPending, CountPending
<1>12. ArrayInv'
  <2>1. blocks'[Len(blocks')].cells = NewCells' /\ blocks'[Len(blocks')].live
    BY <1>0, <1>7, <1>10
  <2>2. array' < Len(blocks')
    BY <1>0, <1>2, <1>3, <1>7
  <2>3. QED
    BY <1>1, <1>2, <1>10, <1>11, <2>1, <2>2 DEF RestInv, ArrayInv
<1>13. ScanInv'
  <2>1. \A b \in DOMAIN blocks' :
          /\ blocks'[b].scan <= scans
          /\ blocks'[b].live => blocks'[b].scan < scans \/ b = Len(blocks')
    <3>1. \A b \in 1..n : /\ blocks'[b].scan <= scans
                          /\ blocks'[b].live => blocks'[b].scan < scans
      BY <1>0, <1>1, <1>2, <1>5, <1>7 DEF RestInv, ScanInv
    <3>2. blocks'[n + 1].scan = scans
      BY <1>7
    <3>3. QED
      BY <1>0, <1>3, <1>7, <3>1, <3>2
  <2>2. QED
    BY <1>1, <1>2, <1>10, <1>11, <2>1 DEF RestInv, ScanInv
<1>14. RestInv'
  BY <1>8, <1>9, <1>12, <1>13 DEF RestInv
<1>15. Len(blocks) <= Len(blocks') /\ Len(devices) <= Len(devices') /\ ~OwnerRests
  BY <1>0, <1>2, <1>3, <1>7 DEF OwnerRests
<1>16. QED
  BY <1>2, <1>14, <1>15, OwnerAtWork

LEMMA ArrayGrownStep ==
  ASSUME LifeInv, fault = "none", ArrayGrown
  PROVE  LifeInv'
<1>0. Len(blocks) \in Nat /\ DOMAIN blocks = 1..Len(blocks)
  BY RestOfLife, Lengths DEF RestInv
<1>1. RestInv
  BY RestOfLife
<1>b. blocks \in Seq(Block)
  BY <1>1, Zenon DEF RestInv, OwnerTypes
<1>2. /\ owner = "moving" /\ owner' = "storing" /\ array' = Len(blocks)
      /\ pending' = {"cell", "count"}
      /\ UNCHANGED <<allocated, numDevices, blocks, devices, deviceFree, workers, fault>>
      /\ UNCHANGED <<step, held, scans, listener, cancelled, lost>>
  BY DEF ArrayGrown, memory, listenerVars
<1>3. /\ array < Len(blocks) /\ blocks[Len(blocks)].cells = NewCells
      /\ blocks[Len(blocks)].live
  BY <1>1, <1>2 DEF RestInv, ArrayInv
<1>4. array \in Nat
  BY <1>1, Lengths DEF RestInv
<1>5. array' # 0 /\ array' \in 0..Len(blocks') /\ OldCells' = NewCells
  BY <1>0, <1>2, <1>3, <1>4 DEF OldCells
<1>6. \A b \in DOMAIN blocks : /\ blocks[b].scan <= scans
                               /\ blocks[b].live => blocks[b].scan < scans \/ b = Len(blocks)
  BY <1>1, <1>2 DEF RestInv, ScanInv
<1>7. Grown
  BY <1>0, <1>2, <1>3, <1>5, <1>6, <1>b DEF Grown
<1>8. QED
  BY <1>2, <1>7, GrownStep

\* The array as it is between the two stores, or before both.
LEMMA StoringFacts ==
  ASSUME RestInv, owner = "storing"
  PROVE  /\ array # 0 /\ blocks[array].live /\ deviceFree = {} /\ scans # 0
         /\ step \in 1..LastIndex /\ numDevices <= step
         /\ pending # {} /\ pending \subseteq {"cell", "count"}
         /\ IF "count" \in pending THEN numDevices < step ELSE numDevices # 0
         /\ Len(OldCells) = IF "count" \in pending THEN numDevices + 1 ELSE numDevices
<1>1. /\ array # 0 /\ blocks[array].live /\ deviceFree = {}
      /\ Len(OldCells) = IF "count" \in pending THEN numDevices + 1 ELSE numDevices
  BY DEF RestInv, ArrayInv, CountPending
<1>2. /\ step \in 1..LastIndex /\ numDevices <= step /\ pending # {} /\ scans # 0
      /\ IF "count" \in pending THEN numDevices < step ELSE numDevices # 0
  BY DEF RestInv, StepInv, Scanning
<1>3. pending \subseteq {"cell", "count"}
  BY Zenon DEF RestInv, OwnerTypes
<1>4. QED
  BY <1>1, <1>2, <1>3

LEMMA StoreCellStep ==
  ASSUME LifeInv, fault = "none", StoreCell
  PROVE  LifeInv'
<1>1. RestInv
  BY RestOfLife
<1>2. /\ owner = "storing" /\ "cell" \in pending /\ pending' = pending \ {"cell"}
      /\ UNCHANGED <<allocated, numDevices, array, devices, deviceFree, workers, fault>>
      /\ UNCHANGED <<held, scans, listener, cancelled, lost>>
      /\ blocks' = [blocks EXCEPT ![array].cells[Len(OldCells)] = Len(devices)]
  BY DEF StoreCell, Stored, listenerVars
<1>3. \/ pending = {"cell"} /\ owner' = "detecting" /\ step' = step + 1
      \/ pending # {"cell"} /\ owner' = owner /\ step' = step
  BY DEF StoreCell, Stored
<1> DEFINE last == Len(OldCells)
<1>4. /\ Len(blocks) \in Nat /\ Len(devices) \in Nat /\ numDevices \in Nat
      /\ DOMAIN blocks = 1..Len(blocks) /\ LastIndex \in Nat
  BY <1>1, Lengths, DispatchAssumption DEF RestInv
<1>5. /\ array \in 1..Len(blocks)
      /\ blocks \in Seq(Block)
  <2>1. array \in 0..Len(blocks) /\ blocks \in Seq(Block)
    BY <1>1, Zenon DEF RestInv, OwnerTypes
  <2>2. array # 0
    BY <1>1, <1>2, StoringFacts
  <2>3. QED
    BY <1>4, <2>1, <2>2
<1>6. blocks[array] \in Block /\ OldCells = blocks[array].cells
  BY <1>4, <1>5, ElementOfSeq DEF OldCells
<1>7. /\ OldCells \in Seq(0..Len(devices)) /\ last \in Nat /\ last \in 1..last
      /\ DOMAIN OldCells = 1..last
  <2>1. OldCells \in Seq(0..Len(devices)) /\ last \in Nat /\ DOMAIN OldCells = 1..last
    BY <1>1, OldCellsType DEF RestInv
  <2>2. last # 0
    BY <1>1, <1>2, <1>4, StoringFacts
  <2>3. QED
    BY <2>1, <2>2
<1> DEFINE cells == [OldCells EXCEPT ![last] = Len(devices)]
<1>8. /\ cells \in Seq(0..Len(devices)) /\ Len(cells) = last
      /\ cells[last] = Len(devices)
      /\ \A n \in 1..last : n # last => cells[n] = OldCells[n]
  <2>1. Len(devices) \in 0..Len(devices)
    BY <1>4
  <2>2. cells \in Seq(0..Len(devices)) /\ Len(cells) = last
    BY <1>7, <2>1, ExceptSeq
  <2>3. cells[last] = Len(devices)
    BY <1>7
  <2>4. \A n \in 1..last : n # last => cells[n] = OldCells[n]
    BY <1>7
  <2>5. QED
    BY <2>2, <2>3, <2>4
<1> DEFINE b == [blocks[array] EXCEPT !.cells = cells]
<1>9. /\ b \in Block /\ b.cells = cells /\ b.live = blocks[array].live
      /\ b.scan = blocks[array].scan
  BY <1>6, <1>8 DEF Block
<1>10. blocks' = [blocks EXCEPT ![array] = b]
  BY <1>2, <1>6
<1> HIDE DEF b
<1>11. /\ blocks' \in Seq(Block) /\ Len(blocks') = Len(blocks)
  BY <1>5, <1>9, <1>10, ExceptSeq
<1>12. /\ DOMAIN blocks' = DOMAIN blocks /\ blocks'[array] = b
       /\ \A c \in DOMAIN blocks : c # array => blocks'[c] = blocks[c]
  BY <1>4, <1>5, <1>10
<1>13. OldCells' = cells
  BY <1>2, <1>5, <1>9, <1>12 DEF OldCells
<1> HIDE DEF cells
<1>14. \A c \in DOMAIN blocks : /\ blocks'[c].scan = blocks[c].scan
                                /\ blocks'[c].live = blocks[c].live
  BY <1>9, <1>12
<1>15. step' \in 0..(LastIndex + 8)
  BY <1>1, <1>2, <1>3, <1>4, StoringFacts
<1>16. OwnerTypes'
  <2>1. Block' = Block
    BY <1>2 DEF Block
  <2>2. blocks' \in Seq(Block') /\ array' \in 0..Len(blocks')
    BY <1>2, <1>4, <1>5, <1>11, <2>1
  <2>3. owner' \in {"detecting", "storing"} /\ pending' \subseteq {"cell", "count"}
    BY <1>1, <1>2, <1>3, StoringFacts
  <2>4. QED
    BY <1>1, <1>2, <1>15, <2>2, <2>3 DEF RestInv, OwnerTypes
<1>17. ListenerTypes' /\ HeldInv' /\ ListenerInv'
  BY <1>1, <1>2, <1>3
  DEF RestInv, ListenerTypes, HeldInv, ListenerInv, Scanning, Freeing
<1>18. StepInv'
  <2>1. CASE pending = {"cell"}
    <3>1. step' \in 1..(LastIndex + 1) /\ numDevices < step'
      BY <1>1, <1>2, <1>3, <1>4, <2>1, StoringFacts
    <3>2. QED
      BY <1>1, <1>2, <1>3, <2>1, <3>1, StoringFacts DEF StepInv
  <2>2. CASE pending # {"cell"}
    <3>1. "count" \in pending' /\ "count" \in pending
      BY <1>1, <1>2, <2>2, StoringFacts
    <3>2. QED
      BY <1>1, <1>2, <1>3, <2>2, <3>1, StoringFacts DEF StepInv
  <2>3. QED
    BY <2>1, <2>2
<1>19. /\ Filled = last - 1 /\ DeviceWaits
       /\ Filled' = last /\ ~DeviceWaits' /\ ~CellPending'
       /\ CountPending' <=> CountPending
  <2>1. CellPending /\ ~CellPending'
    BY <1>2, <1>3 DEF CellPending
  <2>2. CountPending' <=> CountPending
    BY <1>1, <1>2, <1>3, StoringFacts DEF CountPending
  <2>3. ~DeviceWaits' /\ DeviceWaits
    BY <1>2, <1>3, <2>1 DEF DeviceWaits
  <2>4. QED
    BY <1>8, <1>13, <2>1, <2>2, <2>3 DEF Filled
<1>20. /\ \A n \in 1..(last - 1) : /\ OldCells'[n] = OldCells[n] /\ OldCells[n] # 0
                                   /\ OldCells[n] < Len(devices)
                                   /\ devices[OldCells[n]].scan = scans
       /\ OldCells'[last] = Len(devices)
       /\ Len(devices) # 0 /\ devices[Len(devices)].scan = scans
  <2>1. \A n \in 1..(last - 1) : OldCells[n] # 0 /\ OldCells[n] < Len(devices)
    BY <1>1, <1>2, <1>19 DEF RestInv, ArrayInv
  <2>2. \A n \in 1..(last - 1) : devices[OldCells[n]].scan = scans
    BY <1>1, <1>2, <1>19 DEF RestInv, ScanInv
  <2>3. Len(devices) # 0 /\ devices[Len(devices)].scan = scans
    BY <1>1, <1>2, <1>19 DEF RestInv, ArrayInv, ScanInv
  <2>4. ASSUME NEW n \in 1..(last - 1)
        PROVE  OldCells'[n] = OldCells[n]
    <3>1. n \in 1..last /\ n # last
      <4> HIDE DEF last
      <4>1. last \in Nat
        BY <1>7
      <4>2. QED
        BY <2>4, <4>1
    <3>2. QED
      BY <1>8, <1>13, <3>1
  <2>5. QED
    BY <1>8, <1>13, <2>1, <2>2, <2>3, <2>4
<1>21. ArrayInv'
  <2>1. \A n \in 1..last : OldCells'[n] # 0
    BY <1>7, <1>20
  <2>2. ASSUME NEW m \in 1..last, NEW n \in 1..last, m < n
        PROVE  OldCells'[m] < OldCells'[n]
    <3>1. m \in 1..(last - 1)
      BY <1>7, <2>2
    <3>2. CASE n = last
      BY <1>20, <3>1, <3>2
    <3>3. CASE n # last
      <4>1. n \in 1..(last - 1)
        <5> HIDE DEF last
        <5>1. last \in Nat
          BY <1>7
        <5>2. QED
          BY <3>3, <5>1
      <4>2. OldCells[m] < OldCells[n]
        BY <1>1, <1>2, <1>19, <2>2, <3>1, <4>1 DEF RestInv, ArrayInv
      <4>3. QED
        BY <1>20, <3>1, <4>1, <4>2
    <3>4. QED
      BY <3>2, <3>3
  <2>3. blocks'[array].live
    BY <1>1, <1>2, <1>4, <1>5, <1>14, StoringFacts
  <2>4. Len(OldCells') = IF CountPending' THEN numDevices' + 1 ELSE numDevices'
    BY <1>1, <1>2, <1>8, <1>13, <1>19, StoringFacts DEF CountPending
  <2>5. deviceFree = {} /\ array # 0
    BY <1>1, <1>2, StoringFacts
  <2>6. QED
    BY <1>2, <1>3, <1>19, <2>1, <2>2, <2>3, <2>4, <2>5 DEF ArrayInv
<1>22. ScanInv'
  <2>1. \A n \in 1..Filled' : devices'[OldCells'[n]].scan = scans'
    BY <1>2, <1>7, <1>19, <1>20
  <2>2. \A d \in DOMAIN devices :
          devices[d].scan = scans => \E n \in 1..Filled' : OldCells'[n] = d
    <3>1. \A d \in DOMAIN devices :
            devices[d].scan = scans =>
              (\E n \in 1..(last - 1) : OldCells[n] = d) \/ d = Len(devices)
      BY <1>1, <1>2, <1>19 DEF RestInv, ScanInv
    <3>2. \A n \in 1..(last - 1) : n \in 1..last
      BY <1>7
    <3>3. last \in 1..last
      BY <1>7
    <3>4. QED
      BY <1>19, <1>20, <3>1, <3>2, <3>3
  <2>3. /\ \A d \in DOMAIN devices : devices[d].scan <= scans
        /\ \A c \in DOMAIN blocks : blocks[c].scan <= scans
        /\ \A c \in DOMAIN blocks : blocks[c].live => blocks[c].scan < scans \/ c = array
    BY <1>1, <1>2 DEF RestInv, ScanInv
  <2>4. QED
    BY <1>2, <1>3, <1>12, <1>14, <1>19, <2>1, <2>2, <2>3 DEF ScanInv
<1>23. RestInv'
  BY <1>16, <1>17, <1>18, <1>21, <1>22 DEF RestInv
<1>24. Len(blocks) <= Len(blocks') /\ Len(devices) <= Len(devices') /\ ~OwnerRests
  BY <1>2, <1>4, <1>11 DEF OwnerRests
<1>25. QED
  BY <1>2, <1>23, <1>24, OwnerAtWork

LEMMA StoreCountStep ==
  ASSUME LifeInv, fault = "none", StoreCount
  PROVE  LifeInv'
<1>1. RestInv
  BY RestOfLife
<1>2. /\ owner = "storing" /\ "count" \in pending /\ pending' = pending \ {"count"}
      /\ numDevices' = numDevices + 1
      /\ UNCHANGED <<allocated, array, blocks, devices, deviceFree, workers, fault>>
      /\ UNCHANGED <<held, scans, listener, cancelled, lost>>
  BY DEF StoreCount, Stored, listenerVars
<1>3. \/ pending = {"count"} /\ owner' = "detecting" /\ step' = step + 1
      \/ pending # {"count"} /\ owner' = owner /\ step' = step
  BY DEF StoreCount, Stored
<1>4. /\ Len(blocks) \in Nat /\ Len(devices) \in Nat /\ numDevices \in Nat
      /\ LastIndex \in Nat
  BY <1>1, Lengths, DispatchAssumption DEF RestInv
<1>5. step \in 1..LastIndex /\ numDevices < step
  BY <1>1, <1>2, StoringFacts
<1>6. OwnerTypes'
  <2>1. numDevices' \in 0..LastIndex /\ step' \in 0..(LastIndex + 8)
    BY <1>2, <1>3, <1>4, <1>5
  <2>2. owner' \in {"detecting", "storing"} /\ pending' \subseteq {"cell", "count"}
    BY <1>1, <1>2, <1>3, StoringFacts
  <2>3. QED
    BY <1>1, <1>2, <2>1, <2>2 DEF RestInv, OwnerTypes, Block
<1>7. ListenerTypes' /\ HeldInv' /\ ListenerInv'
  BY <1>1, <1>2, <1>3
  DEF RestInv, ListenerTypes, HeldInv, ListenerInv, Scanning, Freeing
<1>8. StepInv'
  <2>1. numDevices' <= step /\ numDevices' # 0 /\ numDevices' < step + 1
        /\ step + 1 \in 1..(LastIndex + 1)
    BY <1>2, <1>4, <1>5
  <2>2. scans # 0
    BY <1>1, <1>2, StoringFacts
  <2>3. CASE pending = {"count"}
    BY <1>2, <1>3, <2>1, <2>2, <2>3 DEF StepInv
  <2>4. CASE pending # {"count"}
    <3>1. pending' # {} /\ "count" \notin pending'
      BY <1>1, <1>2, <2>4, StoringFacts
    <3>2. QED
      BY <1>2, <1>3, <1>5, <2>1, <2>2, <2>4, <3>1 DEF StepInv
  <2>5. QED
    BY <2>3, <2>4
<1>9. OldCells' = OldCells
  BY <1>2 DEF OldCells
<1>10. /\ Filled' = Filled /\ (DeviceWaits' <=> DeviceWaits) /\ ~CountPending'
  <2>1. CellPending' <=> CellPending
    BY <1>1, <1>2, <1>3, StoringFacts DEF CellPending
  <2>2. ~CountPending'
    BY <1>2, <1>3 DEF CountPending
  <2>3. QED
    BY <1>2, <1>3, <1>9, <2>1, <2>2 DEF Filled, DeviceWaits
<1>11. ArrayInv'
  <2>1. Len(OldCells') = numDevices'
    BY <1>1, <1>2, <1>9, StoringFacts
  <2>2. QED
    BY <1>1, <1>2, <1>3, <1>9, <1>10, <2>1 DEF RestInv, ArrayInv
<1>12. ScanInv'
  BY <1>1, <1>2, <1>3, <1>9, <1>10 DEF RestInv, ScanInv
<1>13. RestInv'
  BY <1>6, <1>7, <1>8, <1>11, <1>12 DEF RestInv
<1>14. Len(blocks) <= Len(blocks') /\ Len(devices) <= Len(devices') /\ ~OwnerRests
  BY <1>2, <1>4 DEF OwnerRests
<1>15. QED
  BY <1>2, <1>13, <1>14, OwnerAtWork

LEMMA ScanStep ==
  ASSUME LifeInv, fault = "none", Scan
  PROVE  LifeInv'
  BY ResetCountStep, ResetArrayStep, NotDetectedStep, DetectedStep, GrowInPlaceStep,
     GrowElsewhereStep, ArrayGrownStep, StoreCellStep, StoreCountStep DEF Scan

-------------------------------------------------------------------------------
(* The release.                                                            *)

LEMMA DescriptorFacts ==
  /\ Len(Descriptors) = 3
  /\ Descriptors[1] = "read end" /\ Descriptors[2] = "write end" /\ Descriptors[3] = "fd"
  /\ Closed(1) = {} /\ Closed(2) = {"read end"} /\ Closed(3) = {"read end", "write end"}
<1>1. /\ Len(Descriptors) = 3
      /\ Descriptors[1] = "read end" /\ Descriptors[2] = "write end"
      /\ Descriptors[3] = "fd"
  BY DEF Descriptors
<1>2. 1..(1 - 1) = {} /\ 1..(2 - 1) = {1} /\ 1..(3 - 1) = {1, 2}
  OBVIOUS
<1> HIDE DEF Descriptors
<1>3. QED
  BY <1>1, <1>2 DEF Closed

LEMMA CancelStep ==
  ASSUME LifeInv, fault = "none", Cancel
  PROVE  LifeInv'
<1>1. RestInv
  BY RestOfLife
<1>2. /\ owner = "idle" /\ owner' = "joining" /\ cancelled' = TRUE /\ workers' = Disturb
      /\ UNCHANGED <<allocated, numDevices, array, memory, fault>>
      /\ UNCHANGED <<step, held, scans, pending, listener, lost>>
  BY DEF Cancel, shared, receiver
<1>3. OwnerTypes' /\ ListenerTypes'
  BY <1>1, <1>2 DEF RestInv, OwnerTypes, ListenerTypes, memory, Block
<1>4. HeldInv' /\ ListenerInv' /\ StepInv'
  <2>1. ListenerInv'
    <3>1. workers' # <<>> <=> workers # <<>>
      BY <1>2, TypeParts DEF Disturb, LifeInv, WorkerTypeOK
    <3>2. Len(workers') = Len(workers)
      BY <1>2, TypeParts DEF Disturb, LifeInv, WorkerTypeOK
    <3>3. QED
      BY <1>1, <1>2, <3>1, <3>2 DEF RestInv, ListenerInv, Freeing
  <2>2. QED
    BY <1>1, <1>2, <2>1 DEF RestInv, HeldInv, StepInv, Scanning
<1>5. ArrayInv' /\ ScanInv'
  BY <1>1, <1>2, ArrayFrame DEF RestInv, Plain
<1>6. RestInv'
  BY <1>3, <1>4, <1>5 DEF RestInv
<1>7. QED
  BY <1>2, <1>6, OwnerBegins

LEMMA StopFailsStep ==
  ASSUME LifeInv, fault = "none", StopFails
  PROVE  LifeInv'
<1>1. RestInv
  BY RestOfLife
<1>2. /\ owner \in {"idle", "joining"} /\ owner' = "failed"
      /\ UNCHANGED <<shared, allocated, numDevices, array, memory, workers, fault>>
      /\ UNCHANGED <<step, held, scans, pending, listener, cancelled, lost>>
  BY DEF StopFails, shared, receiver, listenerVars
<1>3. OwnerTypes' /\ ListenerTypes'
  BY <1>1, <1>2 DEF RestInv, OwnerTypes, ListenerTypes, memory, Block
<1>4. HeldInv' /\ ListenerInv' /\ StepInv'
  BY <1>1, <1>2 DEF RestInv, HeldInv, ListenerInv, StepInv, Scanning, Freeing
<1>5. ArrayInv' /\ ScanInv'
  BY <1>1, <1>2, ArrayFrame DEF RestInv, Plain
<1>6. RestInv'
  BY <1>3, <1>4, <1>5 DEF RestInv
<1>7. CASE owner = "joining"
  BY <1>1, <1>2, <1>6, <1>7, OwnerAtWork, Lengths DEF memory, OwnerRests, RestInv
<1>8. CASE owner = "idle"
  <2>1. WorkersInv'
    <3> SUFFICES ASSUME NEW w \in DOMAIN workers
                 PROVE  /\ workers'[w].calm /\ Active(w)' => InPeace(workers[w])'
                        /\ workers'[w].at = "faulted" =>
                             ~workers'[w].calm \/ ~workers'[w].intact
      BY <1>2 DEF WorkersInv
    <3>1. PICK k : k = workers[w]
      OBVIOUS
    <3>2. workers'[w] = k
      BY <1>2, <3>1
    <3>3. InPeace(k) => InPeace(k)'
      BY <1>2, <1>8 DEF InPeace, OwnerRests, OldCells, memory
    <3>4. InPeace(workers[w]) => InPeace(workers[w])'
      BY <3>1, <3>2, <3>3 DEF InPeace
    <3>5. QED
      BY <3>1, <3>2, <3>4 DEF LifeInv, WorkersInv, Active
  <2>2. WorkerTypeOK' /\ Len(workers') <= MaxEvents
    BY <1>2, TypeParts DEF LifeInv, WorkerTypeOK, Worker, memory
  <2>3. TypeOK'
    BY <1>2, <1>6, <2>2, TypeParts, TypePartsNext DEF LifeInv, RestInv
  <2>4. QED
    BY <1>2, <1>6, <2>1, <2>3 DEF LifeInv, RestInv
<1>9. QED
  BY <1>2, <1>7, <1>8

LEMMA JoinStep ==
  ASSUME LifeInv, fault = "none", Join
  PROVE  LifeInv'
<1>1. RestInv /\ LastIndex \in Nat
  BY RestOfLife, DispatchAssumption
<1>2. /\ owner = "joining" /\ listener = "ended" /\ owner' = "closing" /\ step' = 1
      /\ UNCHANGED <<allocated, numDevices, array, memory, workers, fault>>
      /\ UNCHANGED <<held, scans, pending, listener, cancelled, lost>>
  BY DEF Join, shared, receiver, listenerVars
<1>3. OwnerTypes' /\ ListenerTypes'
  <2>1. step' \in 0..(LastIndex + 8)
    BY <1>1, <1>2
  <2>2. QED
    BY <1>1, <1>2, <2>1 DEF RestInv, OwnerTypes, ListenerTypes, memory, Block
<1>4. HeldInv'
  <2>1. Closed(step)' = Closed(step')
    BY DEF Closed
  <2>2. Closed(step') = {} /\ step' \in 1..3
    <3>1. step' = 1 /\ 1 \in 1..3
      BY <1>2
    <3>2. QED
      BY <3>1, DescriptorFacts, Zenon
  <2>3. held' = Resources \ Closed(step)'
    BY <1>1, <1>2, <2>1, <2>2 DEF RestInv, HeldInv, Scanning
  <2>4. QED
    BY <1>1, <1>2, <2>2, <2>3 DEF RestInv, HeldInv, Scanning
<1>5. ListenerInv' /\ StepInv'
  BY <1>1, <1>2 DEF RestInv, ListenerInv, StepInv, Scanning, Freeing
<1>6. ArrayInv' /\ ScanInv'
  BY <1>1, <1>2, ArrayFrame DEF RestInv, Plain
<1>7. RestInv'
  BY <1>3, <1>4, <1>5, <1>6 DEF RestInv
<1>8. QED
  BY <1>1, <1>2, <1>7, OwnerAtWork, Lengths DEF memory, OwnerRests, RestInv

LEMMA CloseFailsStep ==
  ASSUME LifeInv, fault = "none", CloseFails
  PROVE  LifeInv'
<1>1. RestInv
  BY RestOfLife
<1>2. /\ owner = "closing" /\ held' \in {held, held \ {Descriptors[step]}}
      /\ owner' = "failed"
      /\ UNCHANGED <<allocated, numDevices, array, memory, workers, fault>>
      /\ UNCHANGED <<step, scans, pending, listener, cancelled, lost>>
  BY DEF CloseFails, shared, receiver, listenerVars
<1>3. /\ step \in 1..3
      /\ held = Resources \ Closed(step)
  BY <1>1, <1>2 DEF RestInv, HeldInv
<1>4. Resources \ Control \subseteq held' /\ held' \subseteq Resources
  <2>1. step = 1 \/ step = 2 \/ step = 3
    BY <1>3
  <2>2. Closed(step) \subseteq Control /\ Descriptors[step] \in Control
    BY <2>1, DescriptorFacts DEF Control
  <2>3. QED
    BY <1>2, <1>3, <2>2
<1>5. OwnerTypes' /\ ListenerTypes'
  BY <1>1, <1>2, <1>4 DEF RestInv, OwnerTypes, ListenerTypes, memory, Block
<1>6. HeldInv' /\ ListenerInv' /\ StepInv'
  BY <1>1, <1>2, <1>4 DEF RestInv, HeldInv, ListenerInv, StepInv, Scanning, Freeing
<1>7. ArrayInv' /\ ScanInv'
  BY <1>1, <1>2, ArrayFrame DEF RestInv, Plain
<1>8. RestInv'
  BY <1>5, <1>6, <1>7 DEF RestInv
<1>9. QED
  BY <1>1, <1>2, <1>8, OwnerAtWork, Lengths DEF memory, OwnerRests, RestInv

LEMMA CloseStep ==
  ASSUME LifeInv, fault = "none", Close
  PROVE  LifeInv'
<1>1. RestInv /\ LastIndex \in Nat
  BY RestOfLife, DispatchAssumption
<1>2. /\ owner = "closing" /\ held' = held \ {Descriptors[step]}
      /\ UNCHANGED <<allocated, numDevices, array, memory, workers, fault>>
      /\ UNCHANGED <<scans, pending, listener, cancelled, lost>>
  BY DEF Close, CloseThen, shared, receiver, listenerVars
<1>3. \/ step < 3 /\ step' = step + 1 /\ owner' = owner
      \/ ~(step < 3) /\ step' = 1 /\ owner' = "freeing devices"
  BY DescriptorFacts DEF Close, CloseThen
<1>4. /\ step \in 1..3
      /\ held = Resources \ Closed(step)
  BY <1>1, <1>2 DEF RestInv, HeldInv
<1>5. /\ step < 3 => held' = Resources \ Closed(step + 1)
      /\ step = 3 => held' = Resources \ Control
  <2>1. CASE step = 1
    <3>1. step + 1 = 2
      BY <2>1
    <3>2. Closed(step + 1) = Closed(step) \cup {Descriptors[step]}
      BY <2>1, <3>1, DescriptorFacts
    <3>3. QED
      BY <1>2, <1>4, <2>1, <3>2
  <2>2. CASE step = 2
    <3>1. step + 1 = 3
      BY <2>2
    <3>2. Closed(step + 1) = Closed(step) \cup {Descriptors[step]}
      BY <2>2, <3>1, DescriptorFacts
    <3>3. QED
      BY <1>2, <1>4, <2>2, <3>2
  <2>3. CASE step = 3
    <3>1. Closed(step) \cup {Descriptors[step]} = Control
      BY <2>3, DescriptorFacts DEF Control
    <3>2. QED
      BY <1>2, <1>4, <2>3, <3>1
  <2>4. QED
    BY <1>4, <2>1, <2>2, <2>3
<1>6. OwnerTypes' /\ ListenerTypes'
  <2>1. step' \in 0..(LastIndex + 8)
    <3>1. step' = step + 1 \/ step' = 1
      BY <1>3
    <3>2. step \in Nat /\ step <= 3
      BY <1>4
    <3>3. QED
      BY <1>1, <3>1, <3>2
  <2>2. held' \subseteq Resources /\ owner' \in {"closing", "freeing devices"}
    BY <1>2, <1>3, <1>4
  <2>3. QED
    BY <1>1, <1>2, <2>1, <2>2 DEF RestInv, OwnerTypes, ListenerTypes, memory, Block
<1>7. ListenerInv'
  BY <1>1, <1>2, <1>3 DEF RestInv, ListenerInv, Freeing
<1>8. HeldInv' /\ StepInv' /\ ArrayInv' /\ ScanInv'
  <2>1. CASE step < 3
    <3>0. step' = step + 1 /\ owner' = "closing"
      BY <1>2, <1>3, <2>1
    <3>1. HeldInv'
      <4>1. Closed(step)' = Closed(step')
        BY DEF Closed
      <4>2. step' \in 1..3
        BY <1>4, <2>1, <3>0
      <4>3. held' = Resources \ Closed(step)'
        BY <1>5, <2>1, <3>0, <4>1
      <4>4. QED
        BY <1>1, <1>2, <3>0, <4>2, <4>3 DEF RestInv, HeldInv, Scanning
    <3>2. StepInv'
      BY <1>2, <1>3, <2>1 DEF StepInv, Scanning
    <3>3. ArrayInv' /\ ScanInv'
      BY <1>1, <1>2, <1>3, <2>1, ArrayFrame DEF RestInv, Plain
    <3>4. QED
      BY <3>1, <3>2, <3>3
  <2>2. CASE step = 3
    <3>0. owner' = "freeing devices" /\ step' = 1
      <4>1. ~(step < 3)
        BY <2>2
      <4>2. QED
        BY <1>3, <4>1, Zenon
    <3>1. HeldInv'
      BY <1>1, <1>2, <1>5, <2>2, <3>0 DEF RestInv, HeldInv, Scanning
    <3>2. StepInv'
      <4>1. numDevices' \in Nat
        BY <1>1, <1>2, Lengths DEF RestInv
      <4>2. \A n \in Nat : 1 \in 1..(n + 1)
        OBVIOUS
      <4>3. step' \in 1..(numDevices' + 1)
        BY <3>0, <4>1, <4>2, Zenon
      <4>4. QED
        BY <3>0, <4>3 DEF StepInv, Scanning
    <3>3. /\ OldCells' = OldCells /\ Filled = Len(OldCells) /\ Filled' = Len(OldCells)
          /\ ~DeviceWaits /\ ~DeviceWaits' /\ ~CountPending /\ ~CountPending'
      BY <1>2, <3>0
      DEF OldCells, Filled, DeviceWaits, CellPending, CountPending, memory
    <3>4. 1..(1 - 1) = {}
      OBVIOUS
    <3>5. deviceFree' = {OldCells'[n] : n \in 1..(step' - 1)}
      BY <1>1, <1>2, <3>0, <3>4 DEF RestInv, ArrayInv, memory
    <3>6. ArrayInv'
      BY <1>1, <1>2, <3>0, <3>3, <3>5 DEF RestInv, ArrayInv, memory
    <3>7. ScanInv'
      BY <1>1, <1>2, <3>0, <3>3 DEF RestInv, ScanInv, memory
    <3>8. QED
      BY <3>1, <3>2, <3>6, <3>7
  <2>3. QED
    BY <1>4, <2>1, <2>2
<1>9. RestInv'
  BY <1>6, <1>7, <1>8 DEF RestInv
<1>10. QED
  BY <1>1, <1>2, <1>9, OwnerAtWork, Lengths DEF memory, OwnerRests, RestInv

\* A free loop at its n-th device has one in hand that it has not freed.
LEMMA FreeDeviceStep ==
  ASSUME LifeInv, fault = "none", FreeDevice
  PROVE  LifeInv'
<1>1. RestInv /\ LastIndex \in Nat
  BY RestOfLife, DispatchAssumption
<1> DEFINE d == OldCells[step]
<1>2. /\ owner = "freeing devices" /\ step <= numDevices /\ step' = step + 1
      /\ deviceFree' = deviceFree \cup {d}
      /\ fault' = IF d # 0 /\ d \notin deviceFree THEN fault ELSE "owner"
      /\ UNCHANGED <<allocated, numDevices, array, blocks, devices, workers, owner>>
      /\ UNCHANGED <<held, scans, pending, listener, cancelled, lost>>
  BY DEF FreeDevice, receiver, listenerVars
<1>3. /\ numDevices \in 0..LastIndex /\ step \in 1..(numDevices + 1)
      /\ step \in 1..numDevices /\ numDevices \in Nat
      /\ DOMAIN devices = 1..Len(devices) /\ Len(devices) \in Nat
      /\ Len(blocks) \in Nat
  <2>1. step \in 1..(numDevices + 1)
    BY <1>1, <1>2 DEF RestInv, StepInv
  <2>2. numDevices \in 0..LastIndex
    BY <1>1, Zenon DEF RestInv, OwnerTypes
  <2>3. /\ DOMAIN devices = 1..Len(devices) /\ Len(devices) \in Nat
        /\ Len(blocks) \in Nat /\ numDevices \in Nat
    BY <1>1, Lengths DEF RestInv
  <2>4. step <= numDevices
    BY <1>2
  <2>5. step \in 1..numDevices
    BY <2>1, <2>3, <2>4
  <2>6. QED
    BY <2>1, <2>2, <2>3, <2>5
<1>4. /\ Len(OldCells) = numDevices
      /\ \A n \in 1..numDevices : OldCells[n] # 0
      /\ \A m, n \in 1..numDevices : m < n => OldCells[m] < OldCells[n]
      /\ deviceFree = {OldCells[n] : n \in 1..(step - 1)}
  BY <1>1, <1>2 DEF RestInv, ArrayInv, Filled, CellPending, CountPending
<1>5. \A n \in 1..numDevices : OldCells[n] \in 1..Len(devices)
  BY <1>1, <1>3, <1>4, OldCellsType DEF RestInv
<1>6. d \in DOMAIN devices /\ d # 0
  BY <1>3, <1>5
<1>7. d \notin deviceFree
  <2> SUFFICES ASSUME NEW n \in 1..(step - 1)
               PROVE  OldCells[n] # d
    BY <1>4
  <2>1. n \in 1..numDevices /\ n < step
    BY <1>3
  <2>2. OldCells[n] < d /\ OldCells[n] \in Nat /\ d \in Nat
    BY <1>3, <1>4, <1>5, <2>1
  <2>3. QED
    BY <2>2
<1>8. fault' = fault
  BY <1>2, <1>6, <1>7
<1>9. OldCells' = OldCells
  BY <1>2 DEF OldCells
<1>10. deviceFree' = {OldCells'[n] : n \in 1..(step' - 1)}
  <2>1. 1..(step' - 1) = 1..(step - 1) \cup {step}
    <3>1. step \in 1..numDevices /\ numDevices \in Nat
      BY <1>3
    <3>2. step' = step + 1
      BY <1>2
    <3>3. QED
      BY <3>1, <3>2
  <2>2. QED
    BY <1>2, <1>4, <1>9, <2>1
<1>11. step' \in 1..(numDevices + 1) /\ step' \in 0..(LastIndex + 8)
  <2>1. step \in 1..numDevices /\ numDevices \in 0..LastIndex /\ LastIndex \in Nat
    BY <1>1, <1>3
  <2>2. step' = step + 1
    BY <1>2
  <2>3. QED
    BY <2>1, <2>2
<1> HIDE DEF d
<1>12. OwnerTypes' /\ ListenerTypes'
  BY <1>1, <1>2, <1>6, <1>11 DEF RestInv, OwnerTypes, ListenerTypes, Block
<1>13. HeldInv' /\ ListenerInv' /\ StepInv'
  BY <1>1, <1>2, <1>11 DEF RestInv, HeldInv, ListenerInv, StepInv, Scanning, Freeing
<1>14. /\ Filled' = Filled /\ DeviceWaits' = DeviceWaits
       /\ CountPending' = CountPending
  BY <1>2, <1>9 DEF Filled, DeviceWaits, CellPending, CountPending
<1>15. ArrayInv' /\ ScanInv'
  <2>1. ArrayInv'
    BY <1>1, <1>2, <1>9, <1>10, <1>14 DEF RestInv, ArrayInv
  <2>2. ScanInv'
    BY <1>1, <1>2, <1>9, <1>14 DEF RestInv, ScanInv
  <2>3. QED
    BY <2>1, <2>2
<1>16. RestInv'
  BY <1>12, <1>13, <1>15 DEF RestInv
<1>17. Len(blocks) <= Len(blocks') /\ Len(devices) <= Len(devices') /\ ~OwnerRests
  <2>1. Len(blocks) \in Nat /\ Len(devices) \in Nat
    BY <1>3
  <2>2. Len(blocks') = Len(blocks) /\ Len(devices') = Len(devices) /\ ~OwnerRests
    BY <1>2 DEF OwnerRests
  <2>3. QED
    BY <2>1, <2>2
<1>18. QED
  BY <1>2, <1>8, <1>16, <1>17, OwnerAtWork

LEMMA FreeArrayStep ==
  ASSUME LifeInv, fault = "none", FreeArray
  PROVE  LifeInv'
<1>1. RestInv
  BY RestOfLife
<1>2. /\ owner = "freeing devices" /\ step > numDevices /\ owner' = "freeing receiver"
      /\ blocks' = [b \in DOMAIN blocks |-> [blocks[b] EXCEPT !.live = @ /\ b # array]]
      /\ UNCHANGED <<allocated, numDevices, array, devices, deviceFree, workers, fault>>
      /\ UNCHANGED <<step, held, scans, pending, listener, cancelled, lost>>
  BY DEF FreeArray, receiver, listenerVars
<1>3. /\ Len(blocks) \in Nat /\ DOMAIN blocks = 1..Len(blocks)
      /\ Len(devices) \in Nat /\ numDevices \in Nat
  BY <1>1, Lengths DEF RestInv
<1>4. array \in 0..Len(blocks) /\ blocks \in Seq(Block)
  BY <1>1, Zenon DEF RestInv, OwnerTypes
<1>5. \A b \in DOMAIN blocks : blocks[b] \in Block
  BY <1>4, ElementOfSeq, <1>3
<1>6. \A b \in DOMAIN blocks : /\ blocks'[b] \in Block
                               /\ blocks'[b].cells = blocks[b].cells
                               /\ blocks'[b].scan = blocks[b].scan
                               /\ blocks'[b].live <=> blocks[b].live /\ b # array
  BY <1>2, <1>5 DEF Block
<1>7. DOMAIN blocks' = DOMAIN blocks /\ Len(blocks') = Len(blocks)
      /\ blocks' \in Seq(Block)
  <2>1. blocks' \in [1..Len(blocks) -> Block]
    BY <1>2, <1>3, <1>6
  <2>2. QED
    BY <1>3, <2>1, SeqDef, LenProperties
<1>8. OldCells' = OldCells
  <2>1. array # 0 => array \in DOMAIN blocks
    BY <1>3, <1>4
  <2>2. array # 0 => blocks'[array].cells = blocks[array].cells
    BY <1>6, <2>1
  <2>3. array' = array
    BY <1>2
  <2>4. QED
    BY <2>2, <2>3 DEF OldCells
<1>9. step - 1 = numDevices
  <2>1. step \in 1..(numDevices + 1)
    BY <1>1, <1>2 DEF RestInv, StepInv
  <2>2. step > numDevices /\ numDevices \in Nat
    BY <1>2, <1>3
  <2>3. QED
    BY <2>1, <2>2
<1>10. OwnerTypes'
  <2>1. Block' = Block
    BY <1>2 DEF Block
  <2>2. blocks' \in Seq(Block') /\ array' \in 0..Len(blocks')
    BY <1>2, <1>4, <1>7, <2>1
  <2>3. QED
    BY <1>1, <1>2, <2>2 DEF RestInv, OwnerTypes
<1>11. ListenerTypes' /\ HeldInv' /\ ListenerInv' /\ StepInv'
  BY <1>1, <1>2
  DEF RestInv, ListenerTypes, HeldInv, ListenerInv, StepInv, Scanning, Freeing
<1>12. /\ Filled' = Filled /\ Filled = Len(OldCells)
       /\ ~DeviceWaits /\ ~DeviceWaits' /\ ~CountPending /\ ~CountPending'
  BY <1>2, <1>8 DEF Filled, DeviceWaits, CellPending, CountPending
<1>13. ArrayInv'
  <2>1. deviceFree' = {OldCells'[n] : n \in 1..numDevices'}
    BY <1>1, <1>2, <1>8, <1>9 DEF RestInv, ArrayInv
  <2>2. QED
    BY <1>1, <1>2, <1>8, <1>12, <2>1 DEF RestInv, ArrayInv
<1>14. ScanInv'
  <2>1. \A b \in DOMAIN blocks : blocks[b].live => blocks[b].scan < scans \/ b = array
    BY <1>1, <1>2 DEF RestInv, ScanInv
  <2>2. ASSUME NEW b \in DOMAIN blocks'
        PROVE  /\ blocks'[b].scan <= scans'
               /\ blocks'[b].live => blocks'[b].scan < scans'
    <3>1. /\ b \in DOMAIN blocks /\ blocks'[b].scan = blocks[b].scan
          /\ blocks'[b].live <=> blocks[b].live /\ b # array
      BY <1>6, <1>7
    <3>2. blocks[b].scan <= scans
      BY <1>1, <3>1 DEF RestInv, ScanInv
    <3>3. scans' = scans
      BY <1>2
    <3>4. QED
      BY <2>1, <3>1, <3>2, <3>3, Zenon
  <2>3. QED
    BY <1>1, <1>2, <1>8, <1>12, <2>2 DEF RestInv, ScanInv
<1>15. RestInv'
  BY <1>10, <1>11, <1>13, <1>14 DEF RestInv
<1>16. Len(blocks) <= Len(blocks') /\ Len(devices) <= Len(devices') /\ ~OwnerRests
  <2>1. Len(blocks) \in Nat /\ Len(devices) \in Nat
    BY <1>3
  <2>2. Len(blocks') = Len(blocks) /\ Len(devices') = Len(devices) /\ ~OwnerRests
    BY <1>2, <1>7 DEF OwnerRests
  <2>3. QED
    BY <2>1, <2>2
<1>17. QED
  BY <1>2, <1>15, <1>16, OwnerAtWork

LEMMA FreeReceiverStep ==
  ASSUME LifeInv, fault = "none", FreeReceiver
  PROVE  LifeInv'
<1>1. RestInv
  BY RestOfLife
<1>2. /\ owner = "freeing receiver" /\ owner' = "freed" /\ allocated' = FALSE
      /\ held' = held \ {"devnode", "name", "address", "struct"}
      /\ UNCHANGED <<numDevices, array, blocks, devices, deviceFree, workers, fault>>
      /\ UNCHANGED <<step, scans, pending, listener, cancelled, lost>>
  BY DEF FreeReceiver, memory, listenerVars
<1>3. held' = {}
  BY <1>1, <1>2 DEF RestInv, HeldInv, Resources, Control
<1>4. OwnerTypes' /\ ListenerTypes'
  BY <1>1, <1>2, <1>3 DEF RestInv, OwnerTypes, ListenerTypes, Block
<1>5. HeldInv' /\ ListenerInv' /\ StepInv'
  BY <1>1, <1>2, <1>3 DEF RestInv, HeldInv, ListenerInv, StepInv, Scanning, Freeing
<1>6. OldCells' = OldCells
  BY <1>2 DEF OldCells
<1>7. /\ Filled' = Filled
      /\ ~DeviceWaits /\ ~DeviceWaits' /\ ~CountPending /\ ~CountPending'
  BY <1>2, <1>6 DEF Filled, DeviceWaits, CellPending, CountPending
<1>8. ArrayInv' /\ ScanInv'
  BY <1>1, <1>2, <1>6, <1>7 DEF RestInv, ArrayInv, ScanInv
<1>9. RestInv'
  BY <1>4, <1>5, <1>8 DEF RestInv
<1>10. Len(blocks) <= Len(blocks') /\ Len(devices) <= Len(devices') /\ ~OwnerRests
  <2>1. Len(blocks) \in Nat /\ Len(devices) \in Nat
    BY <1>1, Lengths DEF RestInv
  <2>2. Len(blocks') = Len(blocks) /\ Len(devices') = Len(devices) /\ ~OwnerRests
    BY <1>2 DEF OwnerRests
  <2>3. QED
    BY <2>1, <2>2
<1>11. QED
  BY <1>2, <1>9, <1>10, OwnerAtWork

LEMMA ReleaseStep ==
  ASSUME LifeInv, fault = "none", Release
  PROVE  LifeInv'
  BY JoinStep, CloseStep, CloseFailsStep, FreeDeviceStep, FreeArrayStep, FreeReceiverStep
  DEF Release

-------------------------------------------------------------------------------
(* The invariant holds.                                                    *)

LEMMA LifeInit == ASSUME Init PROVE LifeInv
<1>1. LastIndex \in Nat /\ MaxScans \in Nat /\ MaxEvents \in Nat
  BY DispatchAssumption, LifecycleAssumption
<1>2. OldCells = <<>> /\ Len(OldCells) = 0 /\ 1..0 = {}
  BY DEF Init, OldCells
<1>3. ~CellPending /\ ~CountPending /\ ~DeviceWaits /\ Filled = 0
  BY <1>2 DEF Init, CellPending, CountPending, DeviceWaits, Filled
<1>4. OwnerTypes
  <2>1. {"struct"} \subseteq Resources
    BY DEF Resources
  <2>2. Len(blocks) = 0 /\ blocks \in Seq(Block)
    BY DEF Init
  <2>3. devices \in Seq([index : Indexes, scan : 1..MaxScans])
    BY DEF Init
  <2>4. step \in 0..(LastIndex + 8) /\ numDevices \in 0..LastIndex /\ scans \in 0..MaxScans
    BY <1>1 DEF Init
  <2>5. QED
    BY <2>1, <2>2, <2>3, <2>4 DEF Init, OwnerTypes
<1>5. ListenerTypes
  <2>1. listener = "none" /\ cancelled = FALSE /\ lost = 0
    BY DEF Init
  <2>2. lost \in 0..1
    BY <2>1
  <2>3. QED
    BY <2>1, <2>2, Zenon DEF ListenerTypes
<1>6. WorkerTypeOK /\ Len(workers) <= MaxEvents /\ DOMAIN workers = {}
  <2>1. workers = <<>>
    BY DEF Init
  <2>2. QED
    BY <1>1, <2>1 DEF WorkerTypeOK
<1>7. TypeOK /\ fault = "none"
  BY <1>4, <1>5, <1>6, TypeParts DEF Init
<1>8. HeldInv
  BY DEF Init, HeldInv, Acquired, Scanning
<1>9. ListenerInv /\ StepInv
  BY DEF Init, ListenerInv, StepInv, Scanning, Freeing
<1>10. ArrayInv
  BY <1>2, <1>3 DEF Init, ArrayInv
<1>11. ScanInv
  <2>1. DOMAIN devices = {} /\ DOMAIN blocks = {}
    BY DEF Init
  <2>2. QED
    BY <1>2, <1>3, <2>1 DEF Init, ScanInv
<1>12. WorkersInv
  BY <1>6, <1>7 DEF WorkersInv
<1>13. QED
  BY <1>7, <1>8, <1>9, <1>10, <1>11, <1>12 DEF LifeInv

LEMMA LifeStep == ASSUME LifeInv, [Next]_vars PROVE LifeInv'
<1>1. CASE UNCHANGED vars
  <2>1. UNCHANGED <<shared, ownerVars, workers, fault>>
        /\ UNCHANGED <<listener, cancelled, lost>>
    BY <1>1 DEF vars, listenerVars
  <2>2. ListenerTypes' /\ ListenerInv'
    BY <2>1, TypeParts DEF LifeInv, ListenerTypes, ListenerInv, ownerVars
  <2>3. QED
    BY <2>1, <2>2, ListenerFrame
<1>2. CASE Next
  <2>1. fault = "none"
    BY <1>2 DEF Next, Running
  <2>2. CASE Construct
    BY <2>1, <2>2, ConstructStep
  <2>3. CASE Scan
    BY <2>1, <2>3, ScanStep
  <2>4. CASE Cancel
    BY <2>1, <2>4, CancelStep
  <2>5. CASE StopFails
    BY <2>1, <2>5, StopFailsStep
  <2>6. CASE Release
    BY <2>1, <2>6, ReleaseStep
  <2>7. CASE Listener
    <3>1. CASE ReadEvent \/ ReadControl \/ ControlWritten \/ ReadFails \/ Cancelled
                 \/ AttributesFail \/ StartFails \/ AttributesDestroyed
      BY <2>1, <3>1, ListenerMoves
    <3>2. CASE DestroyFails
      BY <2>1, <3>2, DestroyFailsStep
    <3>3. ASSUME NEW i \in 0..LastIndex, NEW p \in Presses, StartWorker(i, p)
          PROVE  LifeInv'
      BY <2>1, <3>3, StartWorkerStep
    <3>4. QED
      BY <2>7, <3>1, <3>2, <3>3, Zenon DEF Listener, Dispatch
  <2>8. ASSUME NEW w \in DOMAIN workers, WorkerStep(w)
        PROVE  LifeInv'
    BY <2>1, <2>8, WorkStep DEF WorkerStep
  <2>9. QED
    BY <1>2, <2>2, <2>3, <2>4, <2>5, <2>6, <2>7, <2>8, Zenon DEF Next, Workers
<1>3. QED
  BY <1>1, <1>2

LEMMA Life == Spec => []LifeInv
<1>1. Init => LifeInv
  BY LifeInit
<1>2. LifeInv /\ [Next]_vars => LifeInv'
  BY LifeStep
<1>3. QED
  BY <1>1, <1>2, PTL DEF Spec

-------------------------------------------------------------------------------
(* What follows from it.                                                   *)

\* Every variable keeps its type, for every number of indexes, scans and events.
THEOREM TypeCorrect == Spec => []TypeOK
<1>1. LifeInv => TypeOK
  BY DEF LifeInv
<1>2. QED
  BY <1>1, Life, PTL

\* slavery_receiver_from_devnode: wherever it fails, only the copy of the devnode is
\* left of what it has acquired, and no thread.
THEOREM NullCorrect == Spec => []NullLeavesLittle
<1>1. LifeInv => NullLeavesLittle
  BY DEF LifeInv, HeldInv, ListenerInv, NullLeavesLittle
<1>2. QED
  BY <1>1, Life, PTL

\* slavery_event_dispatch, slavery_receiver_scan_devices and slavery_receiver_free:
\* the owner never misuses memory, and a worker or the listener only where the owner
\* was at work in the worker's time or pthread_attr_destroy failed.
THEOREM FaultsCorrect == Spec => []FaultsExplained
<1>1. LifeInv => FaultsExplained
  BY DEF LifeInv, WorkersInv, FaultsExplained
<1>2. QED
  BY <1>1, Life, PTL

LEMMA FreedDevices ==
  ASSUME LifeInv, owner = "freed"
  PROVE  Remaining = {d \in DOMAIN devices : devices[d].scan < scans}
<1>1. /\ Filled = Len(OldCells) /\ ~DeviceWaits /\ ~CountPending
  BY DEF Filled, CellPending, CountPending, DeviceWaits
<1>2. Len(OldCells) = numDevices /\ deviceFree = {OldCells[n] : n \in 1..numDevices}
  BY <1>1 DEF LifeInv, ArrayInv
<1>3. \A d \in DOMAIN devices : devices[d].scan \in Nat /\ scans \in Nat
  <2>1. devices \in Seq([index : Indexes, scan : 1..MaxScans]) /\ OwnerTypes
    BY TypeParts DEF LifeInv, OwnerTypes
  <2>2. \A d \in DOMAIN devices : devices[d] \in [index : Indexes, scan : 1..MaxScans]
    BY <2>1, ElementOfSeq, Lengths
  <2>3. QED
    BY <2>1, <2>2, Lengths, LifecycleAssumption
<1>4. \A d \in DOMAIN devices : d \in deviceFree <=> devices[d].scan = scans
  BY <1>1, <1>2 DEF LifeInv, ScanInv
<1>5. \A d \in DOMAIN devices : devices[d].scan <= scans
  BY DEF LifeInv, ScanInv
<1>6. QED
  BY <1>3, <1>4, <1>5 DEF Remaining

\* slavery_receiver_free: 0 means that all of the last scan is given back, -1 that
\* nothing is that a worker uses.
THEOREM ReturnsCorrect == Spec => []FreeReturns
<1>1. ASSUME LifeInv, owner = "freed"
      PROVE  /\ held = {}
             /\ \A b \in DOMAIN blocks : blocks[b].live => blocks[b].scan < scans
             /\ listener = "ended"
             /\ lost = 1 => cancelled
  BY <1>1 DEF LifeInv, HeldInv, ScanInv, ListenerInv, Freeing
<1>2. ASSUME LifeInv, owner = "failed"
      PROVE  /\ allocated
             /\ Resources \ {"fd", "read end", "write end"} \subseteq held
             /\ deviceFree = {}
  BY <1>2 DEF LifeInv, HeldInv, ArrayInv, Control
<1>3. LifeInv => FreeReturns
  BY <1>1, <1>2, FreedDevices DEF FreeReturns
<1>4. QED
  BY <1>3, Life, PTL

LEMMA FinishesRight ==
  ASSUME LifeInv, NEW w \in DOMAIN workers, workers[w].calm, Finish(w)
  PROVE  /\ workers'[w].report = Meant(workers[w])
         /\ \A d \in ListedFor(workers[w].index) : devices[d].scan = scans
<1>1. workers[w].at = "pressing"
  BY DEF Finish
<1>2. InPeace(workers[w]) /\ OwnerRests /\ workers[w].position = numDevices
  BY <1>1 DEF LifeInv, WorkersInv, Active, InPeace
<1>3. workers'[w].report = Pressed(workers[w])
  <2>1. workers[w] \in Worker
    BY WorkerFields, TypeParts DEF LifeInv
  <2>2. workers' = [workers EXCEPT ![w] = [workers[w] EXCEPT !.at = "done",
                                                    !.report = Pressed(workers[w])]]
    BY DEF Finish, Become
  <2>3. [workers[w] EXCEPT !.at = "done", !.report = Pressed(workers[w])].report
          = Pressed(workers[w])
    BY <2>1 DEF Worker
  <2>4. QED
    BY <2>2, <2>3
<1>4. CASE workers[w].device = 0
  <2>1. ListedFor(workers[w].index) = {}
    BY <1>2, <1>4 DEF InPeace, ListedFor
  <2>2. QED
    BY <1>3, <1>4, <2>1 DEF Meant, Pressed
<1>5. CASE workers[w].device # 0
  <2>1. PICK n \in 1..numDevices : OldCells[n] = workers[w].device
    BY <1>2, <1>5 DEF InPeace
  <2>2. devices[workers[w].device].index = workers[w].index
    BY <1>2, <1>5 DEF InPeace
  <2>3. workers[w].device \in ListedFor(workers[w].index)
    BY <2>1, <2>2 DEF ListedFor
  <2>4. workers'[w].report = Meant(workers[w])
    BY <1>3, <1>5, <2>2, <2>3 DEF Meant, Pressed
  <2>5. \A d \in ListedFor(workers[w].index) : devices[d].scan = scans
    BY <1>2, AtRest DEF ListedFor
  <2>6. QED
    BY <2>4, <2>5
<1>6. QED
  BY <1>4, <1>5

\* slavery_event_dispatch: a worker that nobody disturbs reports what was pressed on
\* the device that its event is of.
THEOREM RecognisedCorrect == Spec => Recognised
<1>1. LifeInv =>
        \A w \in DOMAIN workers :
          workers[w].calm /\ Finish(w) =>
            /\ workers'[w].report = Meant(workers[w])
            /\ \A d \in ListedFor(workers[w].index) : devices[d].scan = scans
  BY FinishesRight
<1>2. QED
  BY <1>1, Life, PTL DEF Recognised
===============================================================================
