-------------------------- MODULE ReceiverLifecycle --------------------------
(***************************************************************************)
(* The life of one slavery_receiver_t: its owner makes it                  *)
(* (slavery_receiver_from_devnode), scans its devices, perhaps again, and  *)
(* frees it (slavery_receiver_free), while its listener thread starts the  *)
(* workers of EventDispatch.  One thread is the owner at any time; what    *)
(* happens when there are two is ReceiverRegistry's.                       *)
(*                                                                         *)
(* What a device is asked is DeviceScan's, what a control report is for is *)
(* ControlChannel's: here a device is found or it is not, and a report to  *)
(* the control pipe is a write that may block.                             *)
(***************************************************************************)
EXTENDS EventDispatch

CONSTANTS
  MaxScans,  \* bound: calls of slavery_receiver_scan_devices
  MaxEvents, \* bound: button events
  Presses    \* the sets of buttons that an event may report as pressed

ASSUME LifecycleAssumption ==
  /\ MaxScans \in Nat
  /\ MaxEvents \in Nat
  /\ Presses \subseteq SUBSET Cids

VARIABLES
  owner,     \* where the owner is
  step,      \* its place in Acquisitions or Descriptors, or device_index
  held,      \* descriptors and blocks of the receiver not yet given back
  scans,     \* scans begun
  pending,   \* what is left of receiver->devices[receiver->num_devices++] = device
  listener,  \* where the listener thread is
  cancelled, \* has pthread_cancel been called?
  lost       \* history: events that nobody will free

ownerVars    == <<owner, step, held, scans, pending>>
listenerVars == <<listener, cancelled, lost>>
vars == <<shared, workers, fault, ownerVars, listenerVars>>

-------------------------------------------------------------------------------
(* slavery_receiver_from_devnode.                                          *)

\* The calls that can fail, in order: what is acquired between one of them and the
\* next, and what is given back when it fails.
Acquisitions ==
  << [call |-> "open",            gets |-> {"fd"},              undo |-> {"struct"}],
     [call |-> "HIDIOCGRAWINFO",  gets |-> {},                  undo |-> {"fd", "struct"}],
     [call |-> "match",           gets |-> {"devnode", "name"}, undo |-> {"fd", "struct"}],
     [call |-> "HIDIOCGRAWNAME",  gets |-> {"address"},         undo |-> {"fd", "name", "struct"}],
     [call |-> "HIDIOCGRAWPHYS",  gets |-> {},                  undo |-> {"fd", "name", "address", "struct"}],
     [call |-> "pipe2",           gets |-> {"read end", "write end"},
                                                                undo |-> {"fd", "name", "address", "struct"}],
     [call |-> "report descriptor", gets |-> {},
        undo |-> {"read end", "write end", "fd", "name", "address", "struct"}],
     [call |-> "pthread_create",  gets |-> {},
        undo |-> {"read end", "write end", "fd", "name", "address", "struct"}] >>

Init ==
  /\ allocated = TRUE
  /\ numDevices = 0
  /\ array = 0
  /\ blocks = <<>>
  /\ devices = <<>>
  /\ deviceFree = {}
  /\ workers = <<>>
  /\ fault = "none"
  /\ owner = "constructing"
  /\ step = 1
  /\ held = {"struct"}
  /\ scans = 0
  /\ pending = {}
  /\ listener = "none"
  /\ cancelled = FALSE
  /\ lost = 0

Acquire ==
  /\ owner = "constructing"
  /\ held' = held \cup Acquisitions[step].gets
  /\ IF step < Len(Acquisitions)
     THEN step' = step + 1 /\ UNCHANGED <<owner, listener>>
     ELSE step' = 0 /\ owner' = "idle" /\ listener' = "reading"
  /\ UNCHANGED <<shared, workers, fault, scans, pending, cancelled, lost>>

\* The call fails: NULL is returned.  To give back what is not held is a fault.
ReturnNull(undo) ==
  /\ owner = "constructing"
  /\ held' = held \ undo
  /\ fault' = IF undo \subseteq held THEN "none" ELSE "owner"
  /\ owner' = "null"
  /\ allocated' = FALSE
  /\ UNCHANGED <<numDevices, array, memory, workers, step, scans, pending, listenerVars>>

MutantAcquireFails == ReturnNull(Acquisitions[step].undo \ {"write end"})

AcquireFails == ReturnNull(Acquisitions[step].undo)

-------------------------------------------------------------------------------
(* slavery_receiver_scan_devices.                                          *)

\* Whoever is at work then is at work while the array changes.
Disturb == [w \in DOMAIN workers |-> [workers[w] EXCEPT !.calm = @ /\ ~Active(w)]]

MutantResetCount ==
  /\ owner = "idle"
  /\ scans < MaxScans
  /\ scans' = scans + 1
  /\ owner' = "clearing"
  /\ workers' = Disturb
  /\ UNCHANGED <<receiver, memory, fault, step, held, pending, listenerVars>>

ResetCount ==
  /\ owner = "idle"
  /\ scans < MaxScans
  /\ scans' = scans + 1
  /\ numDevices' = 0
  /\ owner' = "clearing"
  /\ workers' = Disturb
  /\ UNCHANGED <<allocated, array, memory, fault, step, held, pending, listenerVars>>

ResetArray ==
  /\ owner = "clearing"
  /\ array' = 0
  /\ owner' = "detecting"
  /\ step' = 1
  /\ UNCHANGED <<allocated, numDevices, memory, workers, fault, held, scans, pending,
                 listenerVars>>

\* slavery_receiver_get_device returns NULL ...
NotDetected ==
  /\ owner = "detecting"
  /\ step <= LastIndex
  /\ step' = step + 1
  /\ UNCHANGED <<shared, workers, fault, owner, held, scans, pending, listenerVars>>

\* ... or a device.
Detected ==
  /\ owner = "detecting"
  /\ step <= LastIndex
  /\ devices' = Append(devices, [index |-> step, scan |-> scans])
  /\ owner' = "growing"
  /\ UNCHANGED <<receiver, blocks, deviceFree, workers, fault, step, held, scans, pending,
                 listenerVars>>

OldCells == IF array = 0 THEN <<>> ELSE blocks[array].cells

NewCells == [i \in 1..(numDevices + 1) |-> IF i <= Len(OldCells) THEN OldCells[i] ELSE 0]

\* realloc: where the array is, or elsewhere.  Between its freeing the old block and
\* the store to receiver->devices, a worker still reads the old address.
GrowInPlace ==
  /\ owner = "growing"
  /\ array # 0
  /\ blocks' = [blocks EXCEPT ![array].cells = NewCells]
  /\ owner' = "storing"
  /\ pending' = {"cell", "count"}
  /\ UNCHANGED <<receiver, devices, deviceFree, workers, fault, step, held, scans,
                 listenerVars>>

GrowElsewhere ==
  /\ owner = "growing"
  /\ blocks' = Append([b \in DOMAIN blocks |->
                         [blocks[b] EXCEPT !.live = @ /\ b # array]],
                      [cells |-> NewCells, live |-> TRUE, scan |-> scans])
  /\ owner' = "moving"
  /\ UNCHANGED <<receiver, devices, deviceFree, workers, fault, step, held, scans, pending,
                 listenerVars>>

ArrayGrown ==
  /\ owner = "moving"
  /\ array' = Len(blocks)
  /\ owner' = "storing"
  /\ pending' = {"cell", "count"}
  /\ UNCHANGED <<allocated, numDevices, memory, workers, fault, step, held, scans,
                 listenerVars>>

\* The two side effects of the assignment are unsequenced.
Stored(what) ==
  /\ owner = "storing"
  /\ what \in pending
  /\ pending' = pending \ {what}
  /\ IF pending = {what}
     THEN owner' = "detecting" /\ step' = step + 1
     ELSE UNCHANGED <<owner, step>>
  /\ UNCHANGED <<allocated, array, devices, deviceFree, workers, fault, held, scans,
                 listenerVars>>

\* The cell is that of the old count, whichever comes first.
StoreCell ==
  /\ Stored("cell")
  /\ blocks' = [blocks EXCEPT ![array].cells[Len(OldCells)] = Len(devices)]
  /\ UNCHANGED numDevices

StoreCount ==
  /\ Stored("count")
  /\ numDevices' = numDevices + 1
  /\ UNCHANGED blocks

ScanReturns ==
  /\ owner = "detecting"
  /\ step > LastIndex
  /\ owner' = "idle"
  /\ step' = 0
  /\ UNCHANGED <<shared, workers, fault, held, scans, pending, listenerVars>>

-------------------------------------------------------------------------------
(* slavery_receiver_free.                                                  *)

Cancel ==
  /\ owner = "idle"
  /\ owner' = "joining"
  /\ cancelled' = TRUE
  /\ workers' = Disturb
  /\ UNCHANGED <<shared, fault, step, held, scans, pending, listener, lost>>

\* pthread_cancel, but for ESRCH, or pthread_join fails: -1 is returned.
StopFails ==
  /\ owner \in {"idle", "joining"}
  /\ owner' = "failed"
  /\ UNCHANGED <<shared, workers, fault, step, held, scans, pending, listenerVars>>

Join ==
  /\ owner = "joining"
  /\ listener = "ended"
  /\ owner' = "closing"
  /\ step' = 1
  /\ UNCHANGED <<shared, workers, fault, held, scans, pending, listenerVars>>

Descriptors == <<"read end", "write end", "fd">>

\* The last close is followed by the loop over the devices, from the first one.
CloseThen(first) ==
  /\ owner = "closing"
  /\ held' = held \ {Descriptors[step]}
  /\ IF step < Len(Descriptors)
     THEN step' = step + 1 /\ UNCHANGED owner
     ELSE step' = first /\ owner' = "freeing devices"
  /\ UNCHANGED <<shared, workers, fault, scans, pending, listenerVars>>

MutantClose == CloseThen(2)

Close == CloseThen(1)

\* -1 is returned.  Whether the descriptor is closed all the same is not said.
CloseFails ==
  /\ owner = "closing"
  /\ held' \in {held, held \ {Descriptors[step]}}
  /\ owner' = "failed"
  /\ UNCHANGED <<shared, workers, fault, step, scans, pending, listenerVars>>

\* slavery_device_array_free, slavery_device_free
FreeDevice ==
  /\ owner = "freeing devices"
  /\ step <= numDevices
  /\ LET d == OldCells[step]
     IN  /\ deviceFree' = deviceFree \cup {d}
         /\ fault' = IF d # 0 /\ d \notin deviceFree THEN fault ELSE "owner"
  /\ step' = step + 1
  /\ UNCHANGED <<receiver, blocks, devices, workers, owner, held, scans, pending,
                 listenerVars>>

FreeArray ==
  /\ owner = "freeing devices"
  /\ step > numDevices
  /\ blocks' = [b \in DOMAIN blocks |-> [blocks[b] EXCEPT !.live = @ /\ b # array]]
  /\ owner' = "freeing receiver"
  /\ UNCHANGED <<receiver, devices, deviceFree, workers, fault, step, held, scans, pending,
                 listenerVars>>

FreeReceiver ==
  /\ owner = "freeing receiver"
  /\ held' = held \ {"devnode", "name", "address", "struct"}
  /\ allocated' = FALSE
  /\ owner' = "freed"
  /\ UNCHANGED <<numDevices, array, memory, workers, fault, step, scans, pending,
                 listenerVars>>

-------------------------------------------------------------------------------
(* slavery_receiver_listen, where it may be cancelled (deferred, as by       *)
(* default: in read, in write and in the fprintf of a warning), and what it  *)
(* allocates.                                                                *)

ListenerStep(from, to) ==
  /\ listener = from
  /\ listener' = to
  /\ UNCHANGED <<shared, ownerVars, cancelled>>

ReadEvent ==
  /\ Len(workers) < MaxEvents
  /\ ListenerStep("reading", "dispatching")
  /\ UNCHANGED <<workers, fault, lost>>

\* Anything else is passed to the control pipe, where write() waits for room.
ReadControl ==
  /\ ListenerStep("reading", "writing")
  /\ UNCHANGED <<workers, fault, lost>>

ControlWritten ==
  /\ ListenerStep("writing", "reading")
  /\ UNCHANGED <<workers, fault, lost>>

ReadFails ==
  /\ ListenerStep("reading", "ended")
  /\ UNCHANGED <<workers, fault, lost>>

CancelledIn(places) ==
  /\ cancelled
  /\ listener \in places
  /\ ListenerStep(listener, "ended")
  /\ UNCHANGED <<workers, fault, lost>>

MutantCancelled == CancelledIn({"reading"})

Cancelled == CancelledIn({"reading", "writing"})

\* pthread_attr_init or pthread_attr_setdetachstate fails, before there is an event.
AttributesFail ==
  /\ ListenerStep("dispatching", "ended")
  /\ UNCHANGED <<workers, fault, lost>>

\* The owner is not at work on the device array.
OwnerRests == owner \in {"idle", "failed"}

StartWorker(index, pressed) ==
  /\ ListenerStep("dispatching", "started")
  /\ workers' = Append(workers, NewWorker(index, pressed, OwnerRests))
  /\ UNCHANGED <<fault, lost>>

\* pthread_create fails: the event is freed, unless the warning before that is as
\* far as a cancelled listener gets.
StartFails ==
  /\ ListenerStep("dispatching", "ended")
  /\ lost' \in IF cancelled THEN {lost, lost + 1} ELSE {lost}
  /\ UNCHANGED <<workers, fault>>

AttributesDestroyed ==
  /\ ListenerStep("started", "reading")
  /\ UNCHANGED <<workers, fault, lost>>

\* pthread_attr_destroy fails: the event is freed again, or before its worker has
\* read it; again unless the warning is the end of the listener.
DestroyFails ==
  /\ ListenerStep("started", "ended")
  /\ \/ /\ fault' = IF Active(Len(workers)) THEN fault ELSE "listener"
        /\ workers' = [workers EXCEPT ![Len(workers)].intact = FALSE]
     \/ cancelled /\ UNCHANGED <<workers, fault>>
  /\ UNCHANGED lost

-------------------------------------------------------------------------------
Construct == Acquire \/ AcquireFails

Scan ==
  \/ ResetCount \/ ResetArray \/ NotDetected \/ Detected
  \/ GrowInPlace \/ GrowElsewhere \/ ArrayGrown \/ StoreCell \/ StoreCount
  \/ ScanReturns

Release ==
  \/ Join \/ Close \/ CloseFails \/ FreeDevice \/ FreeArray \/ FreeReceiver

Dispatch ==
  \/ AttributesFail \/ StartFails \/ AttributesDestroyed \/ DestroyFails
  \/ \E i \in 0..LastIndex, p \in Presses : StartWorker(i, p)

Listener ==
  ReadEvent \/ ReadControl \/ ControlWritten \/ ReadFails \/ Cancelled \/ Dispatch

WorkerStep(w) == Work(w) /\ UNCHANGED <<ownerVars, listenerVars>>

Workers == \E w \in DOMAIN workers : WorkerStep(w)

Running == fault = "none"

Next ==
  Running /\ (Construct \/ Scan \/ Cancel \/ StopFails \/ Release \/ Listener \/ Workers)

Spec == Init /\ [][Next]_vars

\* Threads run: each worker, the owner once it frees the receiver, and the listener,
\* but for its reads and its writes, which may have to wait.
FairSpec ==
  /\ Spec
  /\ WF_vars(Running /\ Release)
  /\ WF_vars(Running /\ (Cancelled \/ Dispatch))
  /\ \A w \in 1..MaxEvents :
       WF_vars(Running /\ w \in DOMAIN workers /\ WorkerStep(w))

-------------------------------------------------------------------------------
(* Properties.                                                             *)

Resources == {"struct", "fd", "devnode", "name", "address", "read end", "write end"}

\* Types.
TypeOK ==
  /\ allocated \in BOOLEAN
  /\ numDevices \in 0..LastIndex
  /\ array \in 0..Len(blocks)
  /\ blocks \in Seq([cells : Seq(0..Len(devices)), live : BOOLEAN, scan : 1..MaxScans])
  /\ devices \in Seq([index : Indexes, scan : 1..MaxScans])
  /\ deviceFree \subseteq DOMAIN devices
  /\ WorkerTypeOK
  /\ Len(workers) <= MaxEvents
  /\ fault \in {"none", "owner", "listener", "worker"}
  /\ owner \in {"constructing", "null", "idle", "clearing", "detecting", "growing",
                "moving", "storing", "joining", "closing", "freeing devices",
                "freeing receiver", "freed", "failed"}
  /\ step \in 0..(LastIndex + Len(Acquisitions))
  /\ held \subseteq Resources
  /\ scans \in 0..MaxScans
  /\ pending \subseteq {"cell", "count"}
  /\ listener \in {"none", "reading", "dispatching", "started", "writing", "ended"}
  /\ cancelled \in BOOLEAN
  /\ lost \in 0..1

\* Whichever call of slavery_receiver_from_devnode fails, what it returns NULL with
\* has no descriptor open and no thread running, and leaves no block but the copy
\* of the devnode.
NullLeavesLittle ==
  owner = "null" => held \subseteq {"devnode"} /\ listener = "none"

\* Memory is misused only where the threads are not kept apart: a worker touches
\* what is gone, or never was, only if the owner scanned or freed in its time or
\* pthread_attr_destroy failed; the owner and, but for that, the listener never do.
FaultsExplained ==
  /\ fault # "owner"
  /\ fault = "listener" => \E w \in DOMAIN workers : ~workers[w].intact
  /\ \A w \in DOMAIN workers :
       workers[w].at = "faulted" => ~workers[w].calm \/ ~workers[w].intact

\* Which device the array lists for an index.
ListedFor(index) ==
  {OldCells[n] : n \in {m \in 1..numDevices : devices[OldCells[m]].index = index}}

\* What was meant: the buttons of that device whose bit is set, or nothing.
Meant(k) ==
  IF ListedFor(k.index) = {}
  THEN {"ignored"}
  ELSE Buttons[k.index] \cap k.pressed

\* A worker left in peace finds the device that its event is of, of the last scan,
\* and reports the buttons pressed on it (slavery_event_dispatch).
Recognised ==
  [][\A w \in DOMAIN workers :
       workers[w].calm /\ Finish(w) =>
         /\ workers'[w].report = Meant(workers[w])
         /\ \A d \in ListedFor(workers[w].index) : devices[d].scan = scans]_vars

Remaining == {d \in DOMAIN devices : d \notin deviceFree}

\* A free that returns 0 has given back all but what FreeFreesAll says it gives back
\* too, the arrays and devices of earlier scans, which nothing refers to any more, and
\* but for one event at most, of a listener cancelled as it failed to start a worker.
\* One that returns -1 has freed nothing, so workers may go on.
FreeReturns ==
  /\ owner = "freed" =>
       /\ held = {}
       /\ Remaining = {d \in DOMAIN devices : devices[d].scan < scans}
       /\ \A b \in DOMAIN blocks : blocks[b].live => blocks[b].scan < scans
       /\ listener = "ended"
       /\ lost = 1 => cancelled
  /\ owner = "failed" =>
       /\ allocated
       /\ Resources \ {"fd", "read end", "write end"} \subseteq held
       /\ deviceFree = {}

\* What libslavery.h says of slavery_receiver_free: "Frees all memory created under the
\* context of the receiver", and that it returns "0 on success".  So when it has
\* returned 0, none of the devices that its scans made is left, nor an array of them.
FreeFreesAll ==
  owner = "freed" => Remaining = {} /\ \A b \in DOMAIN blocks : ~blocks[b].live

AtWork(w) == w \in DOMAIN workers /\ Active(w)

\* Every event given to a worker is done with, though the devices it walks may
\* change all the time.
WorkersEnd ==
  \A w \in 1..MaxEvents : AtWork(w) ~> ~Running \/ ~AtWork(w)

\* slavery_receiver_free returns, wherever the listener is when it is cancelled,
\* waiting for room in the control pipe included.
FreeEnds == owner = "joining" ~> ~Running \/ owner \in {"freed", "failed"}
===============================================================================
