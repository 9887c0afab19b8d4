---------------------------- MODULE EventDispatch ----------------------------
(***************************************************************************)
(* slavery_event_dispatch: a detached thread per button event, which looks *)
(* the device up in receiver->devices while others may change it.          *)
(*                                                                         *)
(* Declared here are the shared memory that a worker reads and the steps   *)
(* of the workers; who writes that memory and starts them is the business  *)
(* of ReceiverLifecycle.  Each read of something shared is a step.  One    *)
(* that may not be made is a fault, after which nothing more is said.      *)
(***************************************************************************)
EXTENDS Naturals, Sequences, FiniteSets

CONSTANTS
  LastIndex, \* SLAVERY_DEVICE_INDEX_6
  Cids,      \* the control IDs that have a bit in an event
  Buttons    \* the control IDs of the buttons of the device at each index, all different

Indexes == 1..LastIndex

ASSUME DispatchAssumption ==
  /\ LastIndex \in Nat \ {0}
  /\ \A i \in Indexes : Buttons[i] \subseteq STRING

VARIABLES
  allocated,  \* is the slavery_receiver_t there?
  numDevices, \* receiver->num_devices
  array,      \* receiver->devices: a place in blocks, 0 for NULL
  blocks,     \* every array made: its cells (0 if never written), is it there?
  devices,    \* every slavery_device_t made: its index and the scan it is of
  deviceFree, \* those freed, by their place in devices
  workers,    \* the workers started, one per event
  fault       \* whether the "owner" or a "worker" touched memory that it may
              \* not, or "none"

receiver  == <<allocated, numDevices, array>>
memory    == <<blocks, devices, deviceFree>>
shared    == <<receiver, memory>>

\* A worker and its event.  position is i, pointer what it has read of
\* receiver->devices, device its result so far.  calm is history: has nobody
\* been busy with the device array since the worker was started?
NewWorker(index, pressed, isCalm) ==
  [index |-> index, pressed |-> pressed, at |-> "checking", position |-> 0,
   pointer |-> 0, device |-> 0, intact |-> TRUE, calm |-> isCalm,
   report |-> {}]

Searching == {"checking", "loading", "comparing", "reloading", "taking"}

Active(w) == workers[w].at \notin {"done", "faulted"}

-------------------------------------------------------------------------------
(* What a worker may touch.                                                *)

Cell(k) == blocks[k.pointer].cells[k.position + 1]

CellUsable(k) ==
  /\ k.pointer # 0
  /\ blocks[k.pointer].live
  /\ k.position < Len(blocks[k.pointer].cells)
  /\ Cell(k) # 0
  /\ Cell(k) \notin deviceFree

\* The event, the receiver, the cell or the device, whichever it is about to use.
Safe(w) ==
  LET k == workers[w]
  IN  /\ k.intact
      /\ k.at \in {"checking", "loading", "reloading"} => allocated
      /\ k.at \in {"comparing", "taking"} => CellUsable(k)
      /\ k.at = "pressing" => k.device \notin deviceFree

-------------------------------------------------------------------------------
(* The loop over the devices, which goes on after a match.                 *)

Become(w, k) ==
  /\ workers' = [workers EXCEPT ![w] = k]
  /\ UNCHANGED <<shared, fault>>

CheckBound(w, bound) ==
  LET k == workers[w]
  IN  /\ k.at = "checking"
      /\ Safe(w)
      /\ Become(w, [k EXCEPT !.at = IF k.position < bound THEN "loading" ELSE "pressing"])

MutantCheckTooFar(w) == CheckBound(w, numDevices + 1)
MutantCheckOffByOne(w) == CheckBound(w, IF numDevices = 0 THEN 0 ELSE numDevices - 1)

Check(w) == CheckBound(w, numDevices)

\* receiver->devices, for the comparison or, after a match, once more.
Load(w) ==
  LET k == workers[w]
  IN  /\ k.at \in {"loading", "reloading"}
      /\ Safe(w)
      /\ Become(w, [k EXCEPT !.pointer = array,
                             !.at = IF k.at = "loading" THEN "comparing" ELSE "taking"])

Advance(w, k) == Become(w, [k EXCEPT !.position = @ + 1, !.pointer = 0, !.at = "checking"])

MutantCompareStays(w) ==
  LET k == workers[w]
  IN  /\ k.at = "comparing"
      /\ Safe(w)
      /\ Become(w, [k EXCEPT !.pointer = 0, !.at = "checking"])

Compare(w) ==
  LET k == workers[w]
  IN  /\ k.at = "comparing"
      /\ Safe(w)
      /\ IF devices[Cell(k)].index = k.index
         THEN Become(w, [k EXCEPT !.pointer = 0, !.at = "reloading"])
         ELSE Advance(w, k)

Take(w) ==
  LET k == workers[w]
  IN  /\ k.at = "taking"
      /\ Safe(w)
      /\ Advance(w, [k EXCEPT !.device = Cell(k)])

-------------------------------------------------------------------------------
(* The buttons, and the end: the event is freed.                           *)

\* The loop over the buttons: those whose bit is set.
Pressed(k) ==
  IF k.device = 0
  THEN {"ignored"}
  ELSE Buttons[devices[k.device].index] \cap k.pressed

Finish(w) ==
  LET k == workers[w]
  IN  /\ k.at = "pressing"
      /\ Safe(w)
      /\ Become(w, [k EXCEPT !.at = "done", !.report = Pressed(k)])

WorkerFaults(w) ==
  /\ Active(w)
  /\ ~Safe(w)
  /\ fault' = "worker"
  /\ workers' = [workers EXCEPT ![w].at = "faulted"]
  /\ UNCHANGED shared

Work(w) == Check(w) \/ Load(w) \/ Compare(w) \/ Take(w) \/ Finish(w) \/ WorkerFaults(w)

-------------------------------------------------------------------------------
Worker ==
  [index    : Nat,
   pressed  : SUBSET Cids,
   at       : Searching \cup {"pressing", "done", "faulted"},
   position : Nat,
   pointer  : 0..Len(blocks),
   device   : 0..Len(devices),
   intact   : BOOLEAN,
   calm     : BOOLEAN,
   report   : SUBSET (Cids \cup {"ignored"})]

WorkerTypeOK == workers \in Seq(Worker)
===============================================================================
