--------------------------- MODULE ReceiverRegistry ---------------------------
(***************************************************************************)
(* slavery_t.receivers and num_receivers, which two threads use without a  *)
(* lock: the main thread (slavery.c), which enumerates the receivers,      *)
(* scans the devices of each and frees them all at the end, and the        *)
(* monitor thread (monitor.c), started before that by slavery_new, which   *)
(* adds and removes receivers as udev reports them.                        *)
(*                                                                         *)
(* An action is a statement that reads or writes what the threads share,   *)
(* or a call that may take long.  When a thread touches memory that is     *)
(* freed or was never its to touch, anything may follow: the model notes   *)
(* whose fault it was and stops there.                                     *)
(***************************************************************************)
EXTENDS Naturals, Sequences, FiniteSets

CONSTANTS
  Devnodes,         \* hidraw nodes at which a receiver may be plugged in
  MaxPlugs,         \* bound: receivers plugged in once the program runs
  MaxUnfreed,       \* bound: receivers whose release fails
  CellsPerReceiver  \* sizeof(slavery_receiver_t) / sizeof(slavery_receiver_t *):
                    \* both realloc calls ask for the larger size

ASSUME RegistryAssumption ==
  /\ IsFiniteSet(Devnodes)
  /\ MaxPlugs \in Nat
  /\ MaxUnfreed \in Nat
  /\ CellsPerReceiver \in Nat \ {0}

VARIABLES
  connected, \* the devnodes with a receiver
  life,      \* how often each devnode has been plugged in
  netlink,   \* udev events not yet received by the monitor
  objects,   \* every slavery_receiver_t made: its devnode and which life of it
  freed,     \* those freed, by their place in objects
  unfreed,   \* those whose slavery_receiver_free gave up, returning -1
  receivers, \* the cells of the array: places in objects, 0 if never written
  count,     \* num_receivers
  stage,     \* the call of slavery_monitor_new that main is at, 0 after the last
  acquired,  \* what slavery_monitor_new has acquired and not given back
  main,      \* where the main thread is
  todo,      \* devnodes enumerated but not tried
  held,      \* the receiver main has made and not yet stored
  found,     \* the bound of main's loop, or of the one that frees
  turn,      \* its index, from 0
  stale,     \* has the array moved since main read the pointer that it uses?
  current,   \* the receiver whose devices main scans
  monitor,   \* where the monitor thread is
  event,     \* the event whose devnode it still needs
  made,      \* the receiver it has made and not yet stored
  place,     \* where it found the receiver to remove
  fault,     \* the thread that touched memory it may not, or "none"
  missed,    \* history: connected, but could not be opened when it was tried
  raced      \* history: did the monitor and the enumeration overlap?

kernel       == <<connected, life, netlink>>
heap         == <<objects, freed, unfreed>>
registry     == <<receivers, count, stale>>
mainVars     == <<main, todo, held, found, turn, current>>
monitorVars  == <<monitor, event, made, place>>
setup        == <<stage, acquired>>
vars == <<kernel, heap, registry, setup, mainVars, monitorVars, fault, missed, raced>>

Event  == [action : {"add", "remove"}, node : Devnodes]
NoNode == [action |-> "none"]

Plugs == Cardinality({p \in Devnodes \X (1..MaxPlugs) : p[2] <= life[p[1]]})

\* slavery_monitor_new: the calls that can fail, in order, what each acquires and
\* what is given back when it fails.
MonitorCalls ==
  << [call |-> "udev_new",         gets |-> {"udev"},   undo |-> {"monitor"}],
     [call |-> "new_from_netlink", gets |-> {"socket"}, undo |-> {"udev", "monitor"}],
     [call |-> "filter",           gets |-> {}, undo |-> {"socket", "udev", "monitor"}],
     [call |-> "enable_receiving", gets |-> {}, undo |-> {"socket", "udev", "monitor"}],
     [call |-> "fcntl",            gets |-> {}, undo |-> {"socket", "udev", "monitor"}],
     [call |-> "pthread_create",   gets |-> {}, undo |-> {"socket", "udev", "monitor"}] >>

\* udev events are queued from enable_receiving on.
Subscribed == "socket" \in acquired /\ stage \notin 1..4

Scanning == {"resetting", "clearing", "enumerating", "opening", "growing", "storing"}

Init ==
  /\ connected \in SUBSET Devnodes
  /\ life = [n \in Devnodes |-> 0]
  /\ netlink = <<>>
  /\ objects = <<>>
  /\ freed = {}
  /\ unfreed = {}
  /\ receivers = <<>>
  /\ count = 0
  /\ stage = 1
  /\ acquired = {"monitor"}
  /\ main = "starting"
  /\ todo = {}
  /\ held = 0
  /\ found = 0
  /\ turn = 0
  /\ stale = FALSE
  /\ current = 0
  /\ monitor = "absent"
  /\ event = NoNode
  /\ made = 0
  /\ place = 0
  /\ fault = "none"
  /\ missed = {}
  /\ raced = FALSE

-------------------------------------------------------------------------------
(* Receivers come and go.                                                  *)

Queued(action, n) ==
  IF Subscribed THEN Append(netlink, [action |-> action, node |-> n]) ELSE netlink

Plug(n) ==
  /\ n \notin connected
  /\ Plugs < MaxPlugs
  /\ connected' = connected \cup {n}
  /\ life' = [life EXCEPT ![n] = @ + 1]
  /\ netlink' = Queued("add", n)
  /\ raced' = \/ raced
              \/ /\ Subscribed
                 /\ main \in {"starting", "resetting", "clearing", "enumerating"}
  /\ UNCHANGED <<heap, registry, mainVars, monitorVars, fault, missed>>

Unplug(n) ==
  /\ n \in connected
  /\ connected' = connected \ {n}
  /\ netlink' = Queued("remove", n)
  /\ missed' = missed \ {n}
  /\ UNCHANGED <<life, heap, registry, mainVars, monitorVars, fault, raced>>

-------------------------------------------------------------------------------
(* What both threads do.                                                   *)

\* slavery_receiver_from_devnode: a receiver for what is connected now, whatever
\* made the thread try.
Open(n) ==
  /\ n \in connected
  /\ objects' = Append(objects, [node |-> n, life |-> life[n]])
  /\ missed' = missed \ {n}

\* It returns NULL: there is nothing there, or open() or an ioctl failed.
OpenFails(n) ==
  /\ missed' = missed \cup (connected \cap {n})
  /\ UNCHANGED objects

\* slavery_receiver_free, whose result neither caller looks at: when a call in it
\* fails it returns before it frees anything.
Free(r) ==
  /\ \/ freed' = freed \cup {r} /\ unfreed' = unfreed \ {r}
     \/ /\ Cardinality(unfreed) < MaxUnfreed
        /\ unfreed' = unfreed \cup {r}
        /\ UNCHANGED freed
  /\ UNCHANGED objects

Resized(n) ==
  [k \in 1..(CellsPerReceiver * n) |-> IF k <= Len(receivers) THEN receivers[k] ELSE 0]

MutantGrow ==
  /\ receivers' = Resized(count)
  /\ stale' = (main \in {"indexing", "freeing"})
  /\ UNCHANGED count

\* receivers = realloc(receivers, ...)
Grow ==
  /\ receivers' = Resized(count + 1)
  /\ stale' = (main \in {"indexing", "freeing"})
  /\ UNCHANGED count

\* receivers[num_receivers++] = receiver
Store(r) ==
  /\ count < Len(receivers)
  /\ receivers' = [receivers EXCEPT ![count + 1] = r]
  /\ count' = count + 1
  /\ UNCHANGED stale

-------------------------------------------------------------------------------
(* The main thread: slavery_new, which starts the monitor.                 *)

MonitorCall ==
  /\ main = "starting"
  /\ acquired' = acquired \cup MonitorCalls[stage].gets
  /\ IF stage < Len(MonitorCalls)
     THEN stage' = stage + 1 /\ UNCHANGED <<main, monitor>>
     ELSE stage' = 0 /\ main' = "resetting" /\ monitor' = "waiting"
  /\ UNCHANGED <<kernel, heap, registry, todo, held, found, turn, current, event, made,
                 place, fault, missed, raced>>

\* NULL is returned, and main goes on without a monitor.
MonitorCallFails(undo) ==
  /\ main = "starting"
  /\ acquired' = acquired \ undo
  /\ stage' = 0
  /\ main' = "resetting"
  /\ netlink' = <<>>
  /\ UNCHANGED <<connected, life, heap, registry, todo, held, found, turn, current,
                 monitorVars, fault, missed, raced>>

MutantStart == MonitorCall \/ MonitorCallFails(MonitorCalls[stage].undo \ {"udev"})

Start == MonitorCall \/ MonitorCallFails(MonitorCalls[stage].undo)

-------------------------------------------------------------------------------
(* The main thread: slavery_scan_receivers.                                *)

ResetCount ==
  /\ main = "resetting"
  /\ count' = 0
  /\ main' = "clearing"
  /\ UNCHANGED <<kernel, heap, receivers, stale, todo, held, found, turn,
                 current, monitorVars, fault, missed, raced>>

ResetArray ==
  /\ main = "clearing"
  /\ receivers' = <<>>
  /\ main' = "enumerating"
  /\ UNCHANGED <<kernel, heap, count, stale, todo, held, found, turn, current,
                 monitorVars, fault, missed, raced>>

Enumerate ==
  /\ main = "enumerating"
  /\ todo' = connected
  /\ main' = "opening"
  /\ UNCHANGED <<kernel, heap, registry, held, found, turn, current,
                 monitorVars, fault, missed, raced>>

\* A udev call fails and -1 is returned: main's loop has nothing to do.
EnumerateFails ==
  /\ main = "enumerating"
  /\ missed' = connected
  /\ main' = "looping"
  /\ UNCHANGED <<kernel, heap, registry, todo, held, found, turn, current,
                 monitorVars, fault, raced>>

MutantMainOpen(n) ==
  /\ main = "opening"
  /\ n \in todo
  /\ \/ Open(n) /\ held' = Len(objects) + 1 /\ main' = "growing" /\ todo' = todo \ {n}
     \/ OpenFails(n) /\ UNCHANGED <<held, main, todo>>
  /\ UNCHANGED <<kernel, freed, unfreed, registry, found, turn, current, monitorVars,
                 fault, raced>>

MainOpen(n) ==
  /\ main = "opening"
  /\ n \in todo
  /\ todo' = todo \ {n}
  /\ \/ Open(n) /\ held' = Len(objects) + 1 /\ main' = "growing"
     \/ OpenFails(n) /\ UNCHANGED <<held, main>>
  /\ UNCHANGED <<kernel, freed, unfreed, registry, found, turn, current, monitorVars,
                 fault, raced>>

MainGrow ==
  /\ main = "growing"
  /\ Grow
  /\ main' = "storing"
  /\ UNCHANGED <<kernel, heap, todo, held, found, turn, current, monitorVars,
                 fault, missed, raced>>

MainStore ==
  /\ main = "storing"
  /\ Store(held)
  /\ held' = 0
  /\ main' = "opening"
  /\ UNCHANGED <<kernel, heap, todo, found, turn, current, monitorVars,
                 fault, missed, raced>>

ScanReturns ==
  /\ main = "opening"
  /\ todo = {}
  /\ found' = count
  /\ main' = "looping"
  /\ UNCHANGED <<kernel, heap, registry, todo, held, turn, current,
                 monitorVars, fault, missed, raced>>

-------------------------------------------------------------------------------
(* The main thread: the loop of main(), and slavery_free.                  *)

\* slavery_get_receiver reads the pointer to the array ...
LoadArray ==
  /\ main = "looping"
  /\ turn < found
  /\ main' = "indexing"
  /\ UNCHANGED <<kernel, heap, registry, todo, held, found, turn, current,
                 monitorVars, fault, missed, raced>>

\* ... and then the cell, without asking num_receivers.
Readable(i) == ~stale /\ i <= Len(receivers)

GetReceiver ==
  /\ main = "indexing"
  /\ Readable(turn + 1)
  /\ current' = receivers[turn + 1]
  /\ main' = "scanning"
  /\ UNCHANGED <<kernel, heap, registry, todo, held, found, turn,
                 monitorVars, fault, missed, raced>>

Usable(r) == r # 0 /\ r \notin freed

\* A receiver given up by slavery_receiver_free has perhaps been joined, and must not
\* be again.
Fresh(r) == Usable(r) /\ r \notin unfreed

\* slavery_receiver_scan_devices returns.
DevicesScanned ==
  /\ main = "scanning"
  /\ Usable(current)
  /\ current' = 0
  /\ main' = "typing"
  /\ UNCHANGED <<kernel, heap, registry, todo, held, found, turn,
                 monitorVars, fault, missed, raced>>

\* Someone types q, and the next receiver gets its turn.
TypeQ ==
  /\ main = "typing"
  /\ turn' = turn + 1
  /\ main' = "looping"
  /\ UNCHANGED <<kernel, heap, registry, todo, held, found, current,
                 monitorVars, fault, missed, raced>>

\* Standard input ends: getchar returns EOF, which is not q, for ever.
InputEnds ==
  /\ main = "typing"
  /\ main' = "spinning"
  /\ UNCHANGED <<kernel, heap, registry, todo, held, found, turn, current,
                 monitorVars, fault, missed, raced>>

\* slavery_free passes the array and its length on.
StartFree ==
  /\ main = "looping"
  /\ turn >= found
  /\ found' = count
  /\ turn' = 0
  /\ main' = "freeing"
  /\ UNCHANGED <<kernel, heap, registry, todo, held, current, monitorVars, fault,
                 missed, raced>>

FreeReceiver ==
  /\ main = "freeing"
  /\ turn < found
  /\ Readable(turn + 1)
  /\ Usable(receivers[turn + 1])
  /\ Free(receivers[turn + 1])
  /\ turn' = turn + 1
  /\ UNCHANGED <<kernel, registry, main, todo, held, found, current,
                 monitorVars, fault, missed, raced>>

\* The array and the slavery_t itself are freed; the monitor still runs.
FreeRegistry ==
  /\ main = "freeing"
  /\ turn >= found
  /\ ~stale
  /\ main' = "freed"
  /\ UNCHANGED <<kernel, heap, registry, todo, held, found, turn,
                 current, monitorVars, fault, missed, raced>>

Exit ==
  /\ main = "freed"
  /\ main' = "exited"
  /\ UNCHANGED <<kernel, heap, registry, todo, held, found, turn, current,
                 monitorVars, fault, missed, raced>>

MainFaults ==
  /\ \/ main = "storing"  /\ count >= Len(receivers)
     \/ main = "indexing" /\ ~Readable(turn + 1)
     \/ main = "scanning" /\ ~Usable(current)
     \/ main = "freeing"  /\ turn < found
                          /\ ~(Readable(turn + 1) /\ Fresh(receivers[turn + 1]))
     \/ main = "freeing"  /\ stale
  /\ fault' = "main"
  /\ UNCHANGED <<kernel, heap, registry, mainVars, monitorVars, missed, raced>>

-------------------------------------------------------------------------------
(* The monitor thread: slavery_monitor_run.                                *)

\* udev_monitor_receive_device
ReceiveInto(rest) ==
  /\ monitor = "waiting"
  /\ netlink # <<>>
  /\ event' = Head(netlink)
  /\ netlink' = rest
  /\ monitor' = IF Head(netlink).action = "add" THEN "opening" ELSE "searching"
  /\ UNCHANGED <<connected, life, heap, registry, mainVars, made, place, fault,
                 missed, raced>>

MutantReceiveAgain == ReceiveInto(netlink)

Receive == ReceiveInto(Tail(netlink))

\* It returns NULL: so does udev_device_get_action, and strcmp is given that.
ReceiveFails ==
  /\ monitor = "waiting"
  /\ fault' = "monitor"
  /\ UNCHANGED <<kernel, heap, registry, mainVars, monitorVars, missed, raced>>

MonitorOpen ==
  /\ monitor = "opening"
  /\ \/ Open(event.node) /\ made' = Len(objects) + 1 /\ monitor' = "scanning"
     \/ OpenFails(event.node) /\ UNCHANGED made /\ monitor' = "waiting"
  /\ event' = NoNode
  /\ UNCHANGED <<kernel, freed, unfreed, registry, mainVars, place, fault, raced>>

\* slavery_receiver_scan_devices returns, in the monitor thread, if it does.
MonitorScanned ==
  /\ monitor = "scanning"
  /\ monitor' = "growing"
  /\ UNCHANGED <<kernel, heap, registry, mainVars, event, made, place, fault, missed,
                 raced>>

\* From here on each step uses the registry: with main still scanning for
\* receivers it is a race, and once slavery_free has freed it, a fault.
Touch ==
  /\ main # "freed"
  /\ raced' = (raced \/ main \in Scanning)

MonitorGrow ==
  /\ monitor = "growing"
  /\ Touch
  /\ monitor' = "storing"
  /\ Grow
  /\ UNCHANGED <<kernel, heap, mainVars, event, made, place, fault, missed>>

MonitorStore ==
  /\ monitor = "storing"
  /\ Touch
  /\ monitor' = "waiting"
  /\ Store(made)
  /\ made' = 0
  /\ UNCHANGED <<kernel, heap, mainVars, event, place, fault, missed>>

\* The loop that looks for the devnode ends at the first match, or at the first
\* cell that does not hold a receiver.
Sound(i)   == i <= Len(receivers) /\ Usable(receivers[i])
Matches(i) == Sound(i) /\ objects[receivers[i]].node = event.node
Stops      == {i \in 1..count : Matches(i) \/ ~Sound(i)}
IsStop(i)  == i \in Stops /\ \A j \in Stops : i <= j

LeaveSearch(next) ==
  /\ monitor = "searching"
  /\ Stops = {}
  /\ Touch
  /\ monitor' = next
  /\ event' = NoNode
  /\ UNCHANGED <<kernel, heap, registry, mainVars, made, place, fault, missed>>

MutantNotFound == LeaveSearch("absent")

NotFound == LeaveSearch("waiting")

RemoveAt(i) ==
  /\ monitor = "searching"
  /\ IsStop(i)
  /\ Matches(i)
  /\ Touch
  /\ monitor' = "shifting"
  /\ Free(receivers[i])
  /\ place' = i
  /\ event' = NoNode
  /\ UNCHANGED <<kernel, registry, mainVars, made, fault, missed>>

Remove == \E i \in 1..count : RemoveAt(i)

ShiftFrom(first) ==
  /\ monitor = "shifting"
  /\ count <= Len(receivers)
  /\ Touch
  /\ monitor' = "dropping"
  /\ receivers' = [k \in DOMAIN receivers |->
                     IF k \in first..(count - 1) THEN receivers[k + 1] ELSE receivers[k]]
  /\ UNCHANGED <<kernel, heap, count, stale, mainVars, event, made, place, fault,
                 missed>>

MutantShift == ShiftFrom(place + 1)

Shift == ShiftFrom(place)

MutantDrop ==
  /\ monitor = "dropping"
  /\ Touch
  /\ monitor' = "waiting"
  /\ place' = 0
  /\ UNCHANGED <<kernel, heap, registry, mainVars, event, made, fault, missed>>

Drop ==
  /\ monitor = "dropping"
  /\ count > 0
  /\ Touch
  /\ monitor' = "waiting"
  /\ count' = count - 1
  /\ place' = 0
  /\ UNCHANGED <<kernel, heap, receivers, stale, mainVars, event, made, fault, missed>>

\* A count that main has reset meanwhile wraps around when it is decremented.
MonitorFaults ==
  /\ \/ main = "freed" /\ monitor \in {"growing", "storing", "searching", "shifting", "dropping"}
     \/ monitor = "storing" /\ count >= Len(receivers)
     \/ monitor = "searching" /\ \E i \in 1..count :
                                  IsStop(i) /\ ~(Sound(i) /\ Fresh(receivers[i]))
     \/ monitor = "shifting" /\ count > Len(receivers)
     \/ monitor = "dropping" /\ count = 0
  /\ fault' = "monitor"
  /\ UNCHANGED <<kernel, heap, registry, mainVars, monitorVars, missed, raced>>

-------------------------------------------------------------------------------
Kernel == \E n \in Devnodes : Plug(n) \/ Unplug(n)

Main ==
  \/ ResetCount \/ ResetArray \/ Enumerate \/ EnumerateFails
  \/ \E n \in todo : MainOpen(n)
  \/ MainGrow \/ MainStore \/ ScanReturns
  \/ LoadArray \/ GetReceiver \/ DevicesScanned \/ TypeQ \/ InputEnds
  \/ StartFree \/ FreeReceiver \/ FreeRegistry \/ Exit \/ MainFaults

\* The monitor thread, but for what it waits for: events, and the scan of a receiver.
Handle ==
  \/ Receive \/ MonitorOpen \/ MonitorGrow \/ MonitorStore
  \/ NotFound \/ Remove \/ Shift \/ Drop \/ MonitorFaults

Monitor == Handle \/ ReceiveFails \/ MonitorScanned

Running == fault = "none" /\ main # "exited"

Next == Running /\ (Start \/ ((Kernel \/ Main \/ Monitor) /\ UNCHANGED setup))

Spec == Init /\ [][Next]_vars

\* The threads run, but for their scans, which need not return, and for the user.
Waiting == main \in {"scanning", "typing", "spinning"}

FairSpec ==
  /\ Spec
  /\ WF_vars(Running /\ Handle /\ UNCHANGED setup)
  /\ WF_vars(Running /\ Start)
  /\ WF_vars(Running /\ Main /\ ~Waiting /\ UNCHANGED setup)

-------------------------------------------------------------------------------
(* Properties.                                                             *)

MaxObjects == Cardinality(Devnodes) + MaxPlugs

\* Types.  One receiver is made per devnode enumerated and per add event, no more.
TypeOK ==
  /\ connected \subseteq Devnodes
  /\ life \in [Devnodes -> 0..MaxPlugs]
  /\ netlink \in Seq(Event)
  /\ objects \in Seq([node : Devnodes, life : 0..MaxPlugs])
  /\ Len(objects) <= MaxObjects
  /\ freed \subseteq DOMAIN objects
  /\ unfreed \subseteq DOMAIN objects \ freed
  /\ receivers \in Seq(0..Len(objects))
  /\ count \in Nat
  /\ stale \in BOOLEAN
  /\ stage \in 0..Len(MonitorCalls)
  /\ acquired \subseteq {"monitor", "udev", "socket"}
  /\ main \in Scanning \cup {"starting", "looping", "indexing", "scanning", "typing",
                             "spinning", "freeing", "freed", "exited"}
  /\ todo \subseteq Devnodes
  /\ {held, current, made} \subseteq 0..Len(objects)
  /\ {found, turn, place} \subseteq Nat
  /\ monitor \in {"absent", "waiting", "opening", "scanning", "growing", "storing",
                  "searching", "shifting", "dropping"}
  /\ event \in Event \cup {NoNode}
  /\ fault \in {"none", "main", "monitor"}
  /\ missed \subseteq connected
  /\ raced \in BOOLEAN

Listed == {receivers[i] : i \in 1..count}

\* slavery_monitor_new returns with the monitor running, or with nothing kept.
MonitorWholeOrNot ==
  stage = 0 =>
    acquired = IF monitor = "absent" THEN {} ELSE {"monitor", "udev", "socket"}

\* Main has the receivers and the monitor is at rest.
Settled ==
  /\ main \in {"looping", "indexing", "scanning", "typing", "spinning"}
  /\ monitor = "waiting"
  /\ netlink = <<>>

\* Unless the monitor and the enumeration overlapped, the registry is up to date
\* whenever the monitor has caught up: it lists each connected receiver once, as
\* plugged in last, but for those that could not be opened.
RegistryFollows ==
  Settled /\ ~raced =>
    /\ {objects[r] : r \in Listed} =
         {[node |-> n, life |-> life[n]] : n \in connected \ missed}
    /\ \A i, j \in 1..count :
         i # j => objects[receivers[i]].node # objects[receivers[j]].node

\* Unless they overlapped, no receiver is forgotten but one whose release failed, which
\* the monitor takes off the list all the same, and none that is freed stays listed:
\* outside the monitor's removal and slavery_free, those neither freed nor given up by
\* slavery_receiver_free are listed or in the hands of the thread that made them.
NothingForgotten ==
  ~raced /\ monitor \notin {"shifting", "dropping"} /\ main \notin {"freeing", "freed", "exited"}
    => DOMAIN objects \ (freed \cup unfreed) = Listed \cup ({held, made} \ {0})

\* Unless they overlapped, the monitor never touches memory it may not before main
\* begins to free the registry, whatever comes and goes, but for the NULL that udev may
\* hand it instead of an event; and main does not unless a receiver has been removed or
\* freed, or the array moved as main read it.
DefinedUnlessRaced ==
  /\ fault = "monitor" => raced \/ main \in {"freeing", "freed"} \/ monitor = "waiting"
  /\ fault = "main" => raced \/ freed \cup unfreed # {} \/ stale

\* If each of the monitor's scans returns, every udev event is handled, unless the
\* program ends.
EventsHandled ==
  []<>(monitor # "scanning") =>
    (netlink # <<>> /\ monitor # "absent" ~> netlink = <<>> \/ ~Running)

\* Main never gets stuck between its waits: it comes to the next receiver's scan or
\* to the user, spins where the input has ended, or frees all and exits.
MainGetsOn == []<>(~Running \/ Waiting)

\* What libslavery.h says of slavery_scan_receivers: "Scans for receivers currently
\* connected", and that it returns "The number of receivers found".  So it counts
\* no more than there are devnodes at which a receiver was ever opened.
ScanCountsReceivers ==
  [][ScanReturns => found' <= Cardinality({objects[r].node : r \in DOMAIN objects})]_vars
===============================================================================
