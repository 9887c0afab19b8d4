# A TLA+ model of slavery

slavery is a C library and a small daemon that talk HID++ to Logitech Unifying
receivers: they find the receivers, ask the devices paired with each of them
what they are, and listen for button events. This directory holds TLA+
specifications of that code, TLC configurations that check them on small
instances, and proofs that TLAPS checks. Paths such as `receiver.c:445` are
below `src/src/`.

## 1. The system

    main thread (slavery.c)            monitor thread (monitor.c)
      slavery_new ----------- starts ----->  udev add / remove
      slavery_scan_receivers                  from_devnode, scan_devices,
      scan_devices for each                   receiver_free
            |                                      |
            +----> slavery_t.receivers <-----------+        (shared, no lock)
                          |
                     receiver (receiver.c), one listener thread each
                          |   fd, control pipe, devices
       requester: write(fd) ... read(control pipe)           (device.c)
       listener : read(fd) -> 0x20: new detached worker      (event.c)
                           -> else: write(control pipe)

| component | state | operations | interacts with |
|---|---|---|---|
| Control channel (`receiver.c:352-483`, the write/read pairs of `device.c`) | hidraw queue behind `fd`, control pipe, the listener's buffer | listener: read, dispatch, redirect, exit; requester: write, control read | hardware, event workers (thread start), scan (through the pipe) |
| Device detection (`receiver.c:97-208`, `device.c:62-437`) | the device under construction, `receiver->devices`, the heap | `scan_devices`, `get_device`, `get_feature(s)`, `get_protocol_version`, `get_type`, `get_name`, `get_num_buttons`, `get_button` | the control channel, one exchange at a time |
| Device name transfer (`device.c:273-338`) | the name buffer, the place of the copy, the byte-wide offset | `get_name` | the control channel |
| Receiver lifecycle (`receiver.c:37-120, 210-351`, `device.c:26-53`) | descriptors, thread, blocks, the device array | `from_devnode`, repeated `scan_devices`, `receiver_free`, `device_array_free` | listener (cancel, join), workers (shared array), registry |
| Receiver registry and monitor (`libslavery.c`, `monitor.c`, `slavery.c`) | `slavery_t.receivers`, `num_receivers` | `slavery_new`, `scan_receivers`, `get_receiver`, `slavery_free`; the monitor's add and remove; `main` | main and monitor thread share it without a lock |
| Event dispatch (`event.c`) | one copied report per worker | `slavery_event_dispatch` | started by the listener; reads `receiver->devices` from a detached thread, without a lock |
| Configuration (`config.c`) | the entries of a JSON file | `config_new`, `config_entry_parse` and its readers of a string, a boolean and a list | json-c; only a test calls it: `slavery_device_set_config` is empty |
| Virtual input (`virtual_input.c`) | a uinput fd | create, write | its calls are commented out |
| Logging and utilities (`utils.c`, `utils.h`) | none | formatting | everyone |

### What is hard about it, and what makes each part correct

* **Control channel.** Three parties run concurrently: the hardware, the
  listener and the requester. A report carries nothing that the code compares
  with a request, so the channel is right only if reports come back in the order
  of the requests and none is lost, duplicated or overtaken. What is not asked
  for is handed out too (both FIXMEs `add flow control`). The pipe is bounded and
  the listener blocks on it, the thread that also serves the events. Correct: no
  report lost; replies in order; out of step by exactly the unsolicited reports
  handed out; an exchange ends; events are dispatched.
* **Device detection.** Dozens of dependent exchanges in nested loops, whose
  bounds come from replies; a different error convention in each `get_*`; a
  different set of blocks freed on each error return. Correct: a scan without
  failures finds exactly the mice that are there, with their own features and
  buttons; a failed exchange leaves nothing wrong in what is collected; what is
  collected can be freed; the scan ends.
* **Device name.** Two positions that advance by different amounts, one of them a
  byte. Correct: no copy past the buffer, the whole name, the loop ends.
* **Lifecycle.** Cancelling a listener that holds an event or is blocked in
  `write()`; workers outlive the receiver; a second scan drops the devices of the
  first. Correct: wherever making a receiver fails nothing stays open; a release
  frees each device of the last scan once and returns wherever the listener is; a
  release that fails leaves what workers use.
* **Registry.** The monitor is started before the first enumeration and neither
  side locks; a removal frees what main may be scanning; main keeps a stale count.
  Correct: when both are quiet the registry holds each plugged receiver once.
* **Event dispatch.** Workers of successive events run in any order and read the
  device array, field by field, while a scan resets and reallocates it. Correct: a
  worker that nobody disturbs reports the buttons of the right device; one that is
  disturbed is the only one that may touch what is gone; each ends.
* **Configuration.** Sequential, with early returns at every key, a pointer that is
  never set and two slips in sizes and indexes. Correct: the entries are the
  well-formed members, the memory asked for holds them, one bad member does not
  spoil the next.

`PROJECT.json` lists the hazards one by one, at the line where each bites and
with the properties that would notice it going wrong.

## 2. Modules

| module | what it is |
|---|---|
| `RequestReply` | abstract specification: what a caller of the channel may rely on |
| `ControlChannel` | hardware, hidraw queue, listener, pipe and requester; refines `RequestReply` |
| `ControlChannelProofs` | TLAPS: types, invariant, lag, refinement, conservation |
| `DeviceScan` | `scan_devices`/`get_device` and the `get_*` functions, over `RequestReply` |
| `MCDeviceScan` | a small set of devices for TLC |
| `DeviceScanProofs` | TLAPS: types, ownership, leaks, what is collected |
| `ReceiverRegistry` | main and monitor thread on `slavery_t.receivers` |
| `MCReceiverRegistry` | interchangeable devnodes for TLC |
| `ReceiverRegistryProofs` | TLAPS: types and how many receivers there can be, the monitor's start |
| `ReceiverRegistryOrderProofs` | TLAPS, on top of it: the array, its users, and udev's events |
| `DeviceName` | the chunked copy of a name |
| `DeviceNameProofs` | TLAPS: types, no overflow, whole name |
| `EventDispatch` | the workers, a step per read of memory they share with the owner |
| `ReceiverLifecycle` | a receiver's owner and listener; extends `EventDispatch` with them |
| `MCReceiverLifecycle` | two devices without a common button, for TLC |
| `ReceiverLifecycleProofs` | TLAPS: types, release, misuse of memory, what workers report |
| `ConfigRead` | a JSON document becomes entries |
| `MCConfigRead` | eleven shapes of members for TLC |
| `ConfigReadProofs` | TLAPS: types, entries, their memory, misuse of memory, what stays allocated |

`DeviceScan` does not repeat the threads: it instantiates `RequestReply`, and
`ControlChannel` is shown to implement that (checked and proved). What the scan
relies on is therefore what the channel gives. In the same way `ReceiverLifecycle`
leaves the exchanges of a scan to `DeviceScan` (an index has a device or not) and the
order of control reports to `ControlChannel` (a report is a write that may block), and
the registry takes making and freeing a receiver as one step each. `EventDispatch`
and `ReceiverLifecycle` are one system: the workers' actions and the owner's act on
the same `numDevices`, `array` and blocks.

### ControlChannel

`hidraw` is the kernel's queue behind `receiver->fd`; `listener` and `held` are
the place and the buffer of `slavery_receiver_listen`; `pipe` is the control
pipe, a packet pipe (`O_DIRECT`, `receiver.c:277`), so a sequence of reports;
`requester` is whoever is between the `write()` and the control read of a
`device.c` exchange. There is one requester per receiver: the thread that scans
it. The listener's `read()`, its dispatch and its `write()` to the pipe are
separate actions, since other threads run in between; `DispatchFails` stands for
the pthread calls whose failure ends the thread, including the one that fails
after the worker has been started (`receiver.c:412`). `RequestFails` is a failed
`write()` (`return` before the read), which the model allows at any time.

Reports are a kind, the number of the request they answer, and the error flag
(byte 2). The numbers exist for the properties only, as do the counters `sent`,
`answered`, `notices`, `presses`, `dispatched` and `strays`. A `read()` of the
hidraw node fails only once the receiver is gone and the queue is drained. The
hardware answers requests in order; an unsolicited control report (a
notification, or the answer to another program's request) can come at any time.

The kernel's queue behind `fd` has no bound here. The one of hidraw is a ring that
drops what comes when it is full, so a listener that stays blocked in `write()` loses
events and replies too. What is shown of the channel is shown as long as the ring does
not fill up, which takes a listener that is blocked or far behind.

Left out: `write()` to the pipe or `read()` from it returning an error while both
ends are open (they fail for no state that this program reaches), and
cancellation, which belongs to the lifecycle.

### DeviceScan

`step` is the exchange that `get_device` is at and `progress` the number of
iterations behind it in the loop of that step. Each function that uses a response
is an operator (`Feature`, `Protocol`, `Type`, `NameLength`, `NameChunk`, `Count`,
`Button`), with the outcome of the exchange (`refused`, `error`, `data`) and what
the packet is read as. `heap` is what is allocated and not freed; each error
return frees its own parts (`Abandon`). Members that are used after the exchange
that should have set them failed (`device->type` after `get_type` returned -1,
`num_buttons` after `get_num_buttons` returned -1) hold whatever `malloc` left: a
nondeterministic choice, recorded in `unread`. A reply that is not the one asked
for may be read as anything the code can read at that step.

Only 0x8f in byte 2 is recognised as an error (`receiver.c:451`). A device that does not
understand a request, or fails at one, may answer with an error of its own, which has
0xff there and is read as data: `NotUnderstood` and `ErrorReply` allow both. `misled` are
the indexes at which anything but the answer to the question was read as that answer;
from then on the device there may be asked, and answer, anything.

Of the name only the number of exchanges is kept. For some lengths the loop of
`device.c:308` never ends (`DeviceName` says of which), so the number may also be
`Endless`, be it what the device said or what was read by mistake; the scan then goes on
exchanging for ever, or until an exchange fails.

`slavery_device_get_button` takes its index as a `uint8_t` (`device.c:369`) and stores the
button there, while the loop that calls it counts with a `size_t` and stores it again:
`Byte` is the index as the function sees it, modulo `IndexRange`, and `Stored` what the
two stores make of the array. The two differ only for a count that was never read, as
one that was is a byte.

All of the features, names and protocol numbers whose value nothing depends on
are dropped. The request for a feature that was not found goes to index 0xff; the
device may answer anything to that, or an error.

### DeviceName

One action per exchange of `get_name`; `ReceiveChunk` is the response together
with the copy. `off` is the byte of the request, arithmetic modulo 256; `pos` is
`name_pos - name`; the chunk's content is abstracted to where its first NUL is.

### ReceiverRegistry

`main` and `monitor` say where the two threads are; `receivers` are the cells of the
array and `count` is `num_receivers`; `objects` are the `slavery_receiver_t` made, each
with its devnode and which life of that devnode it opened, `freed` those freed.
Every statement that reads or writes what is shared is an action of its own, and so
is each call that takes long (the scans). `slavery_get_receiver` is two: it reads the
pointer, then the cell, and the array may be reallocated in between (`stale`).
`receiver_free` and `from_devnode` are one action each here. A `receiver_free` that
returns -1 has freed nothing and, as neither caller looks (`monitor.c:143`,
`receiver.c:41`), the receiver is dropped all the same: it is then `unfreed`. Its listener
may have been joined by then, so a second release of it counts as undefined (`Fresh`).
Both `realloc` calls ask for `sizeof(slavery_receiver_t)` per receiver rather than a
pointer's size, so the array has more cells than receivers (`CellsPerReceiver`): a cell past `num_receivers` can be
read without leaving the block, and holds a receiver shifted away or nothing.

When a thread uses freed memory or a cell that is not there, `fault` names it and the
behaviour ends: what follows is undefined. So it does when `udev_monitor_receive_device`
returns NULL, whose action `strcmp` is given (`ReceiveFails`).

`raced` records that the monitor used the registry while `slavery_scan_receivers` was under way, or that a receiver was plugged
in before the enumeration took its snapshot (its add event is then bound to repeat
it). The code has nothing to prevent that; the properties say what holds if it did
not happen, and `registry_race` shows what happens otherwise.

`missed` are the receivers connected that could not be opened when they were tried:
nobody tries them again.

`slavery_new` begins with `slavery_monitor_new`, a table of its calls that can fail
(`MonitorCalls`): what each has acquired and what its error return gives back. Main
goes on in either case. Udev events are queued from the fourth of these calls on
(`Subscribed`), before the thread that reads them exists. Main is `spinning` once
standard input has ended, since `getchar()` then returns at once, for ever.

### EventDispatch and ReceiverLifecycle

The shared memory is `allocated` (the `slavery_receiver_t`), `numDevices`, `array`
(`receiver->devices`: a place in `blocks`, 0 for NULL), the `blocks` that `realloc` has
made, each with its cells and whether it is live, and the `devices` made, with
`deviceFree` those freed. `devices` and `blocks` carry the scan they are of.

A worker (`slavery_event_dispatch`) is a record. `Check` is the loop's bound, `Load` the
read of `receiver->devices`, `Compare` the read of the cell and of the device's index,
`Load` again and `Take` the second walk of the same path after a match; the loop goes
on after it, as in the code. `Finish` is the loop over the buttons, whose array
nothing changes, and the free of the event. Whatever a worker touches must be there
(`Safe`); if not, `WorkerFaults` ends the behaviour. `calm` and `intact` are history:
whether the owner has begun to scan or free in the worker's time, and whether the
event has been freed by `DestroyFails` before its worker was through. A compiler may
keep `receiver->devices` or the bound in a register and read it fewer times than the
source says; that gives a worker older values, in the situations that the properties
exclude as not calm.

The owner is whoever calls the library for this receiver. `Acquisitions` is the table
of the eight calls of `slavery_receiver_from_devnode` that can fail, with what each gets
and what its error return gives back. A scan is `ResetCount`, `ResetArray`, then per
index `NotDetected` or `Detected`, the growth, and the store. `realloc` extends the block
where it is (`GrowInPlace`) or frees it and takes another (`GrowElsewhere`), and the new
address reaches `receiver->devices` in a step of its own (`ArrayGrown`). In
`receiver->devices[receiver->num_devices++] = device` the two stores are unsequenced, so
`StoreCell` and `StoreCount` come in either order. A cell that nothing has written is 0;
to use it counts as a fault at once. The release is `Cancel`, `Join`, three `Close`, then
`FreeDevice` for each cell, `FreeArray`, `FreeReceiver`; `StopFails` and `CloseFails` are
its returns of -1.

The listener here is only as much as matters to these: where it may be cancelled (in
`read`, in `write`, and in the `fprintf` of the warning before an event is freed, which
then is lost: `StartFails`), the workers it starts, and its five ends.

### ConfigRead

One action per step of `slavery_config_new` and of `slavery_config_entry_parse`, over a
document of which only the types of the values are kept. `types[k]` is what member's
key `k` holds, or `absent`; `items` are the types in the list. `pointer` is
`config->entries`, `usable` the bytes that may be used behind it: what glibc's `malloc`
makes of a request (`UsableBytes`), so that asking for seven bytes too few may or may
not show. `heap` has the blocks of each member. `file` is how the mapped file lies in
its last page, which decides whether the parser, told no length, finds a NUL. Where an
item of a list is no string, the warning about it is given no argument for its `%s`
(`config.c:240`): what is printed instead may be a string (`OtherItem`) or not
(`WarningFaults`).

## 3. Runs

| run | module, constants | what it shows |
|---|---|---|
| `channel` | `ControlChannel`, 4 requests, 2 notices, 2 presses, 2 slots | types, `Inv`, lag, conservation, refinement of `RequestReply`, an exchange ends, events are dispatched |
| `channel_blocked` | 1 request, 3 notices, 1 press, 2 slots | *violated*: the listener stops dispatching once unsolicited reports fill the pipe |
| `name` | `DeviceName`, lengths 0, 1, 16, 17, 240, 254 | no overflow, whole name, the loop ends |
| `name_endless` | length 255 | *violated*: for a name of 255 bytes the loop never ends |
| `scan` | `MCDeviceScan`, 2 indexes, 1 failure, 1 stray | exact detection, nothing mixed up, ownership, leaks, the scan ends or reads a name for ever |
| `scan_error` | the same without strays | *violated*: a device is returned although an exchange failed |
| `registry` | `MCReceiverRegistry`, 2 devnodes, 2 pluggings, symmetry | types, the monitor is whole or absent, the registry follows |
| `registry_live` | the same with 1 plugging and 1 release that fails, no symmetry | nothing is forgotten but what a release gave up, no undefined behaviour but where stated; udev events are handled, main gets on |
| `registry_race` | the same with 1 plugging | *violated*: a receiver is counted twice |
| `lifecycle` | `MCReceiverLifecycle`, 2 indexes, 2 scans, 1 event | types, failed making, release, misuse of memory, what a worker reports; workers and release end |
| `lifecycle_free` | the same without events | *violated*: a release that returns 0 leaves the devices of an earlier scan |
| `config` | `MCConfigRead`, documents of up to 4 of 11 members | types, entries, their memory, misuse of memory, what stays allocated |

### What the properties say

* `Inv` and `LagIsStrays`: replies in flight are exactly those due, in order; the
  reply handed out is the one to the request written `strays` exchanges earlier.
* `ReportsConserved`: reports in flight plus those consumed are those emitted. So
  every unsolicited control report leaves the channel one deeper for good.
* `ImplementsRequestReply`: the above as behaviour.
* `ExchangeEnds`, `EventsDispatched`: liveness, with the escape the code needs: the
  read of the pipe has no timeout and its write end outlives the listener, and a
  full pipe blocks the listener.
* `CleanScanExact`: what a scan reports when nothing fails, nothing is misread and no
  stray comes.
* `NothingMixedUp`: what it reports otherwise. A device at whose index something was
  misread may be described by anything; every other has features and buttons of the
  hardware at its own index, whatever fails and strays elsewhere. That a device is
  there at all needs that no stray has come.
* `CollectedOwnsAll`, `OnlyTheseLeak`: after any failure and any stray, what is
  collected can be freed, and what is leaked is at most features, name, buttons. That
  no button is freed twice holds of devices whose buttons were counted; of the others
  `scan_error` is about.
* `ScanEnds`: the scan ends if its exchanges do, or stays in the loop of a name whose
  length is one for which that loop has no end.
* `InBounds`, `NameWhole`, `LoopEnds`: the name's copy, for any chunk contents.
  `NameWhole` also says when the byte kept for the terminating NUL stays
  unwritten: when the length is a positive multiple of 16.
* `RegistryFollows`, `NothingForgotten`: when the monitor has caught up, the registry is
  what is plugged in, each receiver once and as plugged in last, although an event may
  be handled long after what it tells of has changed again; and no receiver is lost
  on the way, but one whose release failed.
* `DefinedUnlessRaced`: the monitor alone never uses memory that it may not, but for the
  NULL that it may get instead of an event; main does only after a removal (it keeps a
  stale count and a receiver being freed under it), or when the array moves while it
  reads it. After `slavery_free` has begun nothing is said of the monitor, which goes on.
* `MonitorWholeOrNot`: `slavery_monitor_new` leaves a running monitor with all it needs,
  or nothing.
* `EventsHandled`: given that the monitor's own scans return. They need not: the receiver
  may go, its listener may have died, or a name may have a length that has no end.
* `MainGetsOn`: between its waits (a scan, the user, an input that has ended) main is
  never stuck.
* `NullLeavesLittle`: the error returns of `slavery_receiver_from_devnode` close all that
  is open and leave one block, the copy of the devnode.
* `FaultsExplained`: the owner never misuses memory, through repeated scans and the
  release; the others do only for the two reasons the code gives them.
* `Recognised`: a calm worker's report is that of its own device, as the last scan saw it.
* `FreeReturns`: what 0 and -1 of `slavery_receiver_free` mean. 0 leaves behind the devices
  and arrays of earlier scans, contrary to `libslavery.h:71`, which is `FreeFreesAll`.
* `WorkersEnd`, `FreeEnds`: a worker ends although bound and array change under it; the
  release returns also when the listener waits for room in the pipe.
* `EntriesExact`, `HeapExact`: entries and blocks are what the document says, whatever
  the ignored members between them hold.
* `EntriesFit`: the size asked for is short, the size got is not.
* `FaultsKnown`: exactly when memory is misused, in terms of the document and the file.

### Bounds

* Channel: two slots stand for the sixteen or so packets of a pipe. Four requests
  and two notices fill them, empty them and block the listener with a reply and
  with a notice in its hands; two presses put an event before and behind a blocked
  report. The proofs hold for every value.
* Scan: the loop over six indexes treats each alike; two show a device after a
  collected and after an abandoned one. Three of the nine features steer the
  scan (root aborts it, name_type and controls_v4 address later requests); the
  others only take up exchanges. Kinds: a mouse with one button and a two-chunk
  name, a keyboard, a mouse with no buttons. `IndexRange` stands for the 256 values of
  a button's index: 2, so that a count that was read is at most 1, and what `malloc` left
  there, up to `MaxButtons`, 3, goes past the range and stores in the first cell again.
  `MaxErrors` and `MaxStrays` are one each, enough for an error and a stray
  in any two exchanges. A keyboard without controls covers a feature that is missing.
* Name: the lengths are the boundaries: none, less than, exactly and more than one
  chunk, the last length whose offset cannot wrap whatever arrives, and the last one
  whose offset cannot wrap for a device that pads its chunks.
* Registry: two devnodes, with receivers or without at the start, and two pluggings
  give unplug and replug behind one event, two removals, a removal in front of
  another receiver, and a move of the array. Symmetry in the devnodes is sound
  for the invariants; the liveness run does without it, and needs only one plugging. It
  also lets one release fail (`MaxUnfreed`), of a removal or of `slavery_free`.
  `CellsPerReceiver` is 2 instead of the 9 of a 64-bit build: what matters is that there
  is a cell past the last.
* Lifecycle: one worker, since workers write nothing that is shared and the listener
  looks at the last one only; two indexes, for a device in front of another, a match
  that is not the last and a growth after a growth; two scans, for what the second
  drops. The proofs hold for every number of each.
* Configuration: each member is ordinary, bare, or wrong in one respect, with lists of
  up to two items; four of them let `realloc` grow past the 24 bytes of the smallest
  block. `PointerBytes` and `UsableBytes` are those of a 64-bit glibc.

### Deadlock

`CHECK_DEADLOCK FALSE` throughout: a channel whose receiver is unplugged, a
finished scan, a returned function and a fault have nothing more to do. Being stuck where
something is owed is what the liveness properties are for.

### Fairness

* Channel: weak fairness of the hardware's answer, of the listener's steps and of the
  requester's read: running threads are scheduled, and a present device replies to
  what it was sent. None for requests, notices, presses, unplugging or failures.
  Weak fairness is enough since each step stays enabled until it is taken or the
  receiver goes.
* Scan: weak fairness of asking and of being answered: the loop in the code has no
  other wait, and that exchanges end is `ExchangeEnds` of the channel, while receiver
  and listener live.
* Registry: weak fairness of both threads where they run: of the monitor outside its
  scans, and of a receive only when there is an event, of main outside its scans and
  its wait for the user. None of a scan, which may hang, of the user, of plugging, nor
  of the failures. `EventsHandled` makes its assumption, that scans return, itself.
* Lifecycle: weak fairness of each worker, of the owner once it has begun the release,
  and of the listener when it dispatches or has been cancelled: running threads are
  scheduled, and a cancellation takes effect in a call that waits. None of its reads
  and writes, which may wait for ever, nor of the owner's decision to scan or free.
* Name: weak fairness of the exchanges, not of failing ones.

## 4. Proofs

All are for every value of the constants, from the `ASSUME`d ranges of the constants
alone (`BoundsAssumption`, `ScanAssumption`, `LengthsAssumption`,
`RegistryAssumption`, `DispatchAssumption`, `LifecycleAssumption`,
`ConfigAssumption`). Every invariant that a run checks is a theorem here.

* `TypeCorrect`, `InvCorrect`, `LagCorrect`, `ChannelImplements`
  (`ControlChannelProofs`). `LagIsStrays` is not inductive: when the requester
  takes a packet, nothing in it says that this is the right reply. `Inv` adds that
  replies in flight are due (`RepliesPending`), that none is missing
  (`RepliesPresent`) and that they are ordered across pipe, hands and queue
  (`RepliesOrdered`). Order alone would allow a gap at the front, presence alone a
  later reply in front; together they give lemma `HeadIsDue`: a reply at the head
  of the pipe is number `Received + 1`. The proof has a lemma per kind of move of
  a report (arrive, read, redirect, leave as an event, request, receive), as the
  actions are these moves. `QuietIfNoNotice` is there for the refinement: a stray
  needs a notice. `ChannelImplements` maps `Request` to `Call`, `RequestFails` to
  `Refuse`, `ReadResponse` to `Reply` or `Stray`, everything else to a stutter.
* `ConservedCorrect` (`ControlChannelProofs`). `ReportsConserved` is inductive given the
  types, once it is put as a sum: lemma `CountConcatenation` counts a concatenation
  part by part (the positions of the second part are those of its own, shifted, a
  bijection), and what remains is one report changing places in each step.
* `TypeCorrect`, `OwnsCorrect`, `LeaksCorrect`, `MixCorrect`, `CleanCorrect`
  (`DeviceScanProofs`). Lemma `Exchanged` reduces each exchange to an `Outcome`: refused,
  an error or data, which is the truth unless the index is then `misled`. That no stray
  means no device made up needs `InOrder`: until one comes the only reply to come is the
  one waited for. Three layers
  follow. `ScanInv` says at each step which blocks of the device in hand are allocated
  (`Allocated`), which is what the frees of each error return have to match, and that
  each cell of a counted device holds the button of its own round (`Construction`), since
  a byte holds the count. `MixInv` says that the features and buttons the device has so
  far are a part of those of the hardware at its index, unless that index is `misled`. `CleanInv` says, if nothing has failed, exactly which part
  (`DeviceClean`) and that every index behind has been given its due
  (`CollectedClean`). None of the properties themselves is inductive: they say nothing of a
  device before it is collected.
* `TypeCorrect`, `BoundsCorrect`, `NameCorrect` (`DeviceNameProofs`). The bound follows from
  `extent <= len + 1` and from the room left being subtracted. For `NameCorrect`
  the invariant says that while all chunks were padded, the offset and the place
  of the copy are equal multiples of 16, or the offset has wrapped around (length
  255) and the buffer is full.
* `TypeCorrect`, `SetupCorrect` (`ReceiverRegistryProofs`). That the array and the
  numbers of its cells stay in range is a matter of how many receivers can be made at
  all. `CountInv` bounds those made together with those still owed, one for each devnode
  enumerated and not yet tried and one for each add event under way (`ToMake`). `SetupInv`
  ties what `slavery_monitor_new` holds to how far it has come.
* `NothingForgottenCorrect`, `DefinedCorrect`, `RegistryCorrect`
  (`ReceiverRegistryOrderProofs`). Each holds unless the monitor ran while main was
  enumerating (`raced`), since only then do both write the array. `CellsInv` says that
  below `count` each cell holds a receiver that is alive, no two the same, and that each
  receiver alive, that is neither freed nor given up by a release that failed (`Gone`), is
  there or in the hands of the thread that has just made it (`Contents`); while the monitor removes one, one cell is out of use (`InUse`), the one
  it is shifting to or the last. `EarlyInv` starts this off: before the enumeration
  nothing has been made. `LoopInv` is what main's stale `found` is still worth: no more
  than `count`, as long as nothing has gone. `RegistryFollows` speaks of a
  monitor that has caught up; the invariant behind it, `FollowInv`, has to speak of every
  moment before. Of each devnode the events not yet handled alternate, and the last one
  tells the truth (`Alternates`); a devnode that has a receiver is removed before it is
  added again (`RemovesFirst`), so that it has one at most (`Unique`); and a devnode that
  no event concerns has its receiver, of its present life, just if it should
  (`UpToDate`).
* `TypeCorrect`, `NullCorrect`, `FaultsCorrect`, `ReturnsCorrect`, `RecognisedCorrect`
  (`ReceiverLifecycleProofs`), all from one invariant, `LifeInv`. `HeldInv`,
  `ListenerInv` and `StepInv` say what is held, which thread is where and how far the
  owner has come. `ArrayInv` is the heart of the release: the written cells (`Filled`,
  which knows about the two unsequenced stores) are as many as `numDevices` and
  strictly increasing places in `devices`, so no device is in two cells and none is
  freed twice. `ScanInv` says that these are exactly the devices of the last scan, but
  for the one on its way (`DeviceWaits`), which gives what a release leaves behind.
  `InPeace` is what a calm worker knows: its bound, its pointer, and that its result is
  the device of that index among the cells behind it, or that there is none there.
  The lemmas follow the actors: what a step that leaves the owner's part alone
  preserves (`OwnerFrame`), what an owner at work does to workers, which is nothing as
  none of them is calm (`OwnerAtWork`, `OwnerBegins`), and then one lemma per action.
* `TypeCorrect`, `FitCorrect`, `FaultsCorrect`, `EntriesCorrect`, `HeapCorrect`
  (`ConfigReadProofs`). `FitCorrect` rests
  on the arithmetic of `UsableBytes`: the next multiple of 16 is never less than 8
  bytes away. The others need to know, at each key, that the earlier keys were of a
  type they may have (`KeysRead`), so that a member that reaches `growing` is
  well-formed and one that is ignored is not; `Done` separates the member in hand from
  those behind it. `HeapExact` speaks of members that are done with; the one in
  hand has what its keys have made so far (`SoFar`), and wherever it is given up or
  stored that is what `Left` says, because an earlier key of the wrong type would have
  ended it before (`LeftWhenStopped`, `LeftWhenRead`).

Only model-checked: the liveness properties (`ExchangeEnds`, `EventsDispatched`,
`LoopEnds`, `ScanEnds`, `EventsHandled`, `MainGetsOn`, `WorkersEnd`, `FreeEnds`), since
reasoning about fairness and `ENABLED` is out of the prover's reach; and the five
violations of section 5, which need a behaviour and not a proof.

## 5. Findings

1. `receiver.c:476`: the FIXME at `receiver.c:353` fears a pipe that grows; it is bounded
   and blocks the listener, and with it all events, once enough unsolicited
   reports have arrived (`channel_blocked`).
2. `device.c:330`: for a name of 255 bytes the request's offset wraps to 0 and
   `get_name` asks for ever (`name_endless`).
3. `receiver.c:173`: a failed `get_num_buttons` is not noticed and the device is
   returned with `num_buttons` as `malloc` left it (`scan_error`).
4. `libslavery.c:90`: a receiver plugged in between `slavery_new` and the enumeration is
   found by the enumeration and added by the monitor: it is counted twice
   (`registry_race`).
5. `receiver.c:100`: a second scan of a receiver drops the devices and the array of the
   first, so `slavery_receiver_free` cannot free "all memory created under the context of
   the receiver" (`libslavery.h:71`) when it returns 0 (`lifecycle_free`). Main does scan a
   second time a receiver that the monitor has added and a removal has shifted to an
   index still to come.

`FaultsKnown`, which holds, lists what reading a configuration misuses. Two of these show
wherever `slavery_config_new` is called: `config->entries` is given to `realloc` before
anything has set it (`config.c:354`), so whether even the one entry of
`tests/test_config.c:21` is listed depends on what `malloc` left there; and the warning of
`config.c:240` lacks its argument.

## 6. Not modelled, and why

* Virtual input (`virtual_input.c`): both calls of it are commented out
  (`receiver.c:320`, `event.c:62`), so it has no caller to give it states.
* Logging, `utils.c`: formatting and terminal output; no state. The one effect on the
  rest, that a warning is a cancellation point, is in `ReceiverLifecycle`.
* `slavery_monitor_free`: nothing calls it.
* The report descriptor (`receiver.c:326-351`): only its failure, a row of
  `Acquisitions`; what it holds is logged.
* `slavery_device_set_config`, `slavery_device_remap_button`, `slavery_config_free`: empty.
* The names of actions in `config.h`: used by nothing but code that is commented out.
* `malloc`, `realloc` and `strdup` returning NULL: the code never looks, and a model in
  which each may fail would say only that. The same goes for a `num_buttons` that was
  never read and is so large that the array's size overflows or is refused.
* hidraw's ring overflowing: see ControlChannel above.
* The descriptor, the mapping and the parsed JSON of `slavery_config_new`: released on no
  path, so there is nothing to tell a right run from a wrong one.
* The order in which workers of successive events report: any order, in code and model
  alike; nothing promises another.
* Two threads that own one receiver, inside a scan of it: `ReceiverRegistry` takes the
  scan as one step with a beginning and an end, and counts a release meanwhile as a
  fault; what that would do to the array is not followed.

## 7. Plan

Done: the channel and what it implements, the name, the scan, the registry with the
start of the monitor, the lifecycle with the workers, the configuration; proofs of every
safety property of these.

What is left: the scan over `ControlChannel` itself instead of `RequestReply`, on a tiny
instance.
