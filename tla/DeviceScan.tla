------------------------------ MODULE DeviceScan ------------------------------
(***************************************************************************)
(* slavery_receiver_scan_devices and slavery_receiver_get_device, with the *)
(* get_* functions of device.c: a long series of exchanges that asks each  *)
(* device index for its features, protocol, type, name and buttons, and    *)
(* collects the mice.                                                      *)
(*                                                                         *)
(* The exchanges go through RequestReply, which ControlChannel is shown to *)
(* implement: a refused write, the reply to the request written strays     *)
(* exchanges ago, or a stray.  What the code does with the outcome is      *)
(* modelled step by step; of the replies' bytes only what steers the scan  *)
(* or ends up in a device is kept.  The bytes of a name are DeviceName's.  *)
(***************************************************************************)
EXTENDS Naturals, Sequences, FiniteSets

LOCAL INSTANCE SequencesExt

CONSTANTS
  LastIndex,   \* SLAVERY_DEVICE_INDEX_6
  FeatureIds,  \* what slavery_device_get_features asks for, in its order: root,
               \* feature_set, firmware, name_type, reset, crypto, battery, host,
               \* controls_v4 (a sequence)
  NoDevice,    \* nothing is paired at an index
  Kinds,       \* the devices that may be: [type, features, chunks, buttons]
  ButtonIds,   \* control IDs
  IndexRange,  \* values of the uint8_t that a button's index goes through: 256
  MaxChunks,   \* bound: exchanges a name takes, if it ends
  MaxButtons,  \* bound: what malloc may have left in num_buttons
  MaxErrors,   \* bound: exchanges that fail though the device is there
  MaxStrays    \* bound: unsolicited reports handed to the scan

Features == {FeatureIds[i] : i \in DOMAIN FeatureIds}

Indexes == 1..LastIndex

\* The exchanges for a name are for DeviceName to tell; of some lengths, as of 255
\* bytes, the loop never ends.
Endless == 0

KindType == [type     : {"mouse", "other"},
             features : SUBSET Features,
             chunks   : {Endless} \cup 1..MaxChunks,
             buttons  : Seq(ButtonIds)]

ASSUME ScanAssumption ==
  /\ LastIndex \in Nat \ {0}
  /\ FeatureIds \in Seq(STRING)
  /\ {"root", "name_type", "controls_v4"} \subseteq Features
  /\ {MaxChunks, MaxButtons, MaxErrors, MaxStrays} \subseteq Nat
  /\ IndexRange \in 1..MaxButtons
  /\ Kinds \subseteq KindType
  /\ NoDevice \notin Kinds
  /\ \A k \in Kinds : Len(k.buttons) < IndexRange

VARIABLES
  busy, backlog, answer,  \* the channel, as RequestReply has it
  hardware,  \* what is paired at each index
  index,     \* device_index
  step,      \* the exchange get_device is at, or "done"
  progress,  \* how many exchanges this step has behind it
  chunks,    \* how many exchanges the name takes, or Endless
  device,    \* the device under construction
  devices,   \* receiver->devices
  heap,      \* blocks allocated and not freed, as <<index, part>>
  errors,    \* history: exchanges that failed though the device is there
  misled     \* history: indexes at which anything but the answer to the question
             \* was read as that answer

channel == <<busy, backlog, answer>>
scan    == <<index, step, progress, chunks, device, devices, heap>>
history == <<errors, misled>>
vars    == <<channel, scan, hardware, history>>

Steps == {"feature", "protocol", "type", "length", "name", "count", "button"}

\* The button_index that get_button is given.
Byte == progress % IndexRange

Question == [index |-> index, step |-> step,
             arg |-> IF step = "button" THEN Byte + 1 ELSE progress + 1]

RR == INSTANCE RequestReply
        WITH Questions <- [index : Indexes, step : Steps, arg : Nat],
             Nothing   <- [index |-> 0, step |-> "none", arg |-> 0],
             MayStray  <- MaxStrays > 0

\* Strays handed out so far: each has left one reply to come.
strays == Len(backlog) - (IF busy THEN 1 ELSE 0)

\* A device fresh from malloc.  buttons: what each of its cells points to, a button
\* (cid) that get_button made in some round.  unread: members used unread.
Blank == [features |-> {}, type |-> "unset", buttons |-> <<>>, count |-> 0,
          unread |-> {}]

Init ==
  /\ RR!Init
  /\ errors = 0
  /\ misled = {}
  /\ hardware \in [Indexes -> Kinds \cup {NoDevice}]
  /\ index = 1
  /\ step = "feature"
  /\ progress = 0
  /\ chunks = 0
  /\ device = Blank
  /\ devices = <<>>
  /\ heap = {<<1, "device">>}

-------------------------------------------------------------------------------
(* What is asked, and what the bytes of a reply may be read as.            *)

\* Anything the code may read at this step: out of a packet, whatever it holds, or,
\* where there is none, out of memory that was never written.
Readings(how) ==
  [feature  |-> BOOLEAN,
   protocol |-> {TRUE},
   type     |-> {"mouse", "other"},
   length   |-> {Endless} \cup 1..MaxChunks,
   name     |-> {TRUE},
   count    |-> IF how = "data" THEN 0..(IndexRange - 1) ELSE 0..MaxButtons,
   button   |-> ButtonIds][step]

\* What the reply to the question says when device k answers it.
Truth(k) ==
  [feature  |-> step = "feature" /\ FeatureIds[progress + 1] \in k.features,
   protocol |-> TRUE,
   type     |-> k.type,
   length   |-> k.chunks,
   name     |-> TRUE,
   count    |-> Len(k.buttons),
   button   |-> IF Byte < Len(k.buttons) THEN k.buttons[Byte + 1] ELSE 0
  ][step]

\* Requests are addressed by slavery_feature_id_to_index; for a feature that was
\* not found that is -1, sent as 0xff.
Addressed ==
  /\ step \in {"type", "length", "name"} => "name_type" \in device.features
  /\ step \in {"count", "button"} => "controls_v4" \in device.features

\* A device answers what it understands: its feature, and a button it has.
Understood ==
  /\ hardware[index] # NoDevice
  /\ Addressed
  /\ step = "button" => Byte < Len(hardware[index].buttons)

-------------------------------------------------------------------------------
(* The functions that use an exchange, one per step.  how is "refused" (the *)
(* write failed), "error" (control_read_response returned -1) or "data".   *)

Allocate(part) == heap \cup {<<index, part>>}

\* The end of get_device: the loop in scan_devices goes on to the next index, if
\* there is one, and the device for it is allocated.
LeaveFor(more, blocks) ==
  /\ index' = index + 1
  /\ step' = IF more THEN "feature" ELSE "done"
  /\ progress' = 0
  /\ chunks' = 0
  /\ device' = Blank
  /\ heap' = blocks \cup (IF more THEN {<<index + 1, "device">>} ELSE {})

MutantLeavePastLast(blocks) == LeaveFor(index <= LastIndex, blocks)
MutantLeaveBeforeLast(blocks) == LeaveFor(index + 1 < LastIndex, blocks)

Leave(blocks) == LeaveFor(index < LastIndex, blocks)

\* get_device returns NULL, having freed these parts and the device.
Blocks(parts) == {<<index, p>> : p \in parts}

MutantAbandonKeepsDevice(parts) == Leave(heap \ Blocks(parts)) /\ UNCHANGED devices

Abandon(parts) == Leave(heap \ Blocks(parts \cup {"device"})) /\ UNCHANGED devices

Publish(d, blocks) ==
  /\ Leave(blocks)
  /\ devices' = Append(devices, [index |-> index, kind |-> d])

Goto(next) ==
  /\ step' = next
  /\ progress' = 0
  /\ UNCHANGED <<index, devices>>

MutantAgainStandsStill == UNCHANGED <<index, step, progress, devices>>

Again ==
  /\ progress' = progress + 1
  /\ UNCHANGED <<index, step, devices>>

\* get_feature within get_features: only the root feature is indispensable.
Feature(how, found) ==
  LET has == how = "data" /\ found
      id  == FeatureIds[progress + 1]
  IN  IF id = "root" /\ ~has
      THEN Abandon({})
      ELSE /\ device' = IF has THEN [device EXCEPT !.features = @ \cup {id}] ELSE device
           /\ heap' = IF has THEN Allocate("features") ELSE heap
           /\ IF progress + 1 < Len(FeatureIds) THEN Again ELSE Goto("protocol")
           /\ UNCHANGED chunks

Protocol(how, v) ==
  IF how = "data"
  THEN /\ heap' = Allocate("protocol")
       /\ Goto("type")
       /\ UNCHANGED <<chunks, device>>
  ELSE Abandon({})

\* get_type: a failed read returns UNKNOWN, but a failed write returns -1, which
\* is another value, and device->type is compared as malloc left it.
Type(how, type) ==
  IF how = "error" \/ type # "mouse"
  THEN Abandon({"protocol"})
  ELSE /\ device' = [device EXCEPT !.type = type,
                       !.unread = IF how = "data" THEN @ ELSE @ \cup {"type"}]
       /\ Goto("length")
       /\ UNCHANGED <<chunks, heap>>

NameLength(how, n) ==
  IF how = "data"
  THEN /\ chunks' = n
       /\ heap' = Allocate("name")
       /\ Goto("name")
       /\ UNCHANGED device
  ELSE Abandon({"protocol"})

NameChunk(how, v) ==
  IF how = "data"
  THEN /\ \/ chunks = Endless      /\ UNCHANGED <<index, step, progress, devices>>
          \/ progress + 1 < chunks /\ Again
          \/ progress + 1 = chunks /\ Goto("count")
       /\ UNCHANGED <<chunks, device, heap>>
  ELSE Abandon({"protocol"})

\* get_num_buttons returns -1 when it fails, and get_device only tests for 0: it
\* goes on with num_buttons as malloc left it.
Count(how, n) ==
  LET counted == [device EXCEPT !.count = n,
                    !.unread = IF how = "data" THEN @ ELSE @ \cup {"count"}]
  IN  IF how = "data" /\ n = 0
      THEN Abandon({"protocol", "name"})
      ELSE IF n = 0
      THEN Publish(counted, Allocate("buttons"))
      ELSE /\ device' = counted
           /\ heap' = Allocate("buttons")
           /\ Goto("button")
           /\ UNCHANGED chunks

\* buttons[i] = get_button(device, i), which stores the button too, at a byte's i:
\* from round 256 on both cells point to it, and what the earlier one held is lost.
Stored(buttons, button) ==
  [i \in 1..(progress + 1) |->
     IF i \in {Byte + 1, progress + 1} THEN button ELSE buttons[i]]

\* get_button, then the loop over the buttons in get_device.
Fill(cid, last) ==
  LET button   == [cid |-> cid, round |-> progress]
      extended == [device EXCEPT !.buttons = Stored(@, button)]
  IN  IF last
      THEN Publish(extended, Allocate("button"))
      ELSE /\ device' = extended
           /\ heap' = Allocate("button")
           /\ Again
           /\ UNCHANGED chunks

MutantButtonUnchecked(how, cid) == Fill(cid, progress + 1 >= device.count)
MutantButtonStopsEarly(how, cid) ==
  IF how = "data" THEN Fill(cid, progress + 1 >= device.count)
                  ELSE Publish(device, heap)

Button(how, cid) ==
  IF how = "data" THEN Fill(cid, progress + 1 >= device.count)
                  ELSE Abandon({"buttons", "protocol", "name"})

Use(how, v) ==
  \/ step = "feature"  /\ Feature(how, v)
  \/ step = "protocol" /\ Protocol(how, v)
  \/ step = "type"     /\ Type(how, v)
  \/ step = "length"   /\ NameLength(how, v)
  \/ step = "name"     /\ NameChunk(how, v)
  \/ step = "count"    /\ Count(how, v)
  \/ step = "button"   /\ Button(how, v)

-------------------------------------------------------------------------------
(* The exchanges.                                                          *)

Ask ==
  /\ step # "done"
  /\ RR!Call(Question)
  /\ UNCHANGED <<scan, hardware, history>>

\* What is read as data misleads the scan, if it is not the answer.
Misread(how) == misled' = IF how = "data" THEN misled \cup {index} ELSE misled

WriteFails ==
  /\ step # "done"
  /\ RR!Refuse
  /\ errors < MaxErrors
  /\ errors' = errors + 1
  /\ \E v \in Readings("refused") : Use("refused", v)
  /\ UNCHANGED <<hardware, misled>>

\* The reply to this question: the truth, if the device understands it.
OwnReply ==
  /\ RR!Reply
  /\ answer' = Question
  /\ Understood
  /\ Use("data", Truth(hardware[index]))
  /\ UNCHANGED <<hardware, history>>

\* A request that the receiver cannot deliver gets an error report (0x8f), which is
\* recognised.  One that the device does not understand gets the device's own (0xff),
\* which is read as data; so is anything that it says when it has misled the scan.
NotUnderstood ==
  /\ RR!Reply
  /\ answer' = Question
  /\ ~Understood \/ index \in misled
  /\ \E how \in {"error"} \cup (IF hardware[index] = NoDevice THEN {} ELSE {"data"}) :
       /\ \E v \in Readings(how) : Use(how, v)
       /\ Misread(how)
  /\ UNCHANGED <<hardware, errors>>

\* The device is there and answers with an error all the same, of either kind.
ErrorReply ==
  /\ RR!Reply
  /\ answer' = Question
  /\ Understood
  /\ errors < MaxErrors
  /\ errors' = errors + 1
  /\ \E how \in {"error", "data"} :
       (\E v \in Readings(how) : Use(how, v)) /\ Misread(how)
  /\ UNCHANGED hardware

\* The reply to an earlier question, read as if it were to this one.
StaleReply ==
  /\ RR!Reply
  /\ answer' # Question
  /\ \E how \in {"error", "data"} :
       (\E v \in Readings(how) : Use(how, v)) /\ Misread(how)
  /\ UNCHANGED <<hardware, errors>>

StrayReport ==
  /\ strays < MaxStrays
  /\ RR!Stray
  /\ \E how \in {"error", "data"} :
       (\E v \in Readings(how) : Use(how, v)) /\ Misread(how)
  /\ UNCHANGED <<hardware, errors>>

Answered == OwnReply \/ NotUnderstood \/ ErrorReply \/ StaleReply \/ StrayReport

Next == Ask \/ WriteFails \/ Answered

Spec == Init /\ [][Next]_vars

\* Exchanges are made and end (ControlChannel's ExchangeEnds).
FairSpec == Spec /\ WF_vars(Ask) /\ WF_vars(Answered)

-------------------------------------------------------------------------------
(* Properties.                                                             *)

DeviceType ==
  [features : SUBSET Features,
   type     : {"unset", "mouse"},
   buttons  : Seq([cid : ButtonIds, round : Nat]),
   count    : 0..MaxButtons,
   unread   : SUBSET {"type", "count"}]

Parts == {"device", "features", "protocol", "name", "buttons", "button"}

\* Types.
TypeOK ==
  /\ busy \in BOOLEAN
  /\ backlog \in Seq([index : Indexes, step : Steps, arg : Nat])
  /\ strays \in 0..MaxStrays
  /\ hardware \in [Indexes -> Kinds \cup {NoDevice}]
  /\ index \in 1..(LastIndex + 1)
  /\ step \in Steps \cup {"done"}
  /\ progress \in Nat
  /\ step = "feature" => progress < Len(FeatureIds)
  /\ chunks \in 0..MaxChunks
  /\ device \in DeviceType
  /\ devices \in Seq([index : Indexes, kind : DeviceType])
  /\ heap \subseteq Indexes \X Parts
  /\ errors \in 0..MaxErrors
  /\ misled \subseteq Indexes

\* What a device says to a request for a feature that it lacks is not ours to
\* tell.  Of the others, those that a scan is to find, and what it is to find.
Predictable(k) ==
  k = NoDevice \/ /\ "name_type" \in k.features
                  /\ k.type = "mouse" => "controls_v4" \in k.features

Detectable(k) ==
  k # NoDevice /\ k.type = "mouse" /\ "root" \in k.features /\ k.buttons # <<>>

\* Buttons with these control IDs, in the order in which they are read.
Made(cids) == [i \in DOMAIN cids |-> [cid |-> cids[i], round |-> i - 1]]

Description(i) ==
  [index |-> i,
   kind  |-> [features |-> hardware[i].features, type |-> "mouse",
              buttons |-> Made(hardware[i].buttons),
              count |-> Len(hardware[i].buttons), unread |-> {}]]

\* A scan in which no exchange failed and no stray was handed out finds exactly
\* the mice that have buttons, each with its own features and buttons, in the
\* order of their indexes (scan_devices and get_device, receiver.c).
CleanScanExact ==
  /\ step = "done"
  /\ errors = 0
  /\ strays = 0
  /\ \A i \in Indexes : Predictable(hardware[i])
  =>
  /\ \A m, n \in DOMAIN devices : m < n => devices[m].index < devices[n].index
  /\ {devices[n] : n \in DOMAIN devices} =
       {Description(i) : i \in {j \in Indexes : Detectable(hardware[j])}}

\* Until a stray has been handed out every device collected is there; and whatever
\* exchanges fail and strays come, one at whose index nothing but answers was read as
\* answers has features that it has and the first of its buttons - all of them if
\* their number was read.  So what is misread, as the 0xff of a device's own errors
\* is, never spreads to the description of another device.
NothingMixedUp ==
  \A n \in DOMAIN devices :
    LET d == devices[n].kind
        k == hardware[devices[n].index]
    IN  /\ strays = 0 => k # NoDevice
        /\ devices[n].index \notin misled =>
             /\ k # NoDevice
             /\ d.features \subseteq k.features
             /\ IsPrefix(d.buttons, Made(k.buttons))
             /\ "count" \notin d.unread => d.buttons = Made(k.buttons)

\* slavery_device_free can be called on any device whose buttons were counted: all
\* that it frees is allocated, each of the num_buttons entries was filled in, and no
\* two point to one button.  (Where the count was not read they may: see Stored.)
CollectedOwnsAll ==
  \A n \in DOMAIN devices :
    LET d == devices[n].kind
        i == devices[n].index
    IN  /\ {<<i, p>> : p \in Parts \ {"button"}} \subseteq heap
        /\ d.count = Len(d.buttons)
        /\ d.buttons # <<>> => <<i, "button">> \in heap
        /\ "count" \notin d.unread =>
             \A c, e \in DOMAIN d.buttons : d.buttons[c] = d.buttons[e] => c = e

Collected(i) == \E n \in DOMAIN devices : devices[n].index = i

\* Of a device that was given up, only these blocks can be left behind: each
\* error return of get_device frees its own choice of what is allocated by then.
OnlyTheseLeak ==
  \A i \in 1..(index - 1) :
    Collected(i) \/ {p \in Parts : <<i, p>> \in heap} \subseteq {"features", "name", "button"}

\* If its exchanges end, a scan ends or reads a name of a length for which the loop
\* never does (NameReturned of DeviceName says of which).
ScanEnds == <>(step = "done") \/ <>[](step = "name" /\ chunks = Endless)

\* What libslavery.h says of slavery_receiver_get_device: "Device at the given
\* index, or NULL if no device/error".  So no device returned has a member that
\* the exchange meant to read failed to read.
ErrorMeansNull == \A n \in DOMAIN devices : devices[n].kind.unread = {}
===============================================================================
