---------------------------- MODULE ControlChannel ----------------------------
(***************************************************************************)
(* The control channel of one receiver (receiver.c, and the write/read     *)
(* pairs of device.c that use it).                                         *)
(*                                                                         *)
(*   requester --write(fd)--> hardware --reports--> hidraw queue (fd)      *)
(*       ^                                               |                 *)
(*       |                                        listener thread          *)
(*       +---- control pipe <--- all but 0x20 -----------+                 *)
(*                                                       +-- 0x20 --> new  *)
(*                                                           worker thread *)
(*                                                                         *)
(* The requester is the thread that scans the receiver's devices.  It      *)
(* writes one request and then blocks on the pipe for one report, whatever *)
(* that report is: nothing ties a report to a request.  Requests and the   *)
(* replies they cause are numbered here so that properties can tell        *)
(* whose reply was handed out; the program has no such number.             *)
(***************************************************************************)
EXTENDS Naturals, Sequences, FiniteSets

CONSTANTS
  MaxRequests,   \* bound: requests written to the receiver
  MaxNotices,    \* bound: control reports that reply to no request
  MaxPresses,    \* bound: button event reports
  PipeSlots      \* packets a pipe2(O_DIRECT) pipe holds before write() blocks

ASSUME BoundsAssumption ==
  /\ MaxRequests \in Nat
  /\ MaxNotices \in Nat
  /\ MaxPresses \in Nat
  /\ PipeSlots \in Nat \ {0}

VARIABLES
  plugged,    \* the receiver is present; write() to fd can succeed
  sent,       \* requests written, the last of them is request number sent
  answered,   \* requests the hardware has replied to, in request order
  notices,    \* unsolicited control reports the hardware has emitted
  presses,    \* button event reports the hardware has emitted
  hidraw,     \* reports queued on receiver->fd
  listener,   \* where slavery_receiver_listen is
  held,       \* its response_data: the report it is handling
  dispatched, \* worker threads started with slavery_event_dispatch
  pipe,       \* packets in receiver->control_pipe
  requester,  \* is a request waiting in slavery_receiver_control_read_response?
  returned,   \* what the last exchange came back with
  strays      \* history: exchanges that came back with an unsolicited report

hardwareVars  == <<plugged, answered, notices, presses>>
listenerVars  == <<listener, held, dispatched>>
requesterVars == <<sent, requester, returned, strays>>
vars == <<hardwareVars, hidraw, listenerVars, pipe, requesterVars>>

-------------------------------------------------------------------------------
(* Reports.  of is the number of the request a reply belongs to, 0 for the *)
(* others; error says that byte 2 is SLAVERY_FEATURE_INDEX_ERROR.          *)

ReplyReport   == [kind : {"reply"}, of : Nat, error : BOOLEAN]
NoticeReport  == [kind : {"notice"}, of : {0}, error : BOOLEAN]
ControlReport == ReplyReport \cup NoticeReport
EventReport   == [kind : {"event"}, of : {0}, error : {FALSE}]
Report        == ControlReport \cup EventReport

Reply(n, e) == [kind |-> "reply",  of |-> n, error |-> e]
Notice(e)   == [kind |-> "notice", of |-> 0, error |-> e]
Press       == [kind |-> "event",  of |-> 0, error |-> FALSE]
NoReport    == [kind |-> "none",   of |-> 0, error |-> FALSE]
Refusal     == [kind |-> "refused", of |-> 0, error |-> TRUE]

Init ==
  /\ plugged = TRUE
  /\ sent = 0
  /\ answered = 0
  /\ notices = 0
  /\ presses = 0
  /\ hidraw = <<>>
  /\ listener = "reading"
  /\ held = NoReport
  /\ dispatched = 0
  /\ pipe = <<>>
  /\ requester = "idle"
  /\ returned = NoReport
  /\ strays = 0

-------------------------------------------------------------------------------
(* The hardware and the kernel's hidraw queue.                             *)

\* The receiver replies to the oldest unanswered request, with data or with
\* an error report.
Answer(e) ==
  /\ plugged
  /\ answered < sent
  /\ answered' = answered + 1
  /\ hidraw' = Append(hidraw, Reply(answered + 1, e))
  /\ UNCHANGED <<plugged, notices, presses, listenerVars, pipe, requesterVars>>

\* A control report that replies to none of our requests: a notification, or
\* the reply to a request of another program that has the device open.
Notify(e) ==
  /\ plugged
  /\ notices < MaxNotices
  /\ notices' = notices + 1
  /\ hidraw' = Append(hidraw, Notice(e))
  /\ UNCHANGED <<plugged, answered, presses, listenerVars, pipe, requesterVars>>

\* A mouse event, report ID 0x20.
PressButton ==
  /\ plugged
  /\ presses < MaxPresses
  /\ presses' = presses + 1
  /\ hidraw' = Append(hidraw, Press)
  /\ UNCHANGED <<plugged, answered, notices, listenerVars, pipe, requesterVars>>

\* The receiver is removed.  Reports already queued can still be read.
Unplug ==
  /\ plugged
  /\ plugged' = FALSE
  /\ UNCHANGED <<answered, notices, presses, hidraw, listenerVars, pipe,
                 requesterVars>>

-------------------------------------------------------------------------------
(* The listener thread: slavery_receiver_listen.                           *)

\* The switch on the report's first byte: events are given to a worker,
\* everything else to the control pipe.
Branch(r) == IF r.kind = "event" THEN "dispatching" ELSE "redirecting"

\* read() returns a report.
TakeReport(next) ==
  /\ listener = "reading"
  /\ hidraw # <<>>
  /\ held' = Head(hidraw)
  /\ hidraw' = Tail(hidraw)
  /\ listener' = next
  /\ UNCHANGED <<hardwareVars, dispatched, pipe, requesterVars>>

MutantListenOnDemand == requester = "waiting" /\ TakeReport(Branch(Head(hidraw)))
MutantListenSkipsErrors ==
  TakeReport(IF Head(hidraw).error THEN "reading" ELSE Branch(Head(hidraw)))

ListenRead == TakeReport(Branch(Head(hidraw)))

\* read() fails once the receiver is gone and the queue is drained: the thread
\* returns.  Nobody is told, and the pipe stays open.
ListenReadFails ==
  /\ listener = "reading"
  /\ hidraw = <<>>
  /\ ~plugged
  /\ listener' = "exited"
  /\ UNCHANGED <<hardwareVars, hidraw, held, dispatched, pipe, requesterVars>>

MutantDispatchFallsThrough ==
  /\ listener = "dispatching"
  /\ dispatched' = dispatched + 1
  /\ listener' = "redirecting"
  /\ UNCHANGED <<hardwareVars, hidraw, held, pipe, requesterVars>>

\* An event is copied and given to a new detached worker thread.
Dispatch ==
  /\ listener = "dispatching"
  /\ dispatched' = dispatched + 1
  /\ held' = NoReport
  /\ listener' = "reading"
  /\ UNCHANGED <<hardwareVars, hidraw, pipe, requesterVars>>

\* A pthread call fails and the listener thread returns.  The event is dropped,
\* unless it is pthread_attr_destroy that fails, after the worker has started.
DispatchFails ==
  /\ listener = "dispatching"
  /\ dispatched' \in {dispatched, dispatched + 1}
  /\ held' = NoReport
  /\ listener' = "exited"
  /\ UNCHANGED <<hardwareVars, hidraw, pipe, requesterVars>>

\* Every other report goes to the control pipe; write() blocks while it is full.
RedirectInto(packets) ==
  /\ listener = "redirecting"
  /\ pipe' = packets
  /\ held' = NoReport
  /\ listener' = "reading"
  /\ UNCHANGED <<hardwareVars, hidraw, dispatched, requesterVars>>

MutantRedirectUnbounded == RedirectInto(Append(pipe, held))
MutantRedirectDropsWhenFull ==
  RedirectInto(IF Len(pipe) < PipeSlots THEN Append(pipe, held) ELSE pipe)
MutantRedirectToFront == Len(pipe) < PipeSlots /\ RedirectInto(<<held>> \o pipe)

Redirect == Len(pipe) < PipeSlots /\ RedirectInto(Append(pipe, held))

-------------------------------------------------------------------------------
(* The requester: the write() and the control read of a device.c exchange. *)

Request ==
  /\ requester = "idle"
  /\ plugged
  /\ sent < MaxRequests
  /\ sent' = sent + 1
  /\ requester' = "waiting"
  /\ UNCHANGED <<hardwareVars, hidraw, listenerVars, pipe, returned, strays>>

\* write() fails, as it does once the receiver is gone: the exchange ends.
RequestFails ==
  /\ requester = "idle"
  /\ returned' = Refusal
  /\ UNCHANGED <<hardwareVars, hidraw, listenerVars, pipe, sent, requester,
                 strays>>

\* slavery_receiver_control_read_response: the oldest packet of the pipe ends
\* the exchange; its error field decides between -1 and 0.
Receive(rest) ==
  /\ requester = "waiting"
  /\ pipe # <<>>
  /\ returned' = Head(pipe)
  /\ pipe' = rest
  /\ requester' = "idle"
  /\ strays' = IF Head(pipe).kind = "reply" THEN strays ELSE strays + 1
  /\ UNCHANGED <<hardwareVars, hidraw, listenerVars, sent>>

MutantPeekResponse == Receive(pipe)

ReadResponse == Receive(Tail(pipe))

Hardware  == (\E e \in BOOLEAN : Answer(e) \/ Notify(e)) \/ PressButton \/ Unplug
Listener  == ListenRead \/ ListenReadFails \/ Dispatch \/ DispatchFails \/ Redirect
Requester == Request \/ RequestFails \/ ReadResponse

Next == Hardware \/ Listener \/ Requester

Spec == Init /\ [][Next]_vars

\* The threads run and the hardware replies to what it was asked.  Nothing
\* forces a new request, an event, an unplugging or a failure.
Fairness ==
  /\ WF_vars(\E e \in BOOLEAN : Answer(e))
  /\ WF_vars(ListenRead)
  /\ WF_vars(Dispatch \/ DispatchFails)
  /\ WF_vars(Redirect)
  /\ WF_vars(ReadResponse)

FairSpec == Spec /\ Fairness

-------------------------------------------------------------------------------
(* Properties.                                                             *)

\* Types.  Only control reports reach the pipe, and never more than it holds.
TypeOK ==
  /\ plugged \in BOOLEAN
  /\ sent \in Nat
  /\ answered \in Nat
  /\ notices \in Nat
  /\ presses \in Nat
  /\ hidraw \in Seq(Report)
  /\ listener \in {"reading", "dispatching", "redirecting", "exited"}
  /\ listener = "redirecting" => held \in ControlReport
  /\ listener = "dispatching" => held \in EventReport
  /\ listener \in {"reading", "exited"} => held = NoReport
  /\ dispatched \in Nat
  /\ pipe \in Seq(ControlReport)
  /\ Len(pipe) <= PipeSlots
  /\ requester \in {"idle", "waiting"}
  /\ returned \in ControlReport \cup {NoReport, Refusal}
  /\ strays \in Nat

\* Exchanges that have come back with a report, and with a reply.
Completed == IF requester = "waiting" THEN sent - 1 ELSE sent
Received  == Completed - strays

IsReply(r) == r.kind = "reply"

\* Counters: what was received was answered, what was answered was sent.
CountersOK ==
  /\ notices <= MaxNotices
  /\ strays <= Completed
  /\ Received <= answered
  /\ answered <= sent

\* Every reply on its way is to a request that is answered but not received.
RepliesPending ==
  LET Pending(r) == IsReply(r) => Received < r.of /\ r.of <= answered
  IN  /\ \A i \in 1..Len(pipe) : Pending(pipe[i])
      /\ Pending(held)
      /\ \A i \in 1..Len(hidraw) : Pending(hidraw[i])

\* No such reply is missing: none is dropped between hardware and requester.
RepliesPresent ==
  \A k \in (Received + 1)..answered :
    \/ \E i \in 1..Len(pipe) : IsReply(pipe[i]) /\ pipe[i].of = k
    \/ IsReply(held) /\ held.of = k
    \/ \E i \in 1..Len(hidraw) : IsReply(hidraw[i]) /\ hidraw[i].of = k

Before(a, b) == IsReply(a) /\ IsReply(b) => a.of < b.of

\* Replies are in request order, across pipe, held and hidraw.
RepliesOrdered ==
  /\ \A i, j \in 1..Len(pipe) : i < j => Before(pipe[i], pipe[j])
  /\ \A i \in 1..Len(pipe) : Before(pipe[i], held)
  /\ \A i \in 1..Len(pipe), j \in 1..Len(hidraw) : Before(pipe[i], hidraw[j])
  /\ \A j \in 1..Len(hidraw) : Before(held, hidraw[j])
  /\ \A i, j \in 1..Len(hidraw) : i < j => Before(hidraw[i], hidraw[j])

\* A receiver that has emitted no unsolicited report has none on its way.
QuietIfNoNotice ==
  notices = 0 =>
    /\ \A i \in 1..Len(pipe) : IsReply(pipe[i])
    /\ held.kind # "notice"
    /\ \A i \in 1..Len(hidraw) : hidraw[i].kind # "notice"

\* The reply an exchange comes back with lags behind by exactly the number of
\* unsolicited reports handed out so far: the request it answers is the one
\* written that many exchanges earlier (receiver.c, "add flow control").
LagIsStrays ==
  requester = "idle" /\ IsReply(returned) => returned.of = sent - strays

\* The replies in flight are exactly those to the requests answered but not yet
\* received, in order: the inductive invariant behind LagIsStrays and the
\* refinement below.
Inv ==
  /\ TypeOK
  /\ CountersOK
  /\ RepliesPending
  /\ RepliesPresent
  /\ RepliesOrdered
  /\ QuietIfNoNotice
  /\ LagIsStrays

CountOf(q, kinds) == Cardinality({i \in DOMAIN q : q[i].kind \in kinds})

\* Nothing is lost or duplicated between fd and its consumers.  Each exchange
\* takes one control report, so every unsolicited one leaves the channel one
\* report deeper for good (receiver.c, "pipe grows and isn't read from"); and
\* every event is dispatched once, but for one that a failing listener drops.
ReportsConserved ==
  LET controls == {"reply", "notice"}
      events   == {"event"}
  IN  /\ CountOf(pipe \o <<held>> \o hidraw, controls)
           = answered + notices - Completed
      /\ presses - (dispatched + CountOf(<<held>> \o hidraw, events))
           \in IF listener = "exited" THEN {0, 1} ELSE {0}

\* The channel implements RequestReply: a call is an exchange, its question the
\* number of its request, and the backlog the requests whose replies are still
\* to be received.
RR == INSTANCE RequestReply
        WITH Questions <- 1..MaxRequests,
             Nothing   <- 0,
             MayStray  <- MaxNotices > 0,
             busy      <- requester = "waiting",
             backlog   <- [k \in 1..(sent - Received) |-> Received + k],
             answer    <- returned.of

\* Replies are handed out in the order of the requests and none is skipped.
ImplementsRequestReply == RR!Spec

\* An exchange ends, unless the receiver is unplugged or its listener thread
\* has died: then the requester may block in read() on the pipe for good, since
\* its write end stays open and the read has no timeout.
ExchangeEnds ==
  requester = "waiting" ~> requester = "idle" \/ ~plugged \/ listener = "exited"

ListenerBlocked == listener = "redirecting" /\ Len(pipe) = PipeSlots

EventQueued == \E i \in DOMAIN hidraw : hidraw[i].kind = "event"

\* A queued button event reaches a worker thread, unless the listener thread is
\* blocked on a full pipe or has died.
EventsDispatched ==
  EventQueued ~> ~EventQueued \/ ListenerBlocked \/ listener = "exited"

\* What the FIXME above slavery_receiver_listen says of unread reports ("pipe
\* grows"): they accumulate, and a listener that lives goes on dispatching.
ListenerKeepsDispatching == EventQueued ~> ~EventQueued \/ listener = "exited"
===============================================================================
