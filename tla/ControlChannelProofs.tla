------------------------- MODULE ControlChannelProofs -------------------------
(***************************************************************************)
(* Proofs about ControlChannel, for every value of its constants.          *)
(***************************************************************************)
EXTENDS ControlChannel, SequenceTheorems, FiniteSetTheorems, FunctionTheorems, TLAPS

-------------------------------------------------------------------------------
(* Type correctness.                                                       *)

LEMMA TypeStep ==
  ASSUME TypeOK, [Next]_vars
  PROVE  TypeOK'
<1> USE DEF TypeOK
<1>1. ASSUME NEW e \in BOOLEAN, Answer(e)
      PROVE  TypeOK'
  <2>1. Reply(answered + 1, e) \in Report
    BY DEF Reply, Report, ControlReport, ReplyReport, NoticeReport
  <2>2. QED
    BY <1>1, <2>1
    DEF Answer, listenerVars, requesterVars
<1>2. ASSUME NEW e \in BOOLEAN, Notify(e)
      PROVE  TypeOK'
  <2>1. Notice(e) \in Report
    BY DEF Notice, Report, ControlReport, ReplyReport, NoticeReport
  <2>2. QED
    BY <1>2, <2>1 DEF Notify, listenerVars, requesterVars
<1>3. CASE PressButton
  <2>1. Press \in Report
    BY DEF Press, Report, EventReport
  <2>2. QED
    BY <1>3, <2>1 DEF PressButton, listenerVars, requesterVars
<1>4. CASE Unplug
  BY <1>4 DEF Unplug, listenerVars, requesterVars
<1>5. CASE ListenRead
  <2>1. /\ Head(hidraw) \in Report
        /\ Tail(hidraw) \in Seq(Report)
    BY <1>5 DEF ListenRead, TakeReport, Branch
  <2>2. IF Head(hidraw).kind = "event" THEN Head(hidraw) \in EventReport
                                     ELSE Head(hidraw) \in ControlReport
    BY <1>5, <2>1 DEF ListenRead, TakeReport, Branch, Report, EventReport, ControlReport, ReplyReport, NoticeReport
  <2>3. QED
    BY <1>5, <2>1, <2>2 DEF ListenRead, TakeReport, Branch, hardwareVars, requesterVars
<1>6. CASE ListenReadFails
  BY <1>6 DEF ListenReadFails, hardwareVars, requesterVars
<1>7. CASE Dispatch
  BY <1>7 DEF Dispatch, hardwareVars, requesterVars
<1>8. CASE DispatchFails
  BY <1>8 DEF DispatchFails, hardwareVars, requesterVars
<1>9. CASE Redirect
  BY <1>9, BoundsAssumption DEF Redirect, RedirectInto, hardwareVars, requesterVars
<1>10. CASE Request
  BY <1>10 DEF Request, hardwareVars, listenerVars
<1>11. CASE RequestFails
  BY <1>11 DEF RequestFails, hardwareVars, listenerVars
<1>12. CASE ReadResponse
  <2>1. /\ Head(pipe) \in ControlReport
        /\ Tail(pipe) \in Seq(ControlReport)
        /\ Len(Tail(pipe)) = Len(pipe) - 1
    BY <1>12 DEF ReadResponse, Receive
  <2>2. QED
    BY <1>12, <2>1, BoundsAssumption
    DEF ReadResponse, Receive, hardwareVars, listenerVars
<1>13. CASE UNCHANGED vars
  BY <1>13 DEF vars, hardwareVars, listenerVars, requesterVars
<1>14. QED
  BY <1>1, <1>2, <1>3, <1>4, <1>5, <1>6, <1>7, <1>8, <1>9, <1>10,
     <1>11, <1>12, <1>13
  DEF Next, Hardware, Listener, Requester

\* Every variable keeps its type; in particular the listener only ever writes
\* control reports to the pipe, and never more than the pipe holds.
THEOREM TypeCorrect == Spec => []TypeOK
<1>1. Init => TypeOK
  BY BoundsAssumption DEF Init, TypeOK, NoReport
<1>2. QED
  BY <1>1, TypeStep, PTL DEF Spec

-------------------------------------------------------------------------------
(* The replies in flight are exactly those to the requests answered but    *)
(* not received, in order.  Only the ordering and presence together give   *)
(* the next lemma: the packet a waiting requester takes is the reply due.  *)

LEMMA HeadIsDue ==
  ASSUME Inv, pipe # <<>>, IsReply(pipe[1])
  PROVE  pipe[1].of = Received + 1
<1>1. /\ Received \in Nat
      /\ 1 \in 1..Len(pipe)
      /\ pipe[1].of \in Nat
  <2>1. Received \in Nat
    BY DEF Inv, TypeOK, CountersOK, Received, Completed
  <2>2. Len(pipe) \in Nat /\ Len(pipe) # 0
    BY DEF Inv, TypeOK
  <2>3. pipe[1] \in ControlReport
    BY <2>2 DEF Inv, TypeOK
  <2>4. pipe[1].of \in Nat
    BY <2>3 DEF ControlReport, ReplyReport, NoticeReport
  <2>5. QED
    BY <2>1, <2>2, <2>4
<1> USE DEF Inv
<1>2. Received < pipe[1].of /\ pipe[1].of <= answered
  BY <1>1 DEF RepliesPending
<1>3. Received + 1 \in (Received + 1)..answered
  BY <1>1, <1>2 DEF TypeOK
<1>4. \/ \E i \in 1..Len(pipe) : IsReply(pipe[i]) /\ pipe[i].of = Received + 1
      \/ IsReply(held) /\ held.of = Received + 1
      \/ \E i \in 1..Len(hidraw) : IsReply(hidraw[i]) /\ hidraw[i].of = Received + 1
  BY <1>3 DEF RepliesPresent
<1>5. CASE \E i \in 1..Len(pipe) : IsReply(pipe[i]) /\ pipe[i].of = Received + 1
  <2>1. PICK i \in 1..Len(pipe) : IsReply(pipe[i]) /\ pipe[i].of = Received + 1
    BY <1>5
  <2>2. 1 < i => pipe[1].of < Received + 1
    BY <1>1, <2>1 DEF RepliesOrdered, Before
  <2>3. QED
    BY <1>1, <1>2, <2>1, <2>2
<1>6. CASE IsReply(held) /\ held.of = Received + 1
  BY <1>1, <1>2, <1>6 DEF RepliesOrdered, Before
<1>7. CASE \E i \in 1..Len(hidraw) : IsReply(hidraw[i]) /\ hidraw[i].of = Received + 1
  BY <1>1, <1>2, <1>7 DEF RepliesOrdered, Before
<1>8. QED
  BY <1>4, <1>5, <1>6, <1>7

\* What appending to and taking from a queue does to its positions.
LEMMA AppendFacts ==
  ASSUME NEW S, NEW q \in Seq(S), NEW r \in S
  PROVE  /\ Append(q, r) \in Seq(S)
         /\ Len(Append(q, r)) = Len(q) + 1
         /\ \A i \in 1..Len(q) : Append(q, r)[i] = q[i]
         /\ Append(q, r)[Len(q) + 1] = r
  BY AppendProperties

LEMMA TailFacts ==
  ASSUME NEW S, NEW q \in Seq(S), q # <<>>
  PROVE  /\ Head(q) = q[1]
         /\ Len(q) \in Nat
         /\ 1 \in 1..Len(q)
         /\ Len(Tail(q)) = Len(q) - 1
         /\ \A i \in 1..Len(Tail(q)) : i + 1 \in 1..Len(q) /\ Tail(q)[i] = q[i + 1]
         /\ \A i \in 1..Len(q) : i # 1 => i - 1 \in 1..Len(Tail(q)) /\ Tail(q)[i - 1] = q[i]
<1>1. Len(q) \in Nat /\ Len(q) # 0
  OBVIOUS
<1>2. /\ Len(Tail(q)) = Len(q) - 1
      /\ \A i \in 1..Len(Tail(q)) : Tail(q)[i] = q[i + 1]
  BY HeadTailProperties
<1>3. QED
  BY <1>1, <1>2

\* Request numbers are numbers, wherever a report is.
LEMMA NumbersTyped ==
  ASSUME TypeOK
  PROVE  /\ \A r \in Report : r.of \in Nat
         /\ \A i \in 1..Len(pipe) : pipe[i] \in Report /\ pipe[i].of \in Nat
         /\ held \in Report \cup {NoReport} /\ held.of \in Nat
         /\ \A i \in 1..Len(hidraw) : hidraw[i] \in Report /\ hidraw[i].of \in Nat
<1>1. \A r \in Report : r.of \in Nat
  <2>1. \A r \in ControlReport : r.of \in Nat
    BY DEF ControlReport, ReplyReport, NoticeReport
  <2>2. \A r \in EventReport : r.of = 0
    BY DEF EventReport
  <2>3. QED
    BY <2>1, <2>2 DEF Report
<1>2. held \in Report \cup {NoReport}
  BY DEF TypeOK, Report
<1>3. \A i \in 1..Len(pipe) : pipe[i] \in Report
  BY DEF TypeOK, Report
<1>4. \A i \in 1..Len(hidraw) : hidraw[i] \in Report
  BY DEF TypeOK
<1>5. QED
  BY <1>1, <1>2, <1>3, <1>4 DEF NoReport

\* A report from the hardware joins the end of the queue: a reply is the one
\* after all those in flight, anything else is no reply.
LEMMA ArriveStep ==
  ASSUME Inv, TypeOK', NEW r \in Report, hidraw' = Append(hidraw, r),
         UNCHANGED <<pipe, held, sent, requester, strays, returned>>,
         \/ IsReply(r) /\ r.of = answered + 1 /\ answered < sent
            /\ answered' = answered + 1 /\ notices' = notices
         \/ r.kind = "notice" /\ answered' = answered /\ notices' = notices + 1
            /\ notices < MaxNotices
         \/ r.kind = "event" /\ answered' = answered /\ notices' = notices
  PROVE  Inv'
<1> DEFINE n == Len(hidraw)
<1>1. /\ n \in Nat
      /\ Len(hidraw') = n + 1
      /\ \A i \in 1..n : hidraw'[i] = hidraw[i]
      /\ hidraw'[n + 1] = r
  BY AppendFacts DEF Inv, TypeOK
<1>2. /\ Received' = Received /\ Received \in Nat
      /\ Completed' = Completed
      /\ answered \in Nat /\ answered' \in Nat /\ answered <= answered'
      /\ notices \in Nat
  BY DEF Inv, TypeOK, CountersOK, Received, Completed
<1>3. CountersOK'
  BY <1>2, BoundsAssumption DEF Inv, TypeOK, CountersOK, Received, Completed
<1>4. /\ \A i \in 1..Len(pipe) : pipe[i].of \in Nat
      /\ held.of \in Nat
      /\ \A i \in 1..n : hidraw[i].of \in Nat
  BY NumbersTyped DEF Inv
<1>5. RepliesPending'
  <2>1. ASSUME NEW i \in 1..(n + 1), IsReply(hidraw'[i])
        PROVE  Received < hidraw'[i].of /\ hidraw'[i].of <= answered'
    <3>1. CASE i \in 1..n
      BY <1>1, <1>2, <1>4, <2>1, <3>1 DEF Inv, RepliesPending
    <3>2. CASE i = n + 1
      BY <1>1, <1>2, <2>1, <3>2 DEF Inv, CountersOK, IsReply
    <3>3. QED
      BY <1>1, <2>1, <3>1, <3>2
  <2>2. ASSUME NEW i \in 1..Len(pipe), IsReply(pipe[i])
        PROVE  Received < pipe[i].of /\ pipe[i].of <= answered'
    BY <1>2, <1>4, <2>2 DEF Inv, RepliesPending
  <2>3. ASSUME IsReply(held)
        PROVE  Received < held.of /\ held.of <= answered'
    BY <1>2, <1>4, <2>3 DEF Inv, RepliesPending
  <2>4. QED
    BY <1>1, <1>2, <2>1, <2>2, <2>3 DEF RepliesPending, IsReply
<1>6. RepliesPresent'
  <2>1. SUFFICES ASSUME NEW k \in (Received + 1)..answered'
        PROVE  \/ \E i \in 1..Len(pipe) : IsReply(pipe[i]) /\ pipe[i].of = k
               \/ IsReply(held) /\ held.of = k
               \/ \E i \in 1..(n + 1) : IsReply(hidraw'[i]) /\ hidraw'[i].of = k
    BY <1>1, <1>2 DEF RepliesPresent, IsReply
  <2>2. CASE k \in (Received + 1)..answered
    BY <1>1, <2>2 DEF Inv, RepliesPresent
  <2>3. CASE k = answered + 1
    BY <1>1, <1>2, <2>3
  <2>4. QED
    BY <1>2, <2>2, <2>3
<1>7. RepliesOrdered'
  <2>1. ASSUME NEW q \in Report \cup {NoReport}, q.of \in Nat,
               IsReply(q) => q.of <= answered
        PROVE  Before(q, r)
    BY <1>2, <2>1 DEF Before, IsReply
  <2>2. /\ \A i \in 1..Len(pipe) : Before(pipe[i], r)
        /\ Before(held, r)
        /\ \A i \in 1..n : Before(hidraw[i], r)
    BY <2>1, NumbersTyped DEF Inv, RepliesPending
  <2>3. QED
    BY <1>1, <2>2 DEF Inv, RepliesOrdered, Before, IsReply
<1>8. QuietIfNoNotice'
  BY <1>1, <1>2 DEF Inv, QuietIfNoNotice, IsReply
<1>9. LagIsStrays'
  BY DEF Inv, LagIsStrays, IsReply
<1>10. QED
  BY <1>3, <1>5, <1>6, <1>7, <1>8, <1>9 DEF Inv

\* A report the listener has read moves from the queue to its hands.
LEMMA ReadStep ==
  ASSUME Inv, TypeOK', ListenRead
  PROVE  Inv'
<1> DEFINE n == Len(hidraw)
<1> DEFINE t == Tail(hidraw)
<1>1. /\ hidraw # <<>>  /\ hidraw' = t
      /\ hidraw \in Seq(Report)
      /\ held = NoReport /\ held' = Head(hidraw)
      /\ UNCHANGED <<plugged, sent, answered, notices, presses, pipe,
                     requester, returned, strays>>
  BY DEF ListenRead, TakeReport, Branch, Inv, TypeOK, hardwareVars, requesterVars
<1>2. /\ held' = hidraw[1]
      /\ n \in Nat
      /\ 1 \in 1..n
      /\ Len(t) = n - 1
      /\ \A i \in 1..Len(t) : i + 1 \in 1..n /\ t[i] = hidraw[i + 1]
      /\ \A i \in 1..n : i # 1 => i - 1 \in 1..Len(t) /\ t[i - 1] = hidraw[i]
  BY <1>1, TailFacts
<1> HIDE DEF n, t
<1>3. /\ Received' = Received /\ Completed' = Completed
      /\ Received \in Nat
      /\ ~IsReply(held)
  BY <1>1 DEF Inv, TypeOK, CountersOK, Received, Completed, IsReply, NoReport
<1>4. CountersOK'
  BY <1>1, <1>3 DEF Inv, CountersOK
<1>5. RepliesPending'
  <2>1. /\ \A i \in 1..Len(pipe) : IsReply(pipe[i]) => Received < pipe[i].of /\ pipe[i].of <= answered
        /\ \A i \in 1..n : IsReply(hidraw[i]) => Received < hidraw[i].of /\ hidraw[i].of <= answered
    BY DEF Inv, RepliesPending, n
  <2>2. IsReply(held') => Received < held'.of /\ held'.of <= answered
    BY <1>2, <2>1
  <2>3. \A i \in 1..Len(t) : IsReply(t[i]) => Received < t[i].of /\ t[i].of <= answered
    BY <1>2, <2>1
  <2>4. QED
    BY <1>1, <1>3, <2>1, <2>2, <2>3 DEF RepliesPending, IsReply
<1>6. RepliesPresent'
  <2>1. SUFFICES ASSUME NEW k \in (Received + 1)..answered
        PROVE  \/ \E i \in 1..Len(pipe) : IsReply(pipe[i]) /\ pipe[i].of = k
               \/ IsReply(held') /\ held'.of = k
               \/ \E i \in 1..Len(t) : IsReply(t[i]) /\ t[i].of = k
    BY <1>1, <1>3 DEF RepliesPresent, IsReply
  <2>2. \/ \E i \in 1..Len(pipe) : IsReply(pipe[i]) /\ pipe[i].of = k
        \/ \E i \in 1..n : IsReply(hidraw[i]) /\ hidraw[i].of = k
    BY <1>3 DEF Inv, RepliesPresent, n
  <2>3. CASE \E i \in 1..n : IsReply(hidraw[i]) /\ hidraw[i].of = k
    BY <1>2, <2>3
  <2>4. QED
    BY <2>2, <2>3
<1>7. RepliesOrdered'
  <2>1. /\ \A i, j \in 1..n : i < j => Before(hidraw[i], hidraw[j])
        /\ \A i \in 1..Len(pipe), j \in 1..n : Before(pipe[i], hidraw[j])
        /\ \A i, j \in 1..Len(pipe) : i < j => Before(pipe[i], pipe[j])
    BY DEF Inv, RepliesOrdered, n
  <2>2. \A i, j \in 1..Len(t) : i < j => Before(t[i], t[j])
    BY <1>2, <2>1
  <2>3. \A i \in 1..Len(pipe), j \in 1..Len(t) : Before(pipe[i], t[j])
    BY <1>2, <2>1
  <2>4. \A i \in 1..Len(pipe) : Before(pipe[i], held')
    BY <1>2, <2>1
  <2>5. \A j \in 1..Len(t) : Before(held', t[j])
    BY <1>2, <2>1
  <2>6. QED
    BY <1>1, <2>1, <2>2, <2>3, <2>4, <2>5 DEF RepliesOrdered, Before, IsReply
<1>8. QuietIfNoNotice'
  BY <1>1, <1>2 DEF Inv, QuietIfNoNotice, IsReply, n
<1>9. LagIsStrays'
  BY <1>1 DEF Inv, LagIsStrays, IsReply
<1>10. QED
  BY <1>4, <1>5, <1>6, <1>7, <1>8, <1>9 DEF Inv

\* A report the listener has written moves from its hands to the pipe.
LEMMA RedirectStep ==
  ASSUME Inv, TypeOK', Redirect
  PROVE  Inv'
<1> DEFINE m == Len(pipe)
<1>1. /\ pipe' = Append(pipe, held)
      /\ pipe \in Seq(ControlReport) /\ held \in ControlReport
      /\ held' = NoReport
      /\ UNCHANGED <<plugged, sent, answered, notices, presses, hidraw,
                     requester, returned, strays>>
  BY DEF Redirect, RedirectInto, Inv, TypeOK, hardwareVars, requesterVars
<1>2. /\ m \in Nat
      /\ Len(pipe') = m + 1
      /\ \A i \in 1..m : pipe'[i] = pipe[i]
      /\ pipe'[m + 1] = held
  BY <1>1, AppendFacts
<1> HIDE DEF m
<1>3. /\ Received' = Received /\ Completed' = Completed
      /\ Received \in Nat
      /\ ~IsReply(held') /\ held'.kind # "notice"
  BY <1>1 DEF Inv, TypeOK, CountersOK, Received, Completed, IsReply, NoReport
<1>4. CountersOK'
  BY <1>1, <1>3 DEF Inv, CountersOK
<1>5. RepliesPending'
  <2>1. /\ \A i \in 1..m : IsReply(pipe[i]) => Received < pipe[i].of /\ pipe[i].of <= answered
        /\ IsReply(held) => Received < held.of /\ held.of <= answered
        /\ \A i \in 1..Len(hidraw) : IsReply(hidraw[i]) => Received < hidraw[i].of /\ hidraw[i].of <= answered
    BY DEF Inv, RepliesPending, m
  <2>2. \A i \in 1..(m + 1) : IsReply(pipe'[i]) => Received < pipe'[i].of /\ pipe'[i].of <= answered
    BY <1>2, <2>1
  <2>3. QED
    BY <1>1, <1>2, <1>3, <2>1, <2>2 DEF RepliesPending, IsReply
<1>6. RepliesPresent'
  <2>1. SUFFICES ASSUME NEW k \in (Received + 1)..answered
        PROVE  \/ \E i \in 1..(m + 1) : IsReply(pipe'[i]) /\ pipe'[i].of = k
               \/ \E i \in 1..Len(hidraw) : IsReply(hidraw[i]) /\ hidraw[i].of = k
    BY <1>1, <1>2, <1>3 DEF RepliesPresent, IsReply
  <2>2. \/ \E i \in 1..m : IsReply(pipe[i]) /\ pipe[i].of = k
        \/ IsReply(held) /\ held.of = k
        \/ \E i \in 1..Len(hidraw) : IsReply(hidraw[i]) /\ hidraw[i].of = k
    BY DEF Inv, RepliesPresent, m
  <2>3. CASE \E i \in 1..m : IsReply(pipe[i]) /\ pipe[i].of = k
    BY <1>2, <2>3
  <2>4. CASE IsReply(held) /\ held.of = k
    BY <1>2, <2>4
  <2>5. QED
    BY <2>2, <2>3, <2>4
<1>7. RepliesOrdered'
  <2>1. /\ \A i, j \in 1..m : i < j => Before(pipe[i], pipe[j])
        /\ \A i \in 1..m : Before(pipe[i], held)
        /\ \A i \in 1..m, j \in 1..Len(hidraw) : Before(pipe[i], hidraw[j])
        /\ \A j \in 1..Len(hidraw) : Before(held, hidraw[j])
        /\ \A i, j \in 1..Len(hidraw) : i < j => Before(hidraw[i], hidraw[j])
    BY DEF Inv, RepliesOrdered, m
  <2>2. \A i, j \in 1..(m + 1) : i < j => Before(pipe'[i], pipe'[j])
    BY <1>2, <2>1
  <2>3. \A i \in 1..(m + 1), j \in 1..Len(hidraw) : Before(pipe'[i], hidraw[j])
    BY <1>2, <2>1
  <2>4. /\ \A i \in 1..(m + 1) : Before(pipe'[i], held')
        /\ \A j \in 1..Len(hidraw) : Before(held', hidraw[j])
    BY <1>3 DEF Before, IsReply
  <2>5. QED
    BY <1>1, <1>2, <2>1, <2>2, <2>3, <2>4 DEF RepliesOrdered, Before, IsReply
<1>8. QuietIfNoNotice'
  <2>1. SUFFICES ASSUME notices = 0
        PROVE  /\ \A i \in 1..(m + 1) : pipe'[i].kind = "reply"
               /\ \A i \in 1..Len(hidraw) : hidraw[i].kind # "notice"
    BY <1>1, <1>2, <1>3 DEF QuietIfNoNotice, IsReply
  <2>2. held.kind = "reply"
    BY <1>1, <2>1 DEF Inv, QuietIfNoNotice, ControlReport, ReplyReport, NoticeReport
  <2>3. \A i \in 1..m : pipe[i].kind = "reply"
    BY <2>1 DEF Inv, QuietIfNoNotice, IsReply, m
  <2>4. QED
    BY <1>2, <2>1, <2>2, <2>3 DEF Inv, QuietIfNoNotice
<1>9. LagIsStrays'
  BY <1>1 DEF Inv, LagIsStrays, IsReply
<1>10. QED
  BY <1>4, <1>5, <1>6, <1>7, <1>8, <1>9 DEF Inv

\* An event leaves the listener's hands for a worker, or is dropped.
LEMMA EventLeavesStep ==
  ASSUME Inv, TypeOK', Dispatch \/ DispatchFails
  PROVE  Inv'
<1>1. /\ held \in EventReport
      /\ held' = NoReport
      /\ UNCHANGED <<plugged, sent, answered, notices, presses, hidraw, pipe,
                     requester, returned, strays>>
  BY DEF Dispatch, DispatchFails, Inv, TypeOK, hardwareVars, requesterVars
<1>2. /\ Received' = Received /\ Completed' = Completed
      /\ ~IsReply(held) /\ ~IsReply(held') /\ held'.kind # "notice"
  BY <1>1 DEF Received, Completed, IsReply, NoReport, EventReport
<1>3. CountersOK'
  BY <1>1, <1>2 DEF Inv, CountersOK
<1>4. RepliesPending'
  BY <1>1, <1>2 DEF Inv, RepliesPending, IsReply
<1>5. RepliesPresent'
  BY <1>1, <1>2 DEF Inv, RepliesPresent, IsReply
<1>6. RepliesOrdered'
  BY <1>1, <1>2 DEF Inv, RepliesOrdered, Before, IsReply
<1>7. QuietIfNoNotice'
  BY <1>1, <1>2 DEF Inv, QuietIfNoNotice, IsReply
<1>8. LagIsStrays'
  BY <1>1 DEF Inv, LagIsStrays, IsReply
<1>9. QED
  BY <1>3, <1>4, <1>5, <1>6, <1>7, <1>8 DEF Inv

\* A new request is one more that is not answered yet.
LEMMA RequestStep ==
  ASSUME Inv, TypeOK', Request
  PROVE  Inv'
<1>1. /\ requester = "idle" /\ requester' = "waiting"
      /\ sent' = sent + 1 /\ sent \in Nat
      /\ UNCHANGED <<plugged, answered, notices, presses, hidraw, listener,
                     held, dispatched, pipe, returned, strays>>
  BY DEF Request, Inv, TypeOK, hardwareVars, listenerVars
<1>2. Completed' = Completed /\ Received' = Received
  BY <1>1 DEF Completed, Received
<1>3. CountersOK'
  BY <1>1, <1>2 DEF Inv, TypeOK, CountersOK
<1>4. RepliesPending' /\ RepliesPresent' /\ RepliesOrdered' /\ QuietIfNoNotice'
  BY <1>1, <1>2 DEF Inv, RepliesPending, RepliesPresent, RepliesOrdered,
     QuietIfNoNotice, Before, IsReply
<1>5. LagIsStrays'
  BY <1>1 DEF LagIsStrays
<1>6. QED
  BY <1>3, <1>4, <1>5 DEF Inv

\* The oldest packet leaves the pipe: the reply due, or a stray.
LEMMA ReceiveStep ==
  ASSUME Inv, TypeOK', ReadResponse
  PROVE  Inv'
<1> DEFINE m == Len(pipe)
<1> DEFINE t == Tail(pipe)
<1>1. /\ requester = "waiting" /\ requester' = "idle"
      /\ pipe # <<>> /\ pipe' = t
      /\ pipe \in Seq(ControlReport)
      /\ returned' = Head(pipe)
      /\ strays' = IF IsReply(Head(pipe)) THEN strays ELSE strays + 1
      /\ notices <= MaxNotices
      /\ UNCHANGED <<plugged, sent, answered, notices, presses, hidraw, held>>
  BY DEF CountersOK, ReadResponse, Receive, Inv, TypeOK, IsReply, hardwareVars, listenerVars
<1>2. /\ Head(pipe) = pipe[1]
      /\ m \in Nat
      /\ 1 \in 1..m
      /\ Len(t) = m - 1
      /\ \A i \in 1..Len(t) : i + 1 \in 1..m /\ t[i] = pipe[i + 1]
      /\ \A i \in 1..m : i # 1 => i - 1 \in 1..Len(t) /\ t[i - 1] = pipe[i]
  BY <1>1, TailFacts
<1> HIDE DEF m, t
<1>3. /\ sent \in Nat /\ strays \in Nat /\ answered \in Nat
      /\ Completed = sent - 1 /\ Received = sent - 1 - strays
      /\ Completed' = sent /\ Received' = sent - strays'
      /\ strays <= sent - 1 /\ Received \in Nat
      /\ Received <= answered /\ answered <= sent
  BY <1>1 DEF Inv, TypeOK, CountersOK, Completed, Received
<1>4. /\ \A i \in 1..m : pipe[i].of \in Nat
      /\ held.of \in Nat
      /\ \A i \in 1..Len(hidraw) : hidraw[i].of \in Nat
  BY NumbersTyped DEF Inv, m
<1>5. IsReply(pipe[1]) => pipe[1].of = Received + 1 /\ Received + 1 <= answered
  BY <1>1, <1>2, <1>3, <1>4, HeadIsDue DEF Inv, RepliesPending, m
<1>6. Received' = IF IsReply(pipe[1]) THEN Received + 1 ELSE Received
  BY <1>1, <1>2, <1>3
<1>7. CountersOK'
  BY <1>1, <1>2, <1>3, <1>5, <1>6 DEF CountersOK
<1>8. /\ \A i, j \in 1..m : i < j => Before(pipe[i], pipe[j])
      /\ \A i \in 1..m : Before(pipe[i], held)
      /\ \A i \in 1..m, j \in 1..Len(hidraw) : Before(pipe[i], hidraw[j])
      /\ \A j \in 1..Len(hidraw) : Before(held, hidraw[j])
      /\ \A i, j \in 1..Len(hidraw) : i < j => Before(hidraw[i], hidraw[j])
  BY DEF Inv, RepliesOrdered, m
<1>9. RepliesPending'
  <2>1. /\ \A i \in 1..m : IsReply(pipe[i]) => Received < pipe[i].of /\ pipe[i].of <= answered
        /\ IsReply(held) => Received < held.of /\ held.of <= answered
        /\ \A i \in 1..Len(hidraw) : IsReply(hidraw[i]) => Received < hidraw[i].of /\ hidraw[i].of <= answered
    BY DEF Inv, RepliesPending, m
  <2>2. \A i \in 1..Len(t) : IsReply(t[i]) => Received' < t[i].of /\ t[i].of <= answered
    <3>1. SUFFICES ASSUME NEW i \in 1..Len(t), IsReply(t[i])
          PROVE  Received' < t[i].of /\ t[i].of <= answered
      OBVIOUS
    <3>2. i + 1 \in 1..m /\ t[i] = pipe[i + 1] /\ 1 < i + 1
      BY <1>2, <3>1
    <3>3. Before(pipe[1], t[i])
      BY <1>2, <1>8, <3>2
    <3>4. QED
      BY <1>3, <1>4, <1>5, <1>6, <2>1, <3>1, <3>2, <3>3 DEF Before
  <2>3. IsReply(held) => Received' < held.of
    BY <1>2, <1>3, <1>4, <1>5, <1>6, <1>8, <2>1 DEF Before
  <2>4. \A i \in 1..Len(hidraw) : IsReply(hidraw[i]) => Received' < hidraw[i].of
    BY <1>2, <1>3, <1>4, <1>5, <1>6, <1>8, <2>1 DEF Before
  <2>5. QED
    BY <1>1, <2>1, <2>2, <2>3, <2>4 DEF RepliesPending, IsReply
<1>10. RepliesPresent'
  <2>1. SUFFICES ASSUME NEW k \in (Received' + 1)..answered
        PROVE  \/ \E i \in 1..Len(t) : IsReply(t[i]) /\ t[i].of = k
               \/ IsReply(held) /\ held.of = k
               \/ \E i \in 1..Len(hidraw) : IsReply(hidraw[i]) /\ hidraw[i].of = k
    BY <1>1 DEF RepliesPresent, IsReply
  <2>2. /\ k \in (Received + 1)..answered
        /\ IsReply(pipe[1]) => pipe[1].of # k
    BY <1>3, <1>5, <1>6, <2>1
  <2>3. \/ \E i \in 1..m : IsReply(pipe[i]) /\ pipe[i].of = k
        \/ IsReply(held) /\ held.of = k
        \/ \E i \in 1..Len(hidraw) : IsReply(hidraw[i]) /\ hidraw[i].of = k
    BY <2>2 DEF Inv, RepliesPresent, m
  <2>4. CASE \E i \in 1..m : IsReply(pipe[i]) /\ pipe[i].of = k
    BY <1>2, <2>2, <2>4
  <2>5. QED
    BY <2>3, <2>4
<1>11. RepliesOrdered'
  <2>1. \A i, j \in 1..Len(t) : i < j => Before(t[i], t[j])
    BY <1>2, <1>8
  <2>2. \A i \in 1..Len(t) : Before(t[i], held)
    BY <1>2, <1>8
  <2>3. \A i \in 1..Len(t), j \in 1..Len(hidraw) : Before(t[i], hidraw[j])
    BY <1>2, <1>8
  <2>4. QED
    BY <1>1, <1>8, <2>1, <2>2, <2>3 DEF RepliesOrdered, Before, IsReply
<1>12. QuietIfNoNotice'
  BY <1>1, <1>2 DEF Inv, QuietIfNoNotice, IsReply, m
<1>13. LagIsStrays'
  BY <1>1, <1>2, <1>3, <1>5 DEF LagIsStrays, IsReply
<1>14. QED
  BY <1>7, <1>9, <1>10, <1>11, <1>12, <1>13 DEF Inv

-------------------------------------------------------------------------------
(* The invariant, and what follows from it.                                *)

LEMMA InvStep ==
  ASSUME Inv, [Next]_vars
  PROVE  Inv'
<1>1. TypeOK'
  BY TypeStep DEF Inv
<1>2. ASSUME NEW e \in BOOLEAN, Answer(e)
      PROVE  Inv'
  <2>1. Reply(answered + 1, e) \in Report
    BY DEF Reply, Report, ControlReport, ReplyReport, NoticeReport, Inv, TypeOK
  <2>2. QED
    BY <1>1, <1>2, <2>1, ArriveStep
    DEF Answer, Reply, IsReply, listenerVars, requesterVars
<1>3. ASSUME NEW e \in BOOLEAN, Notify(e)
      PROVE  Inv'
  <2>1. Notice(e) \in Report
    BY DEF Notice, Report, ControlReport, ReplyReport, NoticeReport
  <2>2. QED
    BY <1>1, <1>3, <2>1, ArriveStep DEF Notify, Notice, listenerVars, requesterVars
<1>4. CASE PressButton
  <2>1. Press \in Report
    BY DEF Press, Report, EventReport
  <2>2. QED
    BY <1>1, <1>4, <2>1, ArriveStep DEF PressButton, Press, listenerVars, requesterVars
<1>5. ASSUME UNCHANGED <<sent, answered, notices, hidraw, held, pipe, requester,
                        strays>>,
             returned' = returned \/ returned' = Refusal
      PROVE  Inv'
  <2>1. UNCHANGED <<Completed, Received>>
    BY <1>5 DEF Completed, Received
  <2>2. CountersOK' /\ RepliesPending' /\ RepliesPresent' /\ RepliesOrdered'
        /\ QuietIfNoNotice'
    BY <1>5, <2>1 DEF Inv, CountersOK, RepliesPending, RepliesPresent,
       RepliesOrdered, QuietIfNoNotice, Before, IsReply
  <2>3. LagIsStrays'
    BY <1>5 DEF Inv, LagIsStrays, IsReply, Refusal
  <2>4. QED
    BY <1>1, <2>2, <2>3 DEF Inv
<1>6. CASE Unplug
  BY <1>5, <1>6 DEF Unplug, listenerVars, requesterVars
<1>7. CASE ListenReadFails
  BY <1>5, <1>7 DEF ListenReadFails, hardwareVars, requesterVars
<1>8. CASE RequestFails
  BY <1>5, <1>8 DEF RequestFails, hardwareVars, listenerVars
<1>9. CASE UNCHANGED vars
  BY <1>5, <1>9 DEF vars, hardwareVars, listenerVars, requesterVars
<1>10. CASE ListenRead
  BY <1>1, <1>10, ReadStep
<1>11. CASE Dispatch \/ DispatchFails
  BY <1>1, <1>11, EventLeavesStep
<1>12. CASE Redirect
  BY <1>1, <1>12, RedirectStep
<1>13. CASE Request
  BY <1>1, <1>13, RequestStep
<1>14. CASE ReadResponse
  BY <1>1, <1>14, ReceiveStep
<1>15. QED
  BY <1>2, <1>3, <1>4, <1>6, <1>7, <1>8, <1>9, <1>10, <1>11, <1>12, <1>13, <1>14
  DEF Next, Hardware, Listener, Requester

LEMMA InvInit == Init => Inv
  BY BoundsAssumption
  DEF Init, Inv, TypeOK, CountersOK, RepliesPending, RepliesPresent,
      RepliesOrdered, QuietIfNoNotice, LagIsStrays, Before, IsReply, NoReport,
      Completed, Received

\* Replies are neither lost nor reordered between the hardware and the
\* requester: those in flight are the ones due, in order.
THEOREM InvCorrect == Spec => []Inv
  BY InvInit, InvStep, PTL DEF Spec

\* However the threads interleave, a reply belongs to the request written as
\* many exchanges ago as there have been unsolicited reports: the channel is
\* never further out of step than that, and never recovers.
THEOREM LagCorrect == Spec => []LagIsStrays
<1>1. Inv => LagIsStrays
  BY DEF Inv
<1>2. QED
  BY <1>1, InvCorrect, PTL

\* The abstract backlog, and how it grows and shrinks with what it is made of.
Backlog == [k \in 1..(sent - Received) |-> Received + k]

LEMMA BacklogFacts ==
  ASSUME NEW n \in Nat, NEW r \in Nat
  PROVE  LET q == [k \in 1..n |-> r + k]
         IN  /\ q \in Seq(Nat)
             /\ Append(q, r + n + 1) = [k \in 1..(n + 1) |-> r + k]
             /\ n > 0 => /\ q # <<>>
                         /\ Head(q) = r + 1
                         /\ Tail(q) = [k \in 1..(n - 1) |-> (r + 1) + k]
<1> DEFINE q == [k \in 1..n |-> r + k]
<1>1. q \in Seq(Nat) /\ Len(q) = n
  BY DEF q
<1>2. Append(q, r + n + 1) = [k \in 1..(n + 1) |-> r + k]
  <2>1. /\ Append(q, r + n + 1) \in Seq(Nat)
        /\ Len(Append(q, r + n + 1)) = n + 1
        /\ \A k \in 1..n : Append(q, r + n + 1)[k] = q[k]
        /\ Append(q, r + n + 1)[n + 1] = r + n + 1
    BY <1>1, AppendFacts
  <2>2. [k \in 1..(n + 1) |-> r + k] \in Seq(Nat)
    OBVIOUS
  <2>3. QED
    BY <2>1, <2>2, SeqEqual
<1>3. ASSUME n > 0
      PROVE  /\ q # <<>>
             /\ Head(q) = r + 1
             /\ Tail(q) = [k \in 1..(n - 1) |-> (r + 1) + k]
  <2>1. q # <<>>
    BY <1>1, <1>3
  <2>2. /\ Head(q) = q[1]
        /\ Tail(q) \in Seq(Nat)
        /\ Len(Tail(q)) = n - 1
        /\ \A k \in 1..(n - 1) : Tail(q)[k] = q[k + 1]
    BY <1>1, <2>1, HeadTailProperties
  <2> DEFINE t == [k \in 1..(n - 1) |-> (r + 1) + k]
  <2>3. t \in Seq(Nat) /\ Len(t) = n - 1
    BY <1>3
  <2>4. \A k \in 1..(n - 1) : Tail(q)[k] = t[k]
    BY <1>3, <2>2
  <2>5. Tail(q) = t
    <3> HIDE DEF q, t
    <3>1. QED
      BY <2>2, <2>3, <2>4, SeqEqual
  <2>6. Head(q) = r + 1
    BY <1>3, <2>2
  <2>7. QED
    BY <2>1, <2>5, <2>6
<1>4. QED
  BY <1>1, <1>2, <1>3

\* To a caller the channel is RequestReply: replies in call order, none skipped,
\* a stray only where the hardware can emit one.
THEOREM ChannelImplements == Spec => ImplementsRequestReply
<1>1. Init => RR!Init
  <2>1. SUFFICES ASSUME Init
        PROVE  RR!Init
    OBVIOUS
  <2>2. sent - Received = 0
    BY <2>1 DEF Init, Received, Completed
  <2>3. [k \in 1..0 |-> Received + k] = <<>>
    OBVIOUS
  <2>4. QED
    BY <2>1, <2>2, <2>3 DEF Init, RR!Init, NoReport
<1>2. ASSUME Inv, Inv', [Next]_vars
      PROVE  [RR!Next]_(RR!vars)
  <2>1. ASSUME UNCHANGED <<sent, requester, strays, returned>>
        PROVE  UNCHANGED RR!vars
    BY <2>1 DEF RR!vars, Received, Completed
  <2>2. CASE Hardware \/ Listener \/ UNCHANGED vars
    BY <2>1, <2>2
    DEF Hardware, Answer, Notify, PressButton, Unplug,
        Listener, ListenRead, TakeReport, Branch, ListenReadFails, Dispatch, DispatchFails, Redirect, RedirectInto,
        vars, requesterVars
  <2>3. Received \in Nat /\ sent \in Nat /\ sent - Received \in Nat
    BY <1>2 DEF Inv, TypeOK, CountersOK, Received, Completed
  <2>4. CASE Request
    <3>1. /\ requester = "idle" /\ requester' = "waiting"
          /\ sent' = sent + 1 /\ sent < MaxRequests
          /\ returned' = returned
          /\ Received' = Received
      BY <2>3, <2>4 DEF Request, Received, Completed
    <3>2. sent + 1 \in 1..MaxRequests
      BY <2>3, <3>1, BoundsAssumption
    <3>3. Backlog' = Append(Backlog, sent + 1)
      <4>1. sent' - Received' = (sent - Received) + 1
        BY <2>3, <3>1
      <4>2. Append(Backlog, Received + (sent - Received) + 1)
              = [k \in 1..((sent - Received) + 1) |-> Received + k]
        BY <2>3, BacklogFacts DEF Backlog
      <4>3. Received + (sent - Received) + 1 = sent + 1
        BY <2>3
      <4>4. QED
        BY <3>1, <4>1, <4>2, <4>3 DEF Backlog
    <3>4. \E q \in 1..MaxRequests : RR!Call(q)
      BY <3>1, <3>2, <3>3 DEF RR!Call, Backlog
    <3>5. QED
      BY <3>4 DEF RR!Next
  <2>5. CASE RequestFails
    <3>1. Received' = Received
      BY <2>5 DEF RequestFails, Received, Completed
    <3>2. RR!Refuse
      BY <2>5, <3>1 DEF RequestFails, RR!Refuse, Refusal
    <3>3. QED
      BY <3>2 DEF RR!Next
  <2>6. CASE ReadResponse
    <3>1. /\ requester = "waiting" /\ requester' = "idle"
          /\ returned' = Head(pipe) /\ sent' = sent
          /\ pipe # <<>> /\ pipe \in Seq(ControlReport)
          /\ strays' = IF IsReply(Head(pipe)) THEN strays ELSE strays + 1
          /\ sent \in Nat /\ strays \in Nat
      BY <1>2, <2>6 DEF ReadResponse, Receive, IsReply, Inv, TypeOK, hardwareVars
    <3>2. Head(pipe) = pipe[1] /\ 1 \in 1..Len(pipe) /\ pipe[1] \in ControlReport
      BY <3>1, TailFacts
    <3>3. CASE IsReply(pipe[1])
      <4>1. pipe[1].of = Received + 1
        BY <1>2, <3>1, <3>3, HeadIsDue
      <4>2. /\ sent - Received > 0
            /\ Received' = Received + 1
            /\ sent' - Received' = (sent - Received) - 1
        BY <1>2, <2>3, <3>1, <3>2, <3>3 DEF Inv, CountersOK, Received, Completed
      <4>3. /\ Backlog # <<>>
            /\ Head(Backlog) = Received + 1
            /\ Tail(Backlog) = Backlog'
        <5>1. Backlog' = [k \in 1..((sent - Received) - 1) |-> (Received + 1) + k]
          BY <4>2 DEF Backlog
        <5>2. QED
          BY <2>3, <4>2, <5>1, BacklogFacts DEF Backlog
      <4>4. RR!Reply
        BY <3>1, <3>2, <4>1, <4>3 DEF Backlog, RR!Reply
      <4>5. QED
        BY <4>4 DEF RR!Next
    <3>4. CASE ~IsReply(pipe[1])
      <4>1. pipe[1].kind = "notice" /\ pipe[1].of = 0
        BY <3>2, <3>4 DEF IsReply, ControlReport, ReplyReport, NoticeReport
      <4>2. MaxNotices > 0
        <5>1. notices # 0
          BY <1>2, <3>2, <3>4 DEF Inv, QuietIfNoNotice
        <5>2. QED
          BY <1>2, <5>1, BoundsAssumption DEF Inv, TypeOK, CountersOK
      <4>3. Received' = Received
        BY <3>1, <3>2, <3>4 DEF Received, Completed
      <4>4. RR!Stray
        BY <3>1, <3>2, <4>1, <4>2, <4>3 DEF RR!Stray
      <4>5. QED
        BY <4>4 DEF RR!Next
    <3>5. QED
      BY <3>3, <3>4
  <2>7. QED
    BY <1>2, <2>2, <2>4, <2>5, <2>6 DEF Next, Requester
<1>3. QED
  BY <1>1, <1>2, InvCorrect, PTL DEF Spec, ImplementsRequestReply, RR!Spec

-------------------------------------------------------------------------------
(* No report is lost.  Counting goes queue by queue: the reports of a      *)
(* concatenation are those of its parts.                                   *)

Where(q, kinds) == {i \in DOMAIN q : q[i].kind \in kinds}

LEMMA CountIsNatural ==
  ASSUME NEW q \in Seq(Report \cup {NoReport}), NEW kinds
  PROVE  /\ IsFiniteSet(Where(q, kinds))
         /\ CountOf(q, kinds) = Cardinality(Where(q, kinds))
         /\ CountOf(q, kinds) \in Nat
<1>1. DOMAIN q = 1..Len(q) /\ Len(q) \in Nat
  OBVIOUS
<1>2. IsFiniteSet(1..Len(q))
  BY <1>1, FS_Interval
<1>3. IsFiniteSet(Where(q, kinds))
  BY <1>1, <1>2, FS_Subset DEF Where
<1>4. QED
  BY <1>3, FS_CardinalityType DEF CountOf, Where

LEMMA CountConcatenation ==
  ASSUME NEW p \in Seq(Report \cup {NoReport}), NEW q \in Seq(Report \cup {NoReport}),
         NEW kinds
  PROVE  CountOf(p \o q, kinds) = CountOf(p, kinds) + CountOf(q, kinds)
<1> DEFINE P == Where(p, kinds)
           Q == Where(q, kinds)
           Shift == [i \in Q |-> Len(p) + i]
           R == {Len(p) + i : i \in Q}
<1>1. Len(p) \in Nat /\ Len(q) \in Nat /\ DOMAIN p = 1..Len(p) /\ DOMAIN q = 1..Len(q)
  OBVIOUS
<1>2. /\ p \o q \in Seq(Report \cup {NoReport})
      /\ DOMAIN (p \o q) = 1..(Len(p) + Len(q))
      /\ \A i \in 1..Len(p) : (p \o q)[i] = p[i]
      /\ \A i \in 1..Len(q) : (p \o q)[Len(p) + i] = q[i]
  <2>1. p \o q \in Seq(Report \cup {NoReport}) /\ Len(p \o q) = Len(p) + Len(q)
    BY ConcatProperties
  <2>2. DOMAIN (p \o q) = 1..Len(p \o q)
    BY <2>1
  <2>3. \A i \in 1..(Len(p) + Len(q)) :
          (p \o q)[i] = IF i <= Len(p) THEN p[i] ELSE q[i - Len(p)]
    BY <2>1, ConcatProperties
  <2>4. \A i \in 1..Len(p) : (p \o q)[i] = p[i]
    BY <1>1, <2>3
  <2>5. ASSUME NEW i \in 1..Len(q)
        PROVE  (p \o q)[Len(p) + i] = q[i]
    <3>1. /\ Len(p) + i \in 1..(Len(p) + Len(q))
          /\ ~(Len(p) + i <= Len(p))
          /\ Len(p) + i - Len(p) = i
      BY <1>1
    <3>2. QED
      BY <2>3, <3>1
  <2>6. QED
    BY <2>1, <2>2, <2>4, <2>5
<1>3. P \subseteq 1..Len(p) /\ Q \subseteq 1..Len(q)
  BY <1>1 DEF Where
<1>4. IsFiniteSet(P) /\ IsFiniteSet(Q)
  BY CountIsNatural
<1>5. Shift \in Bijection(Q, R)
  <2>1. Shift \in [Q -> R]
    OBVIOUS
  <2>2. \A i, j \in Q : Shift[i] = Shift[j] => i = j
    BY <1>1, <1>3
  <2>3. \A r \in R : \E i \in Q : Shift[i] = r
    OBVIOUS
  <2>4. QED
    BY <2>1, <2>2, <2>3, Fun_IsBij
<1>6. IsFiniteSet(R) /\ Cardinality(R) = Cardinality(Q)
  BY <1>4, <1>5, FS_Bijection DEF ExistsBijection
<1>7. P \cap R = {}
  BY <1>1, <1>3
<1>8. Where(p \o q, kinds) = P \cup R
  <2>1. ASSUME NEW i \in Where(p \o q, kinds)
        PROVE  i \in P \cup R
    <3>1. i \in 1..(Len(p) + Len(q)) /\ (p \o q)[i].kind \in kinds
      BY <1>2 DEF Where
    <3>2. CASE i <= Len(p)
      <4>1. i \in 1..Len(p)
        BY <1>1, <3>1, <3>2
      <4>2. QED
        BY <1>1, <1>2, <3>1, <4>1 DEF Where
    <3>3. CASE ~(i <= Len(p))
      <4>1. i - Len(p) \in 1..Len(q) /\ i = Len(p) + (i - Len(p))
        BY <1>1, <3>1, <3>3
      <4>2. i - Len(p) \in Q
        BY <1>1, <1>2, <3>1, <4>1 DEF Where
      <4>3. QED
        BY <4>1, <4>2
    <3>4. QED
      BY <3>2, <3>3
  <2>2. ASSUME NEW i \in P
        PROVE  i \in Where(p \o q, kinds)
    <3>1. i \in 1..Len(p) /\ p[i].kind \in kinds
      BY <1>1 DEF Where
    <3>2. i \in 1..(Len(p) + Len(q))
      BY <1>1, <3>1
    <3>3. QED
      BY <1>2, <3>1, <3>2 DEF Where
  <2>3. ASSUME NEW i \in Q
        PROVE  Len(p) + i \in Where(p \o q, kinds)
    <3>1. i \in 1..Len(q) /\ q[i].kind \in kinds
      BY <1>1 DEF Where
    <3>2. Len(p) + i \in 1..(Len(p) + Len(q))
      BY <1>1, <3>1
    <3>3. QED
      BY <1>2, <3>1, <3>2 DEF Where
  <2>4. QED
    BY <2>1, <2>2, <2>3
<1> HIDE DEF P, Q, R
<1>9. Cardinality(P \cup R) = Cardinality(P) + Cardinality(R)
  <2>1. Cardinality(P \cap R) = 0
    BY <1>7, FS_EmptySet
  <2>2. Cardinality(P) \in Nat /\ Cardinality(R) \in Nat
    BY <1>4, <1>6, FS_CardinalityType
  <2>3. Cardinality(P \cup R)
          = Cardinality(P) + Cardinality(R) - Cardinality(P \cap R)
    <3>1. IsFiniteSet(P) /\ IsFiniteSet(R)
      BY <1>4, <1>6
    <3>2. QED
      BY <3>1, FS_Union, Zenon
  <2>4. QED
    BY <2>1, <2>2, <2>3
<1>10. CountOf(p \o q, kinds) = Cardinality(P \cup R)
  BY <1>2, <1>8, CountIsNatural
<1>11. CountOf(p, kinds) = Cardinality(P) /\ CountOf(q, kinds) = Cardinality(Q)
  BY CountIsNatural DEF P, Q
<1>12. QED
  BY <1>6, <1>9, <1>10, <1>11

\* One report counts for one, or for nothing.
Weight(r, kinds) == IF r.kind \in kinds THEN 1 ELSE 0

LEMMA CountOne ==
  ASSUME NEW r \in Report \cup {NoReport}, NEW kinds
  PROVE  CountOf(<<r>>, kinds) = Weight(r, kinds)
<1>1. DOMAIN <<r>> = {1} /\ <<r>>[1] = r
  OBVIOUS
<1>2. CASE r.kind \in kinds
  <2>1. Where(<<r>>, kinds) = {1}
    BY <1>1, <1>2 DEF Where
  <2>2. Cardinality({1}) = 1
    BY FS_Singleton
  <2>3. QED
    BY <1>2, <2>1, <2>2 DEF CountOf, Where, Weight
<1>3. CASE r.kind \notin kinds
  <2>1. Where(<<r>>, kinds) = {}
    BY <1>1, <1>3 DEF Where
  <2>2. Cardinality({}) = 0
    BY FS_EmptySet
  <2>3. QED
    BY <1>3, <2>1, <2>2 DEF CountOf, Where, Weight
<1>4. QED
  BY <1>2, <1>3

LEMMA CountAppend ==
  ASSUME NEW q \in Seq(Report), NEW r \in Report, NEW kinds
  PROVE  /\ CountOf(q, kinds) \in Nat
         /\ CountOf(Append(q, r), kinds) = CountOf(q, kinds) + Weight(r, kinds)
<1>1. q \in Seq(Report \cup {NoReport}) /\ <<r>> \in Seq(Report \cup {NoReport})
  OBVIOUS
<1>2. Append(q, r) = q \o <<r>>
  OBVIOUS
<1>3. CountOf(q \o <<r>>, kinds) = CountOf(q, kinds) + CountOf(<<r>>, kinds)
  BY <1>1, CountConcatenation
<1>4. QED
  BY <1>1, <1>2, <1>3, CountOne, CountIsNatural

LEMMA CountTail ==
  ASSUME NEW q \in Seq(Report), q # <<>>, NEW kinds
  PROVE  /\ CountOf(Tail(q), kinds) \in Nat
         /\ CountOf(q, kinds) = Weight(Head(q), kinds) + CountOf(Tail(q), kinds)
<1>1. /\ Head(q) \in Report
      /\ Tail(q) \in Seq(Report \cup {NoReport})
      /\ <<Head(q)>> \in Seq(Report \cup {NoReport})
  OBVIOUS
<1>2. q = <<Head(q)>> \o Tail(q)
  OBVIOUS
<1>3. CountOf(<<Head(q)>> \o Tail(q), kinds)
        = CountOf(<<Head(q)>>, kinds) + CountOf(Tail(q), kinds)
  BY <1>1, CountConcatenation
<1>4. CountOf(<<Head(q)>>, kinds) = Weight(Head(q), kinds)
  BY <1>1, CountOne
<1>5. CountOf(Tail(q), kinds) \in Nat
  BY <1>1, CountIsNatural
<1>6. QED
  BY <1>2, <1>3, <1>4, <1>5

Controls == {"reply", "notice"}
Events   == {"event"}

LEMMA Weights ==
  /\ \A r \in ControlReport : Weight(r, Controls) = 1 /\ Weight(r, Events) = 0
  /\ \A r \in EventReport : Weight(r, Controls) = 0 /\ Weight(r, Events) = 1
  /\ Weight(NoReport, Controls) = 0 /\ Weight(NoReport, Events) = 0
  BY DEF Weight, Controls, Events, ControlReport, ReplyReport, NoticeReport, EventReport,
         NoReport

\* What is on its way, by kind, and how far the two ends are apart.
ControlsUnderWay == CountOf(pipe, Controls) + Weight(held, Controls) + CountOf(hidraw, Controls)
EventsUnderWay   == Weight(held, Events) + CountOf(hidraw, Events)
Dropped          == presses - (dispatched + EventsUnderWay)

ConservedInv ==
  /\ TypeOK
  /\ ControlsUnderWay = answered + notices - Completed
  /\ Dropped \in IF listener = "exited" THEN {0, 1} ELSE {0}

LEMMA UnderWayFacts ==
  ASSUME TypeOK
  PROVE  /\ CountOf(pipe, Controls) \in Nat
         /\ CountOf(hidraw, Controls) \in Nat
         /\ CountOf(hidraw, Events) \in Nat
         /\ Weight(held, Controls) \in {0, 1} /\ Weight(held, Events) \in {0, 1}
         /\ answered \in Nat /\ notices \in Nat /\ presses \in Nat /\ dispatched \in Nat
         /\ Completed \in Int
<1>1. hidraw \in Seq(Report \cup {NoReport}) /\ pipe \in Seq(Report \cup {NoReport})
  BY DEF TypeOK, Report
<1>2. /\ CountOf(pipe, Controls) \in Nat
      /\ CountOf(hidraw, Controls) \in Nat
      /\ CountOf(hidraw, Events) \in Nat
  BY <1>1, CountIsNatural
<1>3. QED
  BY <1>2 DEF TypeOK, Weight, Completed

\* The property speaks of the whole line of reports.
LEMMA ConservedMeans ==
  ASSUME ConservedInv
  PROVE  ReportsConserved
<1>1. /\ hidraw \in Seq(Report \cup {NoReport})
      /\ pipe \in Seq(Report \cup {NoReport})
      /\ held \in Report \cup {NoReport}
  BY DEF ConservedInv, TypeOK, Report
<1>2. <<held>> \in Seq(Report \cup {NoReport})
  BY <1>1
<1>3. pipe \o <<held>> \in Seq(Report \cup {NoReport})
  BY <1>1, <1>2, ConcatProperties
<1>4. ASSUME NEW kinds
      PROVE  /\ CountOf(pipe \o <<held>> \o hidraw, kinds)
                  = (CountOf(pipe, kinds) + Weight(held, kinds)) + CountOf(hidraw, kinds)
             /\ CountOf(<<held>> \o hidraw, kinds)
                  = Weight(held, kinds) + CountOf(hidraw, kinds)
  <2>1. CountOf(<<held>>, kinds) = Weight(held, kinds)
    BY <1>1, CountOne
  <2>2. CountOf(pipe \o <<held>>, kinds) = CountOf(pipe, kinds) + CountOf(<<held>>, kinds)
    BY <1>1, <1>2, CountConcatenation
  <2>3. CountOf((pipe \o <<held>>) \o hidraw, kinds)
          = CountOf(pipe \o <<held>>, kinds) + CountOf(hidraw, kinds)
    BY <1>1, <1>3, CountConcatenation
  <2>4. CountOf(<<held>> \o hidraw, kinds) = CountOf(<<held>>, kinds) + CountOf(hidraw, kinds)
    BY <1>1, <1>2, CountConcatenation
  <2>5. QED
    BY <2>1, <2>2, <2>3, <2>4, Zenon
<1>5. CountOf(pipe \o <<held>> \o hidraw, Controls) = answered + notices - Completed
  BY <1>4 DEF ConservedInv, ControlsUnderWay
<1>6. presses - (dispatched + CountOf(<<held>> \o hidraw, Events))
        \in IF listener = "exited" THEN {0, 1} ELSE {0}
  BY <1>4 DEF ConservedInv, Dropped, EventsUnderWay
<1>7. QED
  BY <1>5, <1>6, Zenon DEF ReportsConserved, Controls, Events

\* A report is added to the queue of fd.
LEMMA EmitStep ==
  ASSUME ConservedInv, TypeOK', NEW r \in Report,
         hidraw' = Append(hidraw, r),
         UNCHANGED <<listenerVars, pipe, requesterVars>>,
         answered' + notices' = answered + notices + Weight(r, Controls),
         presses' = presses + Weight(r, Events)
  PROVE  ConservedInv'
<1>1. TypeOK /\ hidraw \in Seq(Report)
  BY DEF ConservedInv, TypeOK
<1>2. /\ held' = held /\ dispatched' = dispatched /\ listener' = listener
      /\ pipe' = pipe /\ Completed' = Completed
  BY DEF listenerVars, requesterVars, Completed
<1>3. \A kinds : CountOf(hidraw', kinds) = CountOf(hidraw, kinds) + Weight(r, kinds)
  BY <1>1, CountAppend
<1>4. Weight(r, Controls) \in {0, 1} /\ Weight(r, Events) \in {0, 1}
  BY DEF Weight
<1>5. ControlsUnderWay' = ControlsUnderWay + Weight(r, Controls)
  <2>1. CountOf(hidraw', Controls) = CountOf(hidraw, Controls) + Weight(r, Controls)
    BY <1>3
  <2>2. CountOf(pipe', Controls) = CountOf(pipe, Controls)
        /\ Weight(held', Controls) = Weight(held, Controls)
    BY <1>2
  <2>3. QED
    <3>1. /\ CountOf(pipe, Controls) \in Nat /\ CountOf(hidraw, Controls) \in Nat
          /\ Weight(held, Controls) \in {0, 1}
      BY <1>1, UnderWayFacts
    <3>2. QED
      BY <1>4, <2>1, <2>2, <3>1 DEF ControlsUnderWay
<1>6. EventsUnderWay' = EventsUnderWay + Weight(r, Events)
  <2>1. CountOf(hidraw', Events) = CountOf(hidraw, Events) + Weight(r, Events)
    BY <1>3
  <2>2. Weight(held', Events) = Weight(held, Events)
    BY <1>2
  <2>3. QED
    BY <1>1, <1>4, <2>1, <2>2, UnderWayFacts DEF EventsUnderWay
<1>7. EventsUnderWay \in Nat
  BY <1>1, UnderWayFacts DEF EventsUnderWay
<1>8. ControlsUnderWay' = answered' + notices' - Completed'
  <2>1. ControlsUnderWay = answered + notices - Completed
    BY DEF ConservedInv
  <2>2. Completed \in Int /\ answered \in Nat /\ notices \in Nat
    BY <1>1, UnderWayFacts
  <2>3. answered' \in Nat /\ notices' \in Nat
    BY DEF TypeOK
  <2>4. ControlsUnderWay' = answered + notices - Completed + Weight(r, Controls)
    BY <1>5, <2>1
  <2>5. ControlsUnderWay' = answered' + notices' - Completed
    <3>1. answered' + notices' = answered + notices + Weight(r, Controls)
      OBVIOUS
    <3>2. answered + notices \in Nat /\ Weight(r, Controls) \in Nat
      BY <1>4, <2>2
    <3>3. ControlsUnderWay' = (answered + notices + Weight(r, Controls)) - Completed
      BY <2>2, <2>4, <3>2
    <3>4. QED
      BY <2>2, <2>3, <3>1, <3>2, <3>3
  <2>6. QED
    BY <1>2, <2>5
<1>9. Dropped' = Dropped
  <2>1. presses \in Nat /\ dispatched \in Nat
    BY <1>1, UnderWayFacts
  <2>2. QED
    BY <1>2, <1>4, <1>6, <1>7, <2>1 DEF Dropped
<1>10. QED
  BY <1>2, <1>8, <1>9 DEF ConservedInv

\* The listener takes the first report of fd.
LEMMA TakeStep ==
  ASSUME ConservedInv, TypeOK', ListenRead
  PROVE  ConservedInv'
<1>1. TypeOK /\ hidraw \in Seq(Report) /\ hidraw # <<>>
  BY DEF ConservedInv, TypeOK, ListenRead, TakeReport
<1>2. /\ listener = "reading" /\ held = NoReport
      /\ held' = Head(hidraw) /\ hidraw' = Tail(hidraw)
      /\ listener' # "exited"
      /\ dispatched' = dispatched /\ pipe' = pipe /\ Completed' = Completed
      /\ answered' = answered /\ notices' = notices /\ presses' = presses
  BY <1>1 DEF ListenRead, TakeReport, Branch, TypeOK, hardwareVars, requesterVars, Completed
<1>3. \A kinds : CountOf(hidraw, kinds) = Weight(held', kinds) + CountOf(hidraw', kinds)
  BY <1>1, <1>2, CountTail
<1>4. Weight(held, Controls) = 0 /\ Weight(held, Events) = 0
  BY <1>2, Weights
<1>5. ControlsUnderWay' = ControlsUnderWay
  <2>1. CountOf(hidraw, Controls) = Weight(held', Controls) + CountOf(hidraw', Controls)
    BY <1>3
  <2>2. CountOf(hidraw', Controls) \in Nat /\ Weight(held', Controls) \in {0, 1}
    BY <1>1, <1>2, CountTail DEF Weight
  <2>3. CountOf(pipe', Controls) = CountOf(pipe, Controls) /\ CountOf(pipe, Controls) \in Nat
    BY <1>1, <1>2, UnderWayFacts
  <2>4. QED
    BY <1>4, <2>1, <2>2, <2>3 DEF ControlsUnderWay
<1>6. EventsUnderWay' = EventsUnderWay
  <2>1. CountOf(hidraw, Events) = Weight(held', Events) + CountOf(hidraw', Events)
    BY <1>3
  <2>2. CountOf(hidraw', Events) \in Nat /\ Weight(held', Events) \in {0, 1}
    BY <1>1, <1>2, CountTail DEF Weight
  <2>3. QED
    BY <1>4, <2>1, <2>2 DEF EventsUnderWay
<1>7. Dropped' = Dropped
  BY <1>2, <1>6 DEF Dropped
<1>8. QED
  BY <1>2, <1>5, <1>7 DEF ConservedInv

\* The listener puts the report it holds into the pipe.
LEMMA PutStep ==
  ASSUME ConservedInv, TypeOK', Redirect
  PROVE  ConservedInv'
<1>1. TypeOK /\ pipe \in Seq(Report)
  BY DEF ConservedInv, TypeOK, Report
<1>2. /\ listener = "redirecting" /\ held \in ControlReport
      /\ held' = NoReport /\ pipe' = Append(pipe, held)
      /\ listener' = "reading"
      /\ dispatched' = dispatched /\ hidraw' = hidraw /\ Completed' = Completed
      /\ answered' = answered /\ notices' = notices /\ presses' = presses
  BY <1>1 DEF Redirect, RedirectInto, TypeOK, hardwareVars, requesterVars, Completed
<1>3. CountOf(pipe', Controls) = CountOf(pipe, Controls) + Weight(held, Controls)
  BY <1>1, <1>2, CountAppend DEF Report
<1>4. /\ Weight(held, Controls) = 1 /\ Weight(held, Events) = 0
      /\ Weight(held', Controls) = 0 /\ Weight(held', Events) = 0
  BY <1>2, Weights
<1>5. ControlsUnderWay' = ControlsUnderWay
  <2>1. /\ CountOf(hidraw', Controls) = CountOf(hidraw, Controls)
        /\ CountOf(hidraw, Controls) \in Nat /\ CountOf(pipe, Controls) \in Nat
    BY <1>1, <1>2, UnderWayFacts
  <2>2. QED
    BY <1>3, <1>4, <2>1 DEF ControlsUnderWay
<1>6. EventsUnderWay' = EventsUnderWay
  BY <1>2, <1>4 DEF EventsUnderWay
<1>7. Dropped' = Dropped
  BY <1>2, <1>6 DEF Dropped
<1>8. QED
  BY <1>2, <1>5, <1>7 DEF ConservedInv

\* The event that the listener holds is dispatched, or lost with the listener.
LEMMA DispatchStep ==
  ASSUME ConservedInv, TypeOK', Dispatch \/ DispatchFails
  PROVE  ConservedInv'
<1>1. TypeOK
  BY DEF ConservedInv
<1>2. /\ listener = "dispatching" /\ held \in EventReport
      /\ held' = NoReport
      /\ hidraw' = hidraw /\ pipe' = pipe /\ Completed' = Completed
      /\ answered' = answered /\ notices' = notices /\ presses' = presses
  BY <1>1 DEF Dispatch, DispatchFails, TypeOK, hardwareVars, requesterVars, Completed
<1>3. /\ Weight(held, Controls) = 0 /\ Weight(held, Events) = 1
      /\ Weight(held', Controls) = 0 /\ Weight(held', Events) = 0
  BY <1>2, Weights
<1>4. ControlsUnderWay' = ControlsUnderWay
  BY <1>2, <1>3 DEF ControlsUnderWay
<1>5. CountOf(hidraw, Events) \in Nat /\ CountOf(hidraw', Events) = CountOf(hidraw, Events)
      /\ presses \in Nat /\ dispatched \in Nat
  BY <1>1, <1>2, UnderWayFacts
<1>6. EventsUnderWay = 1 + CountOf(hidraw, Events)
      /\ EventsUnderWay' = CountOf(hidraw, Events)
  BY <1>3, <1>5 DEF EventsUnderWay
<1>7. Dropped = 0
  BY <1>2 DEF ConservedInv
<1>8. CASE Dispatch
  <2>1. dispatched' = dispatched + 1
    BY <1>8 DEF Dispatch
  <2>2. Dropped' = 0
    BY <1>2, <1>5, <1>6, <1>7, <2>1 DEF Dropped
  <2>3. QED
    BY <1>2, <1>4, <2>2 DEF ConservedInv
<1>9. CASE DispatchFails
  <2>1. dispatched' \in {dispatched, dispatched + 1} /\ listener' = "exited"
    BY <1>9 DEF DispatchFails
  <2>2. Dropped' \in {0, 1}
    BY <1>2, <1>5, <1>6, <1>7, <2>1 DEF Dropped
  <2>3. QED
    BY <1>2, <1>4, <2>1, <2>2 DEF ConservedInv
<1>10. QED
  BY <1>8, <1>9

\* An exchange takes the first packet of the pipe and is complete.
LEMMA TakePacketStep ==
  ASSUME ConservedInv, TypeOK', ReadResponse
  PROVE  ConservedInv'
<1>1. TypeOK /\ pipe \in Seq(Report) /\ pipe \in Seq(ControlReport) /\ pipe # <<>>
  BY DEF ConservedInv, TypeOK, Report, ReadResponse, Receive
<1>2. /\ requester = "waiting" /\ requester' = "idle" /\ sent' = sent /\ sent \in Nat
      /\ pipe' = Tail(pipe)
      /\ held' = held /\ hidraw' = hidraw /\ dispatched' = dispatched
      /\ listener' = listener
      /\ answered' = answered /\ notices' = notices /\ presses' = presses
  BY <1>1 DEF ReadResponse, Receive, TypeOK, hardwareVars, listenerVars
<1>3. Weight(Head(pipe), Controls) = 1
  BY <1>1, Weights
<1>4. CountOf(pipe, Controls) = 1 + CountOf(pipe', Controls) /\ CountOf(pipe', Controls) \in Nat
  BY <1>1, <1>2, <1>3, CountTail
<1>5. ControlsUnderWay' = ControlsUnderWay - 1
  <2>1. /\ CountOf(hidraw', Controls) = CountOf(hidraw, Controls)
        /\ CountOf(hidraw, Controls) \in Nat
        /\ Weight(held', Controls) = Weight(held, Controls)
        /\ Weight(held, Controls) \in {0, 1}
    BY <1>1, <1>2, UnderWayFacts
  <2>2. QED
    BY <1>4, <2>1 DEF ControlsUnderWay
<1>6. Completed = sent - 1 /\ Completed' = sent
  BY <1>2 DEF Completed
<1>7. ControlsUnderWay' = answered' + notices' - Completed'
  <2>1. ControlsUnderWay = answered + notices - Completed
    BY DEF ConservedInv
  <2>2. answered \in Nat /\ notices \in Nat
    BY <1>1, UnderWayFacts
  <2>3. QED
    BY <1>2, <1>5, <1>6, <2>1, <2>2
<1>8. Dropped' = Dropped
  BY <1>2 DEF Dropped, EventsUnderWay
<1>9. QED
  BY <1>2, <1>7, <1>8 DEF ConservedInv

\* A step that moves no report.
LEMMA MovesNothing ==
  ASSUME ConservedInv, TypeOK',
         UNCHANGED <<answered, notices, presses, hidraw, held, dispatched, pipe>>,
         Completed' = Completed,
         listener' = listener \/ listener' = "exited"
  PROVE  ConservedInv'
<1>1. ControlsUnderWay' = ControlsUnderWay /\ Dropped' = Dropped
  BY DEF ControlsUnderWay, EventsUnderWay, Dropped
<1>2. QED
  BY <1>1 DEF ConservedInv

LEMMA ConservedStep ==
  ASSUME ConservedInv, [Next]_vars
  PROVE  ConservedInv'
<1>1. TypeOK /\ TypeOK'
  BY TypeStep DEF ConservedInv
<1>2. answered \in Nat /\ notices \in Nat /\ presses \in Nat /\ sent \in Nat
  BY <1>1 DEF TypeOK
<1>3. ASSUME NEW e \in BOOLEAN, Answer(e)
      PROVE  ConservedInv'
  <2> DEFINE r == Reply(answered + 1, e)
  <2>1. r \in ControlReport
    BY <1>2 DEF Reply, ControlReport, ReplyReport
  <2>2. r \in Report /\ Weight(r, Controls) = 1 /\ Weight(r, Events) = 0
    BY <2>1, Weights DEF Report
  <2>3. /\ hidraw' = Append(hidraw, r)
        /\ answered' = answered + 1 /\ notices' = notices /\ presses' = presses
        /\ UNCHANGED <<listenerVars, pipe, requesterVars>>
    BY <1>3 DEF Answer
  <2> HIDE DEF r
  <2>4. /\ answered' + notices' = answered + notices + Weight(r, Controls)
        /\ presses' = presses + Weight(r, Events)
    BY <1>2, <2>2, <2>3
  <2>5. QED
    BY <1>1, <2>2, <2>3, <2>4, EmitStep
<1>4. ASSUME NEW e \in BOOLEAN, Notify(e)
      PROVE  ConservedInv'
  <2> DEFINE r == Notice(e)
  <2>1. r \in ControlReport
    BY DEF Notice, ControlReport, NoticeReport
  <2>2. r \in Report /\ Weight(r, Controls) = 1 /\ Weight(r, Events) = 0
    BY <2>1, Weights DEF Report
  <2>3. /\ hidraw' = Append(hidraw, r)
        /\ answered' = answered /\ notices' = notices + 1 /\ presses' = presses
        /\ UNCHANGED <<listenerVars, pipe, requesterVars>>
    BY <1>4 DEF Notify
  <2> HIDE DEF r
  <2>4. /\ answered' + notices' = answered + notices + Weight(r, Controls)
        /\ presses' = presses + Weight(r, Events)
    BY <1>2, <2>2, <2>3
  <2>5. QED
    BY <1>1, <2>2, <2>3, <2>4, EmitStep
<1>5. CASE PressButton
  <2>1. Press \in EventReport
    BY DEF Press, EventReport
  <2>2. Press \in Report /\ Weight(Press, Controls) = 0 /\ Weight(Press, Events) = 1
    BY <2>1, Weights DEF Report
  <2>3. /\ hidraw' = Append(hidraw, Press)
        /\ answered' = answered /\ notices' = notices /\ presses' = presses + 1
        /\ UNCHANGED <<listenerVars, pipe, requesterVars>>
    BY <1>5 DEF PressButton
  <2>4. /\ answered' + notices' = answered + notices + Weight(Press, Controls)
        /\ presses' = presses + Weight(Press, Events)
    BY <1>2, <2>2, <2>3
  <2>5. QED
    BY <1>1, <2>2, <2>3, <2>4, EmitStep
<1>6. CASE Unplug \/ ListenReadFails \/ RequestFails \/ UNCHANGED vars
  BY <1>1, <1>6, MovesNothing
  DEF Unplug, ListenReadFails, RequestFails, vars, hardwareVars, listenerVars,
      requesterVars, Completed
<1>7. CASE Request
  <2>1. Completed' = Completed
    BY <1>2, <1>7 DEF Request, Completed
  <2>2. QED
    BY <1>1, <1>7, <2>1, MovesNothing DEF Request, hardwareVars, listenerVars
<1>8. CASE Listener
  BY <1>1, <1>6, <1>8, TakeStep, PutStep, DispatchStep DEF Listener
<1>9. CASE ReadResponse
  BY <1>1, <1>9, TakePacketStep
<1>10. QED
  BY <1>3, <1>4, <1>5, <1>6, <1>7, <1>8, <1>9 DEF Next, Hardware, Requester

\* No report is lost or doubled between the receiver and its consumers, however many
\* there are: each exchange takes one control report, and each event is dispatched,
\* but for one that goes with a failing listener.
THEOREM ConservedCorrect == Spec => []ReportsConserved
<1>1. Init => ConservedInv
  <2> SUFFICES ASSUME Init
               PROVE  ConservedInv
    OBVIOUS
  <2>1. TypeOK
    BY BoundsAssumption DEF Init, TypeOK, NoReport
  <2>2. \A kinds : CountOf(<<>>, kinds) = 0
    <3>1. \A kinds : Where(<<>>, kinds) = {}
      BY DEF Where
    <3>2. Cardinality({}) = 0
      BY FS_EmptySet
    <3>3. QED
      BY <3>1, <3>2, Zenon DEF CountOf, Where
  <2>3. Weight(held, Controls) = 0 /\ Weight(held, Events) = 0
    BY Weights DEF Init
  <2>4. ControlsUnderWay = 0 /\ EventsUnderWay = 0
    BY <2>2, <2>3 DEF Init, ControlsUnderWay, EventsUnderWay
  <2>5. QED
    BY <2>1, <2>4 DEF Init, ConservedInv, Dropped, Completed
<1>2. QED
  BY <1>1, ConservedMeans, ConservedStep, PTL DEF Spec
===============================================================================
