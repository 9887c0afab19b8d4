----------------------------- MODULE RequestReply -----------------------------
(***************************************************************************)
(* What a caller of the control channel may rely on.  One caller makes     *)
(* calls one at a time; a call is refused, or it comes back with exactly   *)
(* one report.  Replies are handed out strictly in the order of the calls  *)
(* and none is skipped.                                                    *)
(*                                                                         *)
(* A stray is a report nobody asked for, handed out in place of a reply.   *)
(* The call's own reply is then still to come, and it is handed out to a   *)
(* later call: with n calls in the backlog besides the one being made,     *)
(* every reply belongs to the call made n calls earlier.  When no strays   *)
(* are possible this is a plain remote procedure call.                     *)
(***************************************************************************)
EXTENDS Naturals, Sequences

CONSTANTS
  Questions,  \* what a call may ask
  Nothing,    \* no question
  MayStray    \* BOOLEAN: may a call be handed an unsolicited report?

VARIABLES
  busy,     \* a call is waiting for its report
  backlog,  \* the questions whose replies have not been handed out, in order
  answer    \* the question that the report last handed out replies to

vars == <<busy, backlog, answer>>

Init ==
  /\ busy = FALSE
  /\ backlog = <<>>
  /\ answer = Nothing

Call(q) ==
  /\ ~busy
  /\ busy' = TRUE
  /\ backlog' = Append(backlog, q)
  /\ UNCHANGED answer

Refuse ==
  /\ ~busy
  /\ answer' = Nothing
  /\ UNCHANGED <<busy, backlog>>

Reply ==
  /\ busy
  /\ backlog # <<>>
  /\ busy' = FALSE
  /\ answer' = Head(backlog)
  /\ backlog' = Tail(backlog)

Stray ==
  /\ busy
  /\ MayStray
  /\ busy' = FALSE
  /\ answer' = Nothing
  /\ UNCHANGED backlog

Next == (\E q \in Questions : Call(q)) \/ Refuse \/ Reply \/ Stray

Spec == Init /\ [][Next]_vars
===============================================================================
