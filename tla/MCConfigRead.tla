----------------------------- MODULE MCConfigRead -----------------------------
(* ConfigRead with members that differ from an ordinary one in one or two types. *)
EXTENDS ConfigRead, TLC

Ordinary ==
  [types |-> [description |-> "string", enabled |-> "boolean", inhibit_cursor |-> "boolean",
              do_default |-> "boolean", do_command |-> "string"],
   items |-> <<>>]

Bare == [types |-> [k \in DOMAIN Wanted |-> "absent"], items |-> <<>>]

Wrong(k) == [Ordinary EXCEPT !.types[k] = "other"]

Array(items) == [types |-> [Ordinary.types EXCEPT !["do_command"] = "array"], items |-> items]

Commands == {<<>>, <<"string">>, <<"other", "string">>, <<"string", "other">>, <<"string", "string">>}

\* Too many strings, but nobody gets that far.
Unread == [Array(<<"string", "string">>) EXCEPT !.types["enabled"] = "string"]

Members ==
  {Ordinary, Bare, Unread} \cup {Wrong(k) : k \in {"description", "do_default", "do_command"}}
    \cup {Array(c) : c \in Commands}
===============================================================================
