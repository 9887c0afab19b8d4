------------------------------ MODULE ConfigRead ------------------------------
(***************************************************************************)
(* slavery_config_new: a JSON file is mapped and parsed, and each member   *)
(* of its object becomes an entry of the configuration, or is ignored if   *)
(* slavery_config_entry_parse finds a value of the wrong type.             *)
(*                                                                         *)
(* Of the JSON only the types of the values are kept.  Nothing is ever     *)
(* freed (slavery_config_free is empty).  What touches memory that it may  *)
(* not is a fault, named for the call, and ends the behaviour.             *)
(***************************************************************************)
EXTENDS Naturals, Sequences, FiniteSets

CONSTANTS
  Entries,   \* the members a document may have: a type for each key, the items
  MaxEntries \* bound: members of the object

\* The keys that are read, in that order, and the types that they may have.
Keys == <<"description", "enabled", "inhibit_cursor", "do_default", "do_command">>

Wanted ==
  [description    |-> {"string"},
   enabled        |-> {"boolean"},
   inhibit_cursor |-> {"boolean"},
   do_default     |-> {"boolean"},
   do_command     |-> {"string", "array"}]

\* A member that is no object has none of the keys.
EntryType ==
  [types : [DOMAIN Wanted -> {"absent", "string", "boolean", "array", "other"}],
   items : Seq({"string", "other"})]

ASSUME ConfigAssumption ==
  /\ Entries \subseteq EntryType
  /\ MaxEntries \in Nat

VARIABLES
  place,    \* where slavery_config_new is, or what it returned
  file,     \* how the file lies in its last page, once it is mapped
  pointer,  \* config->entries: "garbage" or "null" as malloc left it, or "block"
  usable,   \* bytes that may be used from there on
  listed,   \* the cells of config->entries, places in document
  document, \* the members met so far
  key,      \* the key that slavery_config_entry_parse is at, a place in Keys
  item,     \* the item of the array that is read there, from 0
  heap,     \* blocks allocated, by member and part
  fault     \* the call that went wrong, or "none"

vars == <<place, file, pointer, usable, listed, document, key, item, heap, fault>>

Member == document[Len(document)]

-------------------------------------------------------------------------------
(* The file.                                                               *)

Init ==
  /\ place = "opening"
  /\ file = "unmapped"
  /\ pointer \in {"garbage", "null"}
  /\ usable = 0
  /\ listed = <<>>
  /\ document = <<>>
  /\ key = 0
  /\ item = 0
  /\ heap = {}
  /\ fault = "none"

\* open or fstat fails: NULL.
OpenFails ==
  /\ place = "opening"
  /\ place' = "NULL"
  /\ UNCHANGED <<file, pointer, usable, listed, document, key, item, heap, fault>>

\* An empty file cannot be mapped; MAP_FAILED is not NULL, so that is not noticed.
Map ==
  /\ place = "opening"
  /\ file' \in {"not mapped", "ends within a page", "fills its pages"}
  /\ place' = "parsing"
  /\ UNCHANGED <<pointer, usable, listed, document, key, item, heap, fault>>

ParseFails ==
  /\ place = "parsing"
  /\ file # "not mapped"
  /\ place' = "NULL"
  /\ UNCHANGED <<file, pointer, usable, listed, document, key, item, heap, fault>>

Parse ==
  /\ place = "parsing"
  /\ file # "not mapped"
  /\ place' = "members"
  /\ UNCHANGED <<file, pointer, usable, listed, document, key, item, heap, fault>>

\* The parser is told no length and reads on to a NUL, which only the rest of a
\* page provides.
ParseFaults ==
  /\ place = "parsing"
  /\ file # "ends within a page"
  /\ fault' = "parse"
  /\ UNCHANGED <<place, file, pointer, usable, listed, document, key, item, heap>>

\* What was parsed need not be an object.
MembersFault ==
  /\ place = "members"
  /\ document = <<>>
  /\ fault' = "members"
  /\ UNCHANGED <<place, file, pointer, usable, listed, document, key, item, heap>>

-------------------------------------------------------------------------------
(* slavery_config_entry_parse: one key after the other, all optional.      *)

Allocate(parts) == heap' = heap \cup ({Len(document)} \X parts)

MutantBeginEntry(e) ==
  /\ place = "members"
  /\ Len(document) < MaxEntries
  /\ document' = Append(document, e)
  /\ heap' = heap \cup {<<Len(document) + 1, "entry">>}
  /\ key' = 1
  /\ place' = "entry"
  /\ UNCHANGED <<file, pointer, usable, listed, item, fault>>

BeginEntry(e) ==
  /\ place = "members"
  /\ Len(document) < MaxEntries
  /\ document' = Append(document, e)
  /\ heap' = heap \cup ({Len(document) + 1} \X {"entry", "name"})
  /\ key' = 1
  /\ place' = "entry"
  /\ UNCHANGED <<file, pointer, usable, listed, item, fault>>

Type == Member.types[Keys[key]]

NextKeyUpTo(last) ==
  /\ IF key < last
     THEN key' = key + 1 /\ place' = "entry"
     ELSE key' = 0 /\ place' = "growing"
  /\ UNCHANGED <<file, pointer, usable, listed, document, fault>>

MutantNextKey == NextKeyUpTo(Len(Keys) + 1)

NextKey == NextKeyUpTo(Len(Keys))

\* The member is ignored, and what has been allocated for it forgotten.
Ignore ==
  /\ key' = 0
  /\ item' = 0
  /\ place' = "members"
  /\ UNCHANGED <<file, pointer, usable, listed, document, heap, fault>>

AtKey == place = "entry" /\ key \in DOMAIN Keys

Absent ==
  /\ AtKey
  /\ Type = "absent"
  /\ NextKey
  /\ UNCHANGED <<item, heap>>

MutantWrongType ==
  /\ AtKey
  /\ Type \notin Wanted[Keys[key]] \cup {"absent"}
  /\ NextKey
  /\ UNCHANGED <<item, heap>>

WrongType ==
  /\ AtKey
  /\ Type \notin Wanted[Keys[key]] \cup {"absent"}
  /\ Ignore

\* A string or a boolean.  What a string is duplicated to, the entry points to.
Single ==
  /\ AtKey
  /\ Type \in Wanted[Keys[key]] \ {"array"}
  /\ NextKey
  /\ CASE Keys[key] = "description" -> Allocate({"description"})
       [] Keys[key] = "do_command"  -> Allocate({"commands", "strings"})
       [] OTHER                     -> UNCHANGED heap
  /\ UNCHANGED item

BeginItemsAt(first) ==
  /\ AtKey
  /\ Type = "array"
  /\ "array" \in Wanted[Keys[key]]
  /\ Allocate({"commands"})
  /\ item' = first
  /\ place' = "items"
  /\ UNCHANGED <<file, pointer, usable, listed, document, key, fault>>

MutantBeginItems == BeginItemsAt(1)

BeginItems == BeginItemsAt(0)

\* *value[i] = strdup(...): right for the first item.  For any other value[i] is what
\* follows do_command in the entry, which nothing has written.
StringItem ==
  /\ place = "items"
  /\ item < Len(Member.items)
  /\ Member.items[item + 1] = "string"
  /\ Allocate({"strings"})
  /\ IF item = 0
     THEN item' = 1 /\ UNCHANGED fault
     ELSE fault' = "item" /\ UNCHANGED item
  /\ UNCHANGED <<place, file, pointer, usable, listed, document, key>>

AtOtherItem ==
  /\ place = "items"
  /\ item < Len(Member.items)
  /\ Member.items[item + 1] # "string"

OtherItem == AtOtherItem /\ Ignore

\* The warning about it has a %s and no argument: what vasprintf takes for one may
\* be no string.
WarningFaults ==
  /\ AtOtherItem
  /\ fault' = "warning"
  /\ UNCHANGED <<place, file, pointer, usable, listed, document, key, item, heap>>

EndItems ==
  /\ place = "items"
  /\ item >= Len(Member.items)
  /\ NextKey
  /\ item' = 0
  /\ UNCHANGED heap

-------------------------------------------------------------------------------
(* The entry is appended.                                                  *)

PointerBytes == 8

\* What malloc makes of a request, in a 64-bit glibc.
UsableBytes(request) ==
  IF request <= 24 THEN 24 ELSE 16 * ((request + 23) \div 16) - 8

MutantRequest == PointerBytes * Len(listed)

\* sizeof(slavery_config_entry_t *) * config->num_entries + 1
Request == PointerBytes * Len(listed) + 1

Grow ==
  /\ place = "growing"
  /\ IF pointer = "garbage"
     THEN fault' = "realloc" /\ UNCHANGED <<place, pointer, usable>>
     ELSE /\ pointer' = "block"
          /\ usable' = UsableBytes(Request)
          /\ place' = "storing"
          /\ UNCHANGED fault
  /\ UNCHANGED <<file, listed, document, key, item, heap>>

Store ==
  /\ place = "storing"
  /\ listed' = Append(listed, Len(document))
  /\ place' = "members"
  /\ UNCHANGED <<file, pointer, usable, document, key, item, heap, fault>>

Return ==
  /\ place = "members"
  /\ place' = "config"
  /\ UNCHANGED <<file, pointer, usable, listed, document, key, item, heap, fault>>

-------------------------------------------------------------------------------
File == OpenFails \/ Map \/ ParseFails \/ Parse \/ ParseFaults \/ MembersFault

EntryParse ==
  \/ \E e \in Entries : BeginEntry(e)
  \/ Absent \/ WrongType \/ Single
  \/ BeginItems \/ StringItem \/ OtherItem \/ WarningFaults \/ EndItems

Next == fault = "none" /\ (File \/ EntryParse \/ Grow \/ Store \/ Return)

Spec == Init /\ [][Next]_vars

-------------------------------------------------------------------------------
(* Properties.                                                             *)

Parts == {"entry", "name", "description", "commands", "strings"}

\* Types.
TypeOK ==
  /\ place \in {"opening", "parsing", "members", "entry", "items", "growing", "storing",
                "config", "NULL"}
  /\ file \in {"unmapped", "not mapped", "ends within a page", "fills its pages"}
  /\ pointer \in {"garbage", "null", "block"}
  /\ usable \in Nat
  /\ listed \in Seq(1..Len(document))
  /\ document \in Seq(Entries)
  /\ Len(document) <= MaxEntries
  /\ key \in 0..Len(Keys)
  /\ place = "entry" => key # 0
  /\ item \in Nat
  /\ heap \subseteq (1..Len(document)) \X Parts
  /\ fault \in {"none", "parse", "members", "item", "warning", "realloc"}

\* What a member must be: each of its keys, if it is there, of a type it may have,
\* and its commands strings.
WellFormed(e) ==
  /\ \A k \in DOMAIN Wanted : e.types[k] \in Wanted[k] \cup {"absent"}
  /\ e.types["do_command"] = "array" => \A i \in DOMAIN e.items : e.items[i] = "string"

Done == IF place \in {"entry", "items", "growing", "storing"}
        THEN Len(document) - 1
        ELSE Len(document)

\* The configuration lists the members that are well-formed, each once and in the
\* order of the document, whatever the ignored ones between them are like.
EntriesExact ==
  /\ {listed[i] : i \in DOMAIN listed} = {n \in 1..Done : WellFormed(document[n])}
  /\ \A i, j \in DOMAIN listed : i < j => listed[i] < listed[j]

\* The request for memory lacks seven bytes (a parenthesis is missing in it), but
\* what malloc adds makes up for them, however many entries there are.
EntriesFit ==
  /\ PointerBytes * Len(listed) <= usable
  /\ place = "storing" => PointerBytes * (Len(listed) + 1) <= usable

\* Memory is misused only by a file that has no page left to end in, or is empty,
\* a document that is no object, a member whose command is an array that starts
\* with two strings or has no string in one of the first two places (the strings are
\* stored past the list, the warning lacks an argument), or, unless malloc happened
\* to leave a NULL, the first member that is accepted.
FaultsKnown ==
  /\ fault = "parse" => file \in {"not mapped", "fills its pages"}
  /\ fault = "members" => document = <<>>
  /\ fault = "item" => /\ Member.types["do_command"] = "array"
                       /\ Len(Member.items) >= 2
                       /\ Member.items[1] = "string" /\ Member.items[2] = "string"
  /\ fault = "warning" => /\ Member.types["do_command"] = "array"
                          /\ \E i \in DOMAIN Member.items :
                               i <= 2 /\ Member.items[i] # "string"
  /\ fault = "realloc" => /\ pointer = "garbage"
                          /\ WellFormed(Member)
                          /\ \A n \in 1..Done : ~WellFormed(document[n])

\* The keys are read up to the first of a wrong type.
Reached(e, n) == \A m \in 1..(n - 1) : e.types[Keys[m]] \in Wanted[Keys[m]] \cup {"absent"}

Left(e) ==
  {"entry", "name"}
  \cup (IF e.types["description"] = "string" THEN {"description"} ELSE {})
  \cup (IF Reached(e, 5) /\ e.types["do_command"] \in {"string", "array"}
        THEN {"commands"} ELSE {})
  \cup (IF Reached(e, 5) /\ \/ e.types["do_command"] = "string"
                            \/ e.types["do_command"] = "array" /\ Len(e.items) > 0
                                                               /\ e.items[1] = "string"
        THEN {"strings"} ELSE {})

\* Each entry listed has what its document gives it; of a member that is ignored, the
\* same stays allocated as far as it was read, and nothing refers to it any more.
HeapExact ==
  {b \in heap : b[1] <= Done} = UNION {{n} \X Left(document[n]) : n \in 1..Done}
===============================================================================
