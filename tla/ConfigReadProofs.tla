--------------------------- MODULE ConfigReadProofs ---------------------------
(***************************************************************************)
(* Proofs about ConfigRead, for every set of members a document may have   *)
(* and documents of every length.                                          *)
(***************************************************************************)
EXTENDS ConfigRead, SequenceTheorems, TLAPS

-------------------------------------------------------------------------------
(* The array of entries.                                                   *)

\* What malloc rounds a request up to covers the seven bytes that are missing.
LEMMA RequestSuffices ==
  ASSUME NEW n \in Nat
  PROVE  /\ UsableBytes(PointerBytes * n + 1) \in Nat
         /\ PointerBytes * (n + 1) <= UsableBytes(PointerBytes * n + 1)
<1>1. CASE n <= 2
  BY <1>1 DEF UsableBytes, PointerBytes
<1>2. CASE n > 2
  <2>1. UsableBytes(PointerBytes * n + 1) = 16 * ((8 * n + 24) \div 16) - 8
    BY <1>2 DEF UsableBytes, PointerBytes
  <2>2. PICK h \in Nat : n = 2 * h \/ n = 2 * h + 1
    <3>1. n \div 2 \in Nat /\ (n = 2 * (n \div 2) \/ n = 2 * (n \div 2) + 1)
      OBVIOUS
    <3>2. QED
      BY <3>1
  <2>3. CASE n = 2 * h
    <3>1. (8 * n + 24) \div 16 = h + 1
      BY <2>3
    <3>2. QED
      BY <2>1, <2>3, <3>1 DEF PointerBytes
  <2>4. CASE n = 2 * h + 1
    <3>1. (8 * n + 24) \div 16 = h + 2
      BY <2>4
    <3>2. QED
      BY <2>1, <2>4, <3>1 DEF PointerBytes
  <2>5. QED
    BY <2>2, <2>3, <2>4
<1>3. QED
  BY <1>1, <1>2

FitInv ==
  /\ document \in Seq(Entries)
  /\ listed \in Seq(Nat)
  /\ usable \in Nat
  /\ EntriesFit

LEMMA FitInit == Init => FitInv
  BY DEF Init, FitInv, EntriesFit, PointerBytes

LEMMA FitStep ==
  ASSUME FitInv, [Next]_vars
  PROVE  FitInv'
<1> USE DEF FitInv, EntriesFit
<1>1. CASE File
  BY <1>1 DEF File, OpenFails, Map, ParseFails, Parse, ParseFaults, MembersFault
<1>2. ASSUME NEW e \in Entries, BeginEntry(e)
      PROVE  FitInv'
  BY <1>2 DEF BeginEntry
<1>3. CASE Absent \/ WrongType \/ Single \/ EndItems
  BY <1>3 DEF Absent, WrongType, Single, EndItems, NextKey, NextKeyUpTo, Ignore
<1>4. CASE BeginItems \/ StringItem \/ OtherItem \/ WarningFaults
  BY <1>4 DEF BeginItems, BeginItemsAt, StringItem, OtherItem, WarningFaults, Ignore
<1>5. CASE Grow
  <2>1. Len(listed) \in Nat
    OBVIOUS
  <2>2. /\ UsableBytes(Request) \in Nat
        /\ PointerBytes * (Len(listed) + 1) <= UsableBytes(Request)
    BY <2>1, RequestSuffices DEF Request
  <2>3. PointerBytes * Len(listed) <= PointerBytes * (Len(listed) + 1)
    BY <2>1 DEF PointerBytes
  <2>4. QED
    BY <1>5, <2>1, <2>2, <2>3 DEF Grow, PointerBytes
<1>6. CASE Store
  <2>1. /\ Len(listed') = Len(listed) + 1
        /\ listed' \in Seq(Nat)
    BY <1>6 DEF Store
  <2>2. QED
    BY <1>6, <2>1 DEF Store
<1>7. CASE Return
  BY <1>7 DEF Return
<1>8. CASE UNCHANGED vars
  BY <1>8 DEF vars
<1>9. QED
  BY <1>1, <1>2, <1>3, <1>4, <1>5, <1>6, <1>7, <1>8 DEF Next, EntryParse

\* However many entries slavery_config_new appends, they stay within the memory
\* that its realloc, asked for too little, has got.
THEOREM FitCorrect == Spec => []EntriesFit
<1>1. FitInv => EntriesFit
  BY DEF FitInv
<1>2. QED
  BY <1>1, FitInit, FitStep, PTL DEF Spec

-------------------------------------------------------------------------------
(* What can go wrong.                                                      *)

\* The keys of e before the n-th have been found to be of a type they may have.
KeysRead(e, n) ==
  \A m \in 1..5 : m < n => e.types[Keys[m]] \in Wanted[Keys[m]] \cup {"absent"}

Reading == {"entry", "items", "growing", "storing"}

\* Where slavery_config_entry_parse stands says what it has found.
EntryInv ==
  /\ place \in Reading => document # <<>>
  /\ place = "entry" => key \in 1..5 /\ item = 0 /\ KeysRead(Member, key)
  /\ place = "items" => /\ key = 5
                        /\ item \in {0, 1}
                        /\ KeysRead(Member, 5)
                        /\ Member.types["do_command"] = "array"
                        /\ item <= Len(Member.items)
                        /\ item = 1 => Member.items[1] = "string"
  /\ place \in {"growing", "storing"} => WellFormed(Member)

\* The pointer is garbage until the first member is accepted.
PointerInv ==
  /\ place = "storing" => pointer = "block"
  /\ pointer = "garbage" => \A n \in 1..Done : ~WellFormed(document[n])

FileInv ==
  place = "parsing" => file \in {"not mapped", "ends within a page", "fills its pages"}

FaultsInv ==
  /\ document \in Seq(Entries)
  /\ FileInv
  /\ place # "items" => item = 0
  /\ EntryInv
  /\ PointerInv
  /\ FaultsKnown

LEMMA FiveKeys ==
  /\ DOMAIN Keys = 1..5
  /\ Keys[1] = "description" /\ Keys[2] = "enabled" /\ Keys[3] = "inhibit_cursor"
  /\ Keys[4] = "do_default" /\ Keys[5] = "do_command"
  /\ Len(Keys) = 5
  /\ DOMAIN Wanted = {"description", "enabled", "inhibit_cursor", "do_default", "do_command"}
  BY DEF Keys, Wanted

LEMMA AllKeysRead ==
  ASSUME NEW e, KeysRead(e, 6),
         e.types["do_command"] = "array" =>
           \A i \in DOMAIN e.items : e.items[i] = "string"
  PROVE  WellFormed(e)
<1>1. \A k \in DOMAIN Wanted : \E m \in 1..5 : k = Keys[m]
  BY FiveKeys
<1>2. QED
  BY <1>1 DEF KeysRead, WellFormed

\* An action that leaves the document, and stays with its last member, does not
\* change which members are done with.
LEMMA SameDone ==
  ASSUME document \in Seq(Entries), UNCHANGED document,
         place \in Reading <=> place' \in Reading
  PROVE  Member' = Member /\ Done' = Done
  BY DEF Member, Done, Reading

LEMMA FaultsInit == Init => FaultsInv
  BY DEF Init, FaultsInv, FileInv, EntryInv, PointerInv, FaultsKnown, Done, Reading

\* The last member is given up: it is one of those done with, and not well-formed.
LEMMA IgnoreStep ==
  ASSUME FaultsInv, fault = "none", place \in {"entry", "items"}, Ignore,
         ~WellFormed(Member)
  PROVE  FaultsInv'
<1>1. document # <<>> /\ Len(document) \in Nat
  BY DEF FaultsInv, EntryInv, Reading
<1>2. Done = Len(document) - 1 /\ Done' = Len(document)
  BY DEF Ignore, Done, Reading
<1>3. PointerInv'
  BY <1>1, <1>2 DEF FaultsInv, PointerInv, Ignore, Member
<1>4. QED
  BY <1>3 DEF FaultsInv, FileInv, EntryInv, FaultsKnown, Ignore, Reading

\* The key that has been read is right, and the next one follows.
LEMMA NextKeyStep ==
  ASSUME FaultsInv, fault = "none", place \in {"entry", "items"}, NextKey, item' = 0,
         Member.types[Keys[key]] \in Wanted[Keys[key]] \cup {"absent"},
         Member.types["do_command"] = "array" /\ key = 5 =>
           \A i \in DOMAIN Member.items : Member.items[i] = "string"
  PROVE  FaultsInv'
<1>1. key \in 1..5 /\ KeysRead(Member, key)
  BY DEF FaultsInv, EntryInv
<1>2. KeysRead(Member, key + 1)
  BY <1>1 DEF KeysRead
<1>3. Member' = Member /\ Done' = Done
  BY SameDone DEF FaultsInv, NextKey, NextKeyUpTo, Reading
<1>4. PointerInv'
  BY <1>3 DEF FaultsInv, PointerInv, NextKey, NextKeyUpTo
<1>5. CASE key < 5
  <2>1. place' = "entry" /\ key' = key + 1
    BY <1>5, FiveKeys DEF NextKey, NextKeyUpTo
  <2>2. EntryInv'
    BY <1>1, <1>2, <1>3, <1>5, <2>1
    DEF FaultsInv, EntryInv, NextKey, NextKeyUpTo, Reading
  <2>3. QED
    BY <1>4, <2>1, <2>2 DEF FaultsInv, FileInv, FaultsKnown, NextKey, NextKeyUpTo
<1>6. CASE key = 5
  <2>1. place' = "growing"
    BY <1>6, FiveKeys DEF NextKey, NextKeyUpTo
  <2>2. WellFormed(Member)
    BY <1>2, <1>6, AllKeysRead
  <2>3. EntryInv'
    BY <1>3, <2>1, <2>2 DEF FaultsInv, EntryInv, NextKey, NextKeyUpTo, Reading, WellFormed
  <2>4. QED
    BY <1>4, <2>1, <2>3 DEF FaultsInv, FileInv, FaultsKnown, NextKey, NextKeyUpTo
<1>7. QED
  BY <1>1, <1>5, <1>6

LEMMA FaultsStep ==
  ASSUME FaultsInv, [Next]_vars
  PROVE  FaultsInv'
<1>1. CASE fault = "none" /\ File
  <2> USE <1>1 DEF File, OpenFails, Map, ParseFails, Parse, ParseFaults, MembersFault
  <2>1. Member' = Member /\ Done' = Done
    BY SameDone DEF FaultsInv, Reading
  <2>2. EntryInv'
    BY DEF FaultsInv, EntryInv, Reading
  <2>3. PointerInv'
    BY <2>1 DEF FaultsInv, PointerInv
  <2>4. FaultsKnown'
    BY DEF FaultsInv, FileInv, FaultsKnown
  <2>5. QED
    BY <2>2, <2>3, <2>4 DEF FaultsInv, FileInv
<1>2. ASSUME fault = "none", NEW e \in Entries, BeginEntry(e)
      PROVE  FaultsInv'
  <2>1. /\ document' \in Seq(Entries)
        /\ document' # <<>>
        /\ \A n \in 1..Len(document) : document'[n] = document[n]
        /\ Done = Len(document) /\ Done' = Len(document)
    BY <1>2 DEF FaultsInv, BeginEntry, Done
  <2>2. EntryInv'
    BY <1>2, <2>1 DEF FaultsInv, EntryInv, BeginEntry, KeysRead
  <2>3. QED
    BY <1>2, <2>1, <2>2 DEF FaultsInv, FileInv, PointerInv, FaultsKnown, BeginEntry
<1>3. CASE fault = "none" /\ Absent
  BY <1>3, NextKeyStep, FiveKeys DEF Absent, AtKey, Type, FaultsInv, NextKey, NextKeyUpTo
<1>4. CASE fault = "none" /\ WrongType
  <2>1. ~WellFormed(Member)
    BY <1>4, FiveKeys DEF WrongType, AtKey, Type, WellFormed, FaultsInv, EntryInv
  <2>2. QED
    BY <1>4, <2>1, IgnoreStep DEF WrongType, AtKey
<1>5. CASE fault = "none" /\ Single
  <2>1. key = 5 => Member.types["do_command"] # "array"
    BY <1>5, FiveKeys DEF Single, AtKey, Type
  <2>2. QED
    BY <1>5, <2>1, NextKeyStep DEF Single, AtKey, Type, FaultsInv
<1>6. CASE fault = "none" /\ BeginItems
  <2>1. key = 5
    BY <1>6, FiveKeys DEF BeginItems, BeginItemsAt, AtKey, FaultsInv, EntryInv, Wanted
  <2>2. Member' = Member /\ Done' = Done
    BY <1>6, SameDone DEF BeginItems, BeginItemsAt, FaultsInv, AtKey, Reading
  <2>3. QED
    BY <1>6, <2>1, <2>2, FiveKeys
    DEF BeginItems, BeginItemsAt, AtKey, Type, FaultsInv, FileInv, EntryInv, PointerInv, FaultsKnown,
        Reading
<1>7. CASE fault = "none" /\ StringItem
  <2>1. Member' = Member /\ Done' = Done
    BY <1>7, SameDone DEF StringItem, FaultsInv, FileInv
  <2>2. Member \in Entries
    BY <1>7 DEF StringItem, FaultsInv, EntryInv, Reading, Member
  <2>3. Len(Member.items) \in Nat
    BY <2>2, ConfigAssumption DEF EntryType
  <2>4. EntryInv' /\ PointerInv'
    BY <1>7, <2>1, <2>3 DEF StringItem, FaultsInv, EntryInv, PointerInv, Reading
  <2>5. FaultsKnown'
    <3>1. CASE item = 0
      BY <1>7, <3>1 DEF StringItem, FaultsKnown
    <3>2. CASE item = 1
      <4>1. /\ Member.types["do_command"] = "array"
            /\ Len(Member.items) >= 2
            /\ Member.items[1] = "string" /\ Member.items[2] = "string"
        BY <1>7, <2>3, <3>2 DEF StringItem, FaultsInv, EntryInv
      <4>2. QED
        BY <1>7, <2>1, <3>2, <4>1 DEF StringItem, FaultsKnown
    <3>3. QED
      BY <1>7, <3>1, <3>2 DEF StringItem, FaultsInv, EntryInv
  <2>6. QED
    BY <1>7, <2>4, <2>5 DEF StringItem, FaultsInv, FileInv
<1>8. CASE fault = "none" /\ OtherItem
  <2>1. ~WellFormed(Member)
    BY <1>8 DEF OtherItem, AtOtherItem, WellFormed, FaultsInv, EntryInv
  <2>2. QED
    BY <1>8, <2>1, IgnoreStep DEF OtherItem, AtOtherItem
<1>15. CASE fault = "none" /\ WarningFaults
  <2>1. Member' = Member /\ Done' = Done
    BY <1>15, SameDone DEF WarningFaults, FaultsInv
  <2>2. Member \in Entries
    BY <1>15 DEF WarningFaults, AtOtherItem, FaultsInv, EntryInv, Reading, Member
  <2>3. Len(Member.items) \in Nat /\ DOMAIN Member.items = 1..Len(Member.items)
    BY <2>2, ConfigAssumption DEF EntryType
  <2>4. /\ Member.types["do_command"] = "array"
        /\ item + 1 \in DOMAIN Member.items
        /\ item + 1 <= 2
        /\ Member.items[item + 1] # "string"
    BY <1>15, <2>3 DEF WarningFaults, AtOtherItem, FaultsInv, EntryInv
  <2>5. FaultsKnown'
    BY <1>15, <2>1, <2>4 DEF WarningFaults, FaultsKnown
  <2>6. EntryInv' /\ PointerInv'
    BY <1>15, <2>1 DEF WarningFaults, FaultsInv, EntryInv, PointerInv
  <2>7. QED
    BY <1>15, <2>5, <2>6 DEF WarningFaults, FaultsInv, FileInv
<1>9. CASE fault = "none" /\ EndItems
  <2>1. \A i \in DOMAIN Member.items : Member.items[i] = "string"
    BY <1>9 DEF EndItems, FaultsInv, EntryInv
  <2>2. Member.types[Keys[key]] \in Wanted[Keys[key]] \cup {"absent"}
    BY <1>9, FiveKeys DEF EndItems, FaultsInv, EntryInv, Wanted
  <2>3. QED
    BY <1>9, <2>1, <2>2, NextKeyStep DEF EndItems
<1>10. CASE fault = "none" /\ Grow
  <2>1. Member' = Member /\ Done' = Done
    BY <1>10, SameDone DEF Grow, FaultsInv, Reading
  <2>2. QED
    BY <1>10, <2>1 DEF Grow, FaultsInv, FileInv, EntryInv, PointerInv, FaultsKnown, Reading
<1>11. CASE fault = "none" /\ Store
  BY <1>11 DEF Store, FaultsInv, FileInv, EntryInv, PointerInv, FaultsKnown, Reading
<1>12. CASE fault = "none" /\ Return
  <2>1. Member' = Member /\ Done' = Done
    BY <1>12, SameDone DEF Return, FaultsInv, Reading
  <2>2. QED
    BY <1>12, <2>1 DEF Return, FaultsInv, FileInv, EntryInv, PointerInv, FaultsKnown, Reading
<1>13. CASE UNCHANGED vars
  <2>1. Member' = Member /\ Done' = Done
    BY <1>13, SameDone DEF vars, FaultsInv
  <2>2. QED
    BY <1>13, <2>1 DEF vars, FaultsInv, FileInv, EntryInv, PointerInv, FaultsKnown
<1>14. QED
  BY <1>1, <1>2, <1>3, <1>4, <1>5, <1>6, <1>7, <1>8, <1>9, <1>10, <1>11, <1>12, <1>13,
     <1>15
  DEF Next, EntryParse

\* slavery_config_new misuses memory for the reasons that FaultsKnown gives and for
\* no other, whatever the document.
THEOREM FaultsCorrect == Spec => []FaultsKnown
<1>1. FaultsInv => FaultsKnown
  BY DEF FaultsInv
<1>2. QED
  BY <1>1, FaultsInit, FaultsStep, PTL DEF Spec

-------------------------------------------------------------------------------
(* What is listed.                                                         *)

EntriesInv ==
  /\ FaultsInv
  /\ listed \in Seq(Nat)
  /\ EntriesExact

\* No member is done with by the step, and none of them changes.
LEMMA KeepsEntries ==
  ASSUME EntriesInv, UNCHANGED listed, Done' = Done,
         \A n \in 1..Done : document'[n] = document[n]
  PROVE  EntriesExact'
<1>1. {n \in 1..Done : WellFormed(document[n])}
        = {n \in 1..Done' : WellFormed(document'[n])}
  OBVIOUS
<1>2. QED
  BY <1>1 DEF EntriesInv, EntriesExact

\* The last member is given up.
LEMMA IgnoredIsNotListed ==
  ASSUME EntriesInv, place \in {"entry", "items"}, Ignore, ~WellFormed(Member)
  PROVE  EntriesExact'
<1>1. Len(document) \in Nat
  BY DEF EntriesInv, FaultsInv
<1>2. document # <<>>
  BY DEF EntriesInv, FaultsInv, EntryInv, Reading
<1>3. Len(document) # 0
  BY <1>2 DEF EntriesInv, FaultsInv
<1>4. Done = Len(document) - 1 /\ Done' = Len(document) /\ document' = document
  BY DEF Ignore, Done
<1>5. {n \in 1..Done : WellFormed(document[n])}
        = {n \in 1..Done' : WellFormed(document'[n])}
  BY <1>1, <1>3, <1>4 DEF Member
<1>6. listed' = listed
  BY DEF Ignore
<1>7. QED
  BY <1>5, <1>6 DEF EntriesInv, EntriesExact

\* The last member is listed, after those before it.
LEMMA StoredIsListed ==
  ASSUME EntriesInv, Store
  PROVE  EntriesExact'
<1>1. Len(document) \in Nat /\ document # <<>> /\ WellFormed(document[Len(document)])
  BY DEF EntriesInv, FaultsInv, EntryInv, Reading, Store, Member
<1>2. Len(document) # 0
  BY <1>1 DEF EntriesInv, FaultsInv
<1>3. Done = Len(document) - 1 /\ Done' = Len(document) /\ document' = document
  BY DEF Store, Done
<1>4. /\ DOMAIN listed' = 1..(Len(listed) + 1)
      /\ DOMAIN listed = 1..Len(listed)
      /\ Len(listed) \in Nat
      /\ listed'[Len(listed) + 1] = Len(document)
      /\ \A i \in DOMAIN listed : listed'[i] = listed[i]
  BY DEF Store, EntriesInv
<1>5. \A i \in DOMAIN listed : listed[i] \in 1..Done
  BY DEF EntriesInv, EntriesExact
<1>6. \A i, j \in DOMAIN listed' : i < j => listed'[i] < listed'[j]
  <2> SUFFICES ASSUME NEW i \in DOMAIN listed', NEW j \in DOMAIN listed', i < j
               PROVE  listed'[i] < listed'[j]
    OBVIOUS
  <2>1. i \in DOMAIN listed
    BY <1>4
  <2>2. CASE j \in DOMAIN listed
    BY <1>4, <2>1, <2>2 DEF EntriesInv, EntriesExact
  <2>3. CASE j = Len(listed) + 1
    BY <1>1, <1>3, <1>4, <1>5, <2>1, <2>3
  <2>4. QED
    BY <1>4, <2>2, <2>3
<1>7. {listed'[i] : i \in DOMAIN listed'}
        = {listed[i] : i \in DOMAIN listed} \cup {Len(document)}
  BY <1>4
<1>8. {n \in 1..Done' : WellFormed(document'[n])}
        = {n \in 1..Done : WellFormed(document[n])} \cup {Len(document)}
  BY <1>1, <1>2, <1>3
<1>9. QED
  BY <1>6, <1>7, <1>8 DEF EntriesInv, EntriesExact

LEMMA EntriesStep ==
  ASSUME EntriesInv, [Next]_vars
  PROVE  EntriesInv'
<1>1. FaultsInv'
  BY FaultsStep DEF EntriesInv
<1>2. listed' \in Seq(Nat) /\ EntriesExact'
  <2>1. CASE File
    BY <2>1, KeepsEntries
    DEF File, OpenFails, Map, ParseFails, Parse, ParseFaults, MembersFault, EntriesInv, Done
  <2>2. ASSUME NEW e \in Entries, BeginEntry(e)
        PROVE  listed' \in Seq(Nat) /\ EntriesExact'
    <3>1. /\ Done' = Done
          /\ \A n \in 1..Done : document'[n] = document[n]
      BY <2>2 DEF BeginEntry, Done, EntriesInv, FaultsInv
    <3>2. QED
      BY <2>2, <3>1, KeepsEntries DEF BeginEntry, EntriesInv
  <2>3. CASE Absent \/ Single \/ EndItems
    BY <2>3, KeepsEntries
    DEF Absent, Single, EndItems, AtKey, NextKey, NextKeyUpTo, EntriesInv, Done
  <2>4. CASE WrongType
    <3>1. ~WellFormed(Member)
      BY <2>4, FiveKeys
      DEF WrongType, AtKey, Type, WellFormed, EntriesInv, FaultsInv, EntryInv
    <3>2. QED
      BY <2>4, <3>1, IgnoredIsNotListed DEF WrongType, AtKey, Ignore, EntriesInv
  <2>5. CASE OtherItem
    <3>1. ~WellFormed(Member)
      BY <2>5 DEF OtherItem, AtOtherItem, WellFormed, EntriesInv, FaultsInv, EntryInv
    <3>2. QED
      BY <2>5, <3>1, IgnoredIsNotListed DEF OtherItem, AtOtherItem, Ignore, EntriesInv
  <2>6. CASE BeginItems \/ StringItem \/ WarningFaults
    BY <2>6, KeepsEntries
    DEF BeginItems, BeginItemsAt, StringItem, WarningFaults, AtKey, EntriesInv, Done
  <2>7. CASE Grow
    BY <2>7, KeepsEntries DEF Grow, EntriesInv, Done
  <2>8. CASE Store
    <3>1. listed' \in Seq(Nat)
      BY <2>8 DEF Store, EntriesInv, FaultsInv
    <3>2. QED
      BY <2>8, <3>1, StoredIsListed
  <2>9. CASE Return
    BY <2>9, KeepsEntries DEF Return, EntriesInv, Done
  <2>10. CASE UNCHANGED vars
    BY <2>10, KeepsEntries DEF vars, EntriesInv, Done
  <2>11. QED
    BY <2>1, <2>2, <2>3, <2>4, <2>5, <2>6, <2>7, <2>8, <2>9, <2>10 DEF Next, EntryParse
<1>3. QED
  BY <1>1, <1>2 DEF EntriesInv

\* slavery_config_new lists the well-formed members of any document, in its order.
THEOREM EntriesCorrect == Spec => []EntriesExact
<1>1. Init => EntriesInv
  BY FaultsInit DEF Init, EntriesInv, EntriesExact, Done
<1>2. EntriesInv => EntriesExact
  BY DEF EntriesInv
<1>3. QED
  BY <1>1, <1>2, EntriesStep, PTL DEF Spec
-------------------------------------------------------------------------------
(* Types.                                                                  *)

PlaceNames ==
  {"opening", "parsing", "members", "entry", "items", "growing", "storing", "config", "NULL"}

NamesInv ==
  /\ place \in PlaceNames
  /\ file \in {"unmapped", "not mapped", "ends within a page", "fills its pages"}
  /\ pointer \in {"garbage", "null", "block"}
  /\ Len(document) <= MaxEntries
  /\ key \in 0..5
  /\ fault \in {"none", "parse", "members", "item", "warning", "realloc"}

HeapTyped == heap \subseteq (1..Len(document)) \X Parts

TypeInv == FitInv /\ EntriesInv /\ NamesInv /\ HeapTyped

\* What the invariants before these say of a member that is being read.
LEMMA ReadingFacts ==
  ASSUME TypeInv
  PROVE  /\ Len(document) \in Nat
         /\ place \in Reading => Len(document) \in 1..Len(document)
         /\ place = "entry" => key \in 1..5
         /\ place = "items" => key = 5
         /\ item \in Nat
         /\ listed \in Seq(Nat)
<1>1. FaultsInv /\ listed \in Seq(Nat)
  BY DEF TypeInv, EntriesInv
<1>2. document \in Seq(Entries) /\ EntryInv /\ (place # "items" => item = 0)
  BY <1>1 DEF FaultsInv
<1>3. Len(document) \in Nat /\ (document # <<>> => Len(document) # 0)
  BY <1>2
<1>4. place \in Reading => document # <<>>
  BY <1>2 DEF EntryInv
<1>5. /\ place = "entry" => key \in 1..5
      /\ place = "items" => key = 5 /\ item \in {0, 1}
  BY <1>2 DEF EntryInv
<1>6. QED
  BY <1>1, <1>2, <1>3, <1>4, <1>5

\* What the steps of a member's reading do to these.
LEMMA NextKeyTyped ==
  ASSUME TypeInv, place \in {"entry", "items"}, NextKey
  PROVE  key' \in 0..5 /\ place' \in PlaceNames
<1>1. key \in 1..5
  BY ReadingFacts
<1>2. QED
  BY <1>1, FiveKeys DEF NextKey, NextKeyUpTo, PlaceNames

LEMMA AllocateTyped ==
  ASSUME TypeInv, place \in {"entry", "items"},
         NEW parts \in SUBSET Parts, Allocate(parts)
  PROVE  heap' \subseteq (1..Len(document)) \X Parts
<1>1. Len(document) \in 1..Len(document)
  BY ReadingFacts DEF Reading
<1>2. QED
  BY <1>1 DEF TypeInv, HeapTyped, Allocate

LEMMA NamesStep ==
  ASSUME TypeInv, [Next]_vars
  PROVE  NamesInv'
<1>1. NamesInv
  BY DEF TypeInv
<1>2. CASE File
  BY <1>1, <1>2
  DEF File, OpenFails, Map, ParseFails, Parse, ParseFaults, MembersFault, NamesInv, PlaceNames
<1>3. ASSUME NEW e \in Entries, BeginEntry(e)
      PROVE  NamesInv'
  <2>1. Len(document) \in Nat /\ document \in Seq(Entries)
    BY ReadingFacts DEF TypeInv, FitInv
  <2>2. Len(document') = Len(document) + 1
    BY <1>3, <2>1, AppendProperties DEF BeginEntry
  <2>3. Len(document') <= MaxEntries
    <3>1. Len(document) < MaxEntries
      BY <1>3 DEF BeginEntry
    <3>2. MaxEntries \in Nat
      BY ConfigAssumption
    <3>3. QED
      BY <2>1, <2>2, <3>1, <3>2
  <2>4. QED
    <3>1. place' \in PlaceNames /\ key' \in 0..5
      BY <1>3 DEF BeginEntry, PlaceNames
    <3>2. file' = file /\ pointer' = pointer /\ fault' = fault
      BY <1>3 DEF BeginEntry
    <3>3. QED
      BY <1>1, <2>3, <3>1, <3>2 DEF NamesInv
<1>4. CASE Absent \/ Single \/ EndItems
  <2>1. place \in {"entry", "items"} /\ NextKey
    BY <1>4 DEF Absent, Single, EndItems, AtKey
  <2>2. key' \in 0..5 /\ place' \in PlaceNames
    BY <2>1, NextKeyTyped
  <2>3. file' = file /\ pointer' = pointer /\ document' = document /\ fault' = fault
    BY <2>1 DEF NextKey, NextKeyUpTo
  <2>4. QED
    BY <1>1, <2>2, <2>3 DEF NamesInv
<1>5. CASE WrongType \/ OtherItem
  <2>1. Ignore
    BY <1>5 DEF WrongType, OtherItem
  <2>2. QED
    <3>1. place' \in PlaceNames /\ key' \in 0..5
      BY <2>1 DEF Ignore, PlaceNames
    <3>2. file' = file /\ pointer' = pointer /\ document' = document /\ fault' = fault
      BY <2>1 DEF Ignore
    <3>3. QED
      BY <1>1, <3>1, <3>2 DEF NamesInv
<1>6. CASE BeginItems \/ StringItem
  BY <1>1, <1>6 DEF BeginItems, BeginItemsAt, StringItem, NamesInv, PlaceNames
<1>10. CASE WarningFaults
  BY <1>1, <1>10 DEF WarningFaults, NamesInv, PlaceNames
<1>7. CASE Grow \/ Store \/ Return
  BY <1>1, <1>7 DEF Grow, Store, Return, NamesInv, PlaceNames
<1>8. CASE UNCHANGED vars
  BY <1>1, <1>8 DEF vars, NamesInv
<1>9. QED
  BY <1>2, <1>3, <1>4, <1>5, <1>6, <1>7, <1>8, <1>10 DEF Next, EntryParse

LEMMA HeapTypedStep ==
  ASSUME TypeInv, [Next]_vars
  PROVE  HeapTyped'
<1>1. HeapTyped
  BY DEF TypeInv
<1>2. CASE UNCHANGED <<document, heap>>
  BY <1>1, <1>2 DEF HeapTyped
<1>3. ASSUME NEW e \in Entries, BeginEntry(e)
      PROVE  HeapTyped'
  <2>1. Len(document) \in Nat /\ document \in Seq(Entries)
    BY ReadingFacts DEF TypeInv, FitInv
  <2>2. Len(document') = Len(document) + 1
    BY <1>3, <2>1, AppendProperties DEF BeginEntry
  <2>3. /\ 1..Len(document) \subseteq 1..Len(document')
        /\ Len(document) + 1 \in 1..Len(document')
    BY <2>1, <2>2
  <2>4. {"entry", "name"} \subseteq Parts
    BY DEF Parts
  <2>5. heap' = heap \cup ({Len(document) + 1} \X {"entry", "name"})
    BY <1>3 DEF BeginEntry
  <2>6. QED
    BY <1>1, <2>3, <2>4, <2>5 DEF HeapTyped
<1>4. CASE Single /\ ~UNCHANGED heap
  <2>1. Allocate({"description"}) \/ Allocate({"commands", "strings"})
    BY <1>4 DEF Single
  <2>2. {"description"} \in SUBSET Parts /\ {"commands", "strings"} \in SUBSET Parts
    BY DEF Parts
  <2>3. place = "entry" /\ document' = document
    BY <1>4 DEF Single, AtKey, NextKey, NextKeyUpTo
  <2>4. QED
    BY <2>1, <2>2, <2>3, AllocateTyped DEF HeapTyped
<1>5. CASE BeginItems \/ StringItem
  <2>1. /\ place \in {"entry", "items"}
        /\ Allocate({"commands"}) \/ Allocate({"strings"})
        /\ document' = document
    BY <1>5 DEF BeginItems, BeginItemsAt, StringItem, AtKey
  <2>2. {"commands"} \in SUBSET Parts /\ {"strings"} \in SUBSET Parts
    BY DEF Parts
  <2>3. QED
    BY <2>1, <2>2, AllocateTyped DEF HeapTyped
<1>6. CASE File \/ Absent \/ WrongType \/ OtherItem \/ WarningFaults \/ EndItems
  BY <1>2, <1>6
  DEF File, OpenFails, Map, ParseFails, Parse, ParseFaults, MembersFault,
      Absent, WrongType, OtherItem, WarningFaults, EndItems, Ignore, NextKey, NextKeyUpTo
<1>7. CASE Grow \/ Store \/ Return \/ UNCHANGED vars
  BY <1>2, <1>7 DEF Grow, Store, Return, vars
<1>8. CASE Single /\ UNCHANGED heap
  BY <1>2, <1>8 DEF Single, NextKey, NextKeyUpTo
<1>9. QED
  BY <1>3, <1>4, <1>5, <1>6, <1>7, <1>8 DEF Next, EntryParse

LEMMA TypeStep ==
  ASSUME TypeInv, [Next]_vars
  PROVE  TypeInv'
  BY FitStep, EntriesStep, NamesStep, HeapTypedStep DEF TypeInv

LEMMA TypeInit == Init => TypeInv
<1> SUFFICES ASSUME Init
             PROVE  TypeInv
  OBVIOUS
<1>1. FitInv
  BY FitInit
<1>2. EntriesInv
  BY FaultsInit DEF Init, EntriesInv, EntriesExact, Done
<1>3. Len(document) <= MaxEntries
  BY ConfigAssumption DEF Init
<1>4. NamesInv
  BY <1>3 DEF Init, NamesInv, PlaceNames
<1>5. QED
  BY <1>1, <1>2, <1>4 DEF Init, TypeInv, HeapTyped

\* Each cell of config->entries points to the entry of a member that has been met,
\* and no key after the fifth is looked at.
THEOREM TypeCorrect == Spec => []TypeOK
<1>1. TypeInv => TypeOK
  <2> SUFFICES ASSUME TypeInv
               PROVE  TypeOK
    OBVIOUS
  <2>1. listed \in Seq(1..Len(document))
    <3>1. listed \in Seq(Nat) /\ Len(document) \in Nat
      BY ReadingFacts
    <3>2. EntriesExact
      BY DEF TypeInv, EntriesInv
    <3>3. \A i \in 1..Len(listed) : listed[i] \in 1..Done
      BY <3>1, <3>2 DEF EntriesExact
    <3>4. 1..Done \subseteq 1..Len(document)
      BY <3>1 DEF Done
    <3>5. \A i \in 1..Len(listed) : listed[i] \in 1..Len(document)
      BY <3>3, <3>4
    <3>6. QED
      BY <3>1, <3>5
  <2>2. item \in Nat /\ (place = "entry" => key # 0)
    BY ReadingFacts
  <2>3. NamesInv /\ HeapTyped /\ usable \in Nat /\ document \in Seq(Entries)
    BY DEF TypeInv, FitInv
  <2>4. QED
    BY <2>1, <2>2, <2>3, FiveKeys DEF NamesInv, HeapTyped, PlaceNames, TypeOK
<1>2. QED
  BY <1>1, TypeInit, TypeStep, PTL DEF Spec
-------------------------------------------------------------------------------
(* What is allocated.                                                      *)

Description(e) ==
  IF e.types["description"] = "string" THEN {"description"} ELSE {}

\* What has been allocated for the member that is being read: the description once
\* its key has been passed, and of the commands what the items so far have made.
SoFar ==
  CASE place = "entry" ->
         {"entry", "name"} \cup (IF key > 1 THEN Description(Member) ELSE {})
    [] place = "items" ->
         {"entry", "name", "commands"} \cup Description(Member)
           \cup (IF item = 1 THEN {"strings"} ELSE {})
    [] OTHER -> Left(Member)

\* The blocks of member n are those of parts.
Holds(n, parts) == \A p \in Parts : <<n, p>> \in heap <=> p \in parts

BlocksInv ==
  /\ \A n \in 1..Done : Holds(n, Left(document[n]))
  /\ place \in Reading => Holds(Len(document), SoFar)

HeapInv == TypeInv /\ BlocksInv

LEMMA ReachedIsRead ==
  ASSUME NEW e
  PROVE  Reached(e, 5) <=> KeysRead(e, 5)
  BY DEF Reached, KeysRead

\* What a member leaves if its keys have been read up to the last.
LEMMA LeftWhenRead ==
  ASSUME NEW e, KeysRead(e, 5)
  PROVE  Left(e) = {"entry", "name"} \cup Description(e)
           \cup (IF e.types["do_command"] \in {"string", "array"}
                 THEN {"commands"} ELSE {})
           \cup (IF \/ e.types["do_command"] = "string"
                    \/ e.types["do_command"] = "array" /\ Len(e.items) > 0
                                                       /\ e.items[1] = "string"
                 THEN {"strings"} ELSE {})
<1>1. Reached(e, 5)
  BY ReachedIsRead
<1>2. QED
  BY <1>1, Zenon DEF Left, Description

\* And if a key before the last is of a wrong type.
LEMMA LeftWhenStopped ==
  ASSUME NEW e, ~KeysRead(e, 5)
  PROVE  Left(e) = {"entry", "name"} \cup Description(e)
<1>1. ~Reached(e, 5)
  BY ReachedIsRead
<1>2. Left(e) = {"entry", "name"} \cup Description(e) \cup {} \cup {}
  BY <1>1, Zenon DEF Left, Description
<1>3. QED
  BY <1>2

\* A step that goes on with the member, and allocates parts for it.
LEMMA ReadOn ==
  ASSUME HeapInv, place \in Reading, place' \in Reading, document' = document,
         NEW parts \in SUBSET Parts, heap' = heap \cup ({Len(document)} \X parts),
         \A p \in Parts : p \in SoFar' <=> p \in SoFar \/ p \in parts
  PROVE  BlocksInv'
<1>1. Len(document) \in Nat
  BY ReadingFacts DEF HeapInv
<1>2. Done = Len(document) - 1 /\ Done' = Done
  BY DEF Done, Reading
<1>3. \A n \in Nat, p \in Parts :
         <<n, p>> \in heap' <=> <<n, p>> \in heap \/ (n = Len(document) /\ p \in parts)
  OBVIOUS
<1>4. ASSUME NEW n \in 1..Done
      PROVE  Holds(n, Left(document[n]))'
  <2>1. n \in Nat /\ n # Len(document)
    BY <1>1, <1>2
  <2>2. Holds(n, Left(document[n]))
    BY DEF HeapInv, BlocksInv
  <2>3. \A p \in Parts : <<n, p>> \in heap' <=> p \in Left(document[n])
    BY <1>3, <2>1, <2>2 DEF Holds
  <2>4. Left(document'[n]) = Left(document[n])
    OBVIOUS
  <2>5. QED
    BY <2>3, <2>4 DEF Holds
<1>5. Holds(Len(document), SoFar)'
  <2>1. \A p \in Parts : <<Len(document), p>> \in heap <=> p \in SoFar
    BY DEF HeapInv, BlocksInv, Holds
  <2>2. \A p \in Parts : <<Len(document), p>> \in heap' <=> p \in SoFar'
    BY <1>1, <1>3, <2>1
  <2>3. QED
    BY <2>2 DEF Holds
<1>6. QED
  BY <1>2, <1>4, <1>5 DEF BlocksInv

\* A step that is done with the member.
LEMMA ReadNoMore ==
  ASSUME HeapInv, place \in Reading, place' \notin Reading, UNCHANGED <<document, heap>>,
         \A p \in Parts : p \in SoFar <=> p \in Left(Member)
  PROVE  BlocksInv'
<1>1. Len(document) \in Nat
  BY ReadingFacts DEF HeapInv
<1>2. Done = Len(document) - 1 /\ Done' = Len(document)
  BY DEF Done, Reading
<1>3. Holds(Len(document), Left(document[Len(document)]))
  BY DEF HeapInv, BlocksInv, Holds, Member
<1>4. \A n \in 1..Done' : Holds(n, Left(document[n]))
  BY <1>1, <1>2, <1>3 DEF HeapInv, BlocksInv
<1>5. QED
  BY <1>4 DEF BlocksInv, Holds

\* A step that neither reads nor allocates.
LEMMA ReadNothing ==
  ASSUME HeapInv, UNCHANGED <<document, heap>>, place \notin Reading, place' \notin Reading
  PROVE  BlocksInv'
<1>1. Done' = Done
  BY DEF Done, Reading
<1>2. \A n \in 1..Done : Holds(n, Left(document[n]))
  BY DEF HeapInv, BlocksInv
<1>3. QED
  BY <1>1, <1>2 DEF BlocksInv, Holds

\* What is known of the member at a key, or among the items.
LEMMA AtEntry ==
  ASSUME HeapInv, place = "entry"
  PROVE  /\ key \in 1..5
         /\ KeysRead(Member, key)
         /\ SoFar = {"entry", "name"} \cup (IF key > 1 THEN Description(Member) ELSE {})
<1>1. EntryInv
  BY DEF HeapInv, TypeInv, EntriesInv, FaultsInv
<1>2. QED
  BY <1>1 DEF EntryInv, SoFar

LEMMA AtItems ==
  ASSUME HeapInv, place = "items"
  PROVE  /\ key = 5
         /\ item \in {0, 1}
         /\ KeysRead(Member, 5)
         /\ Member.types["do_command"] = "array"
         /\ item <= Len(Member.items)
         /\ item = 1 => Member.items[1] = "string"
         /\ Member \in Entries
         /\ SoFar = {"entry", "name", "commands"} \cup Description(Member)
                      \cup (IF item = 1 THEN {"strings"} ELSE {})
<1>1. EntryInv /\ document \in Seq(Entries)
  BY DEF HeapInv, TypeInv, EntriesInv, FaultsInv
<1>2. document # <<>>
  BY <1>1 DEF EntryInv, Reading
<1>3. Member \in Entries
  BY <1>1, <1>2 DEF Member
<1>4. QED
  BY <1>1, <1>3 DEF EntryInv, SoFar

\* The next key, of the same member: only the description can have been added, and
\* after the fifth key its commands.
LEMMA NextKeyHolds ==
  ASSUME HeapInv, fault = "none", place \in {"entry", "items"}, NextKey,
         NEW parts \in SUBSET Parts, heap' = heap \cup ({Len(document)} \X parts),
         key < 5 => /\ place = "entry"
                    /\ parts = IF key = 1 THEN Description(Member) ELSE {},
         key = 5 => Left(Member) = SoFar \cup parts
  PROVE  BlocksInv'
<1>1. key \in 1..5
  BY ReadingFacts DEF HeapInv
<1>2. document' = document /\ Member' = Member
  BY DEF NextKey, NextKeyUpTo, Member
<1>3. CASE key < 5
  <2>1. place' = "entry" /\ key' = key + 1
    BY <1>3, FiveKeys DEF NextKey, NextKeyUpTo
  <2>2. SoFar' = {"entry", "name"} \cup Description(Member)
    <3>1. key' > 1
      BY <1>1, <2>1
    <3>2. QED
      BY <1>2, <2>1, <3>1 DEF SoFar, Description
  <2>3. SoFar' = SoFar \cup parts
    <3>1. SoFar = {"entry", "name"} \cup (IF key > 1 THEN Description(Member) ELSE {})
      BY <1>3, AtEntry
    <3>2. CASE key = 1
      BY <1>3, <2>2, <3>1, <3>2
    <3>3. CASE key > 1
      BY <1>3, <2>2, <3>1, <3>3
    <3>4. QED
      BY <1>1, <3>2, <3>3
  <2>4. QED
    BY <1>2, <2>1, <2>3, ReadOn DEF Reading
<1>4. CASE key = 5
  <2>1. place' = "growing"
    BY <1>4, FiveKeys DEF NextKey, NextKeyUpTo
  <2>2. SoFar' = Left(Member)
    BY <1>2, <2>1 DEF SoFar, Left, Reached
  <2>3. QED
    BY <1>2, <1>4, <2>1, <2>2, ReadOn DEF Reading
<1>5. QED
  BY <1>1, <1>3, <1>4

\* The member is given up: what has been allocated is what it leaves.
LEMMA WrongTypeHolds ==
  ASSUME HeapInv, WrongType
  PROVE  BlocksInv'
<1>1. place = "entry" /\ Ignore
  BY DEF WrongType, AtKey
<1>2. /\ key \in 1..5
      /\ KeysRead(Member, key)
      /\ SoFar = {"entry", "name"} \cup (IF key > 1 THEN Description(Member) ELSE {})
  BY <1>1, AtEntry
<1>3. Member.types[Keys[key]] \notin Wanted[Keys[key]] \cup {"absent"}
  BY DEF WrongType, Type
<1>4. SoFar = {"entry", "name"} \cup Description(Member)
  <2>1. CASE key = 1
    <3>1. Member.types["description"] # "string"
      BY <1>3, <2>1, FiveKeys DEF Wanted
    <3>2. QED
      BY <1>2, <2>1, <3>1 DEF Description
  <2>2. CASE key > 1
    BY <1>2, <2>2
  <2>3. QED
    BY <1>2, <2>1, <2>2
<1>5. Left(Member) = SoFar
  <2>1. CASE key < 5
    <3>1. ~KeysRead(Member, 5)
      BY <1>2, <1>3, <2>1 DEF KeysRead
    <3>2. QED
      BY <1>4, <3>1, LeftWhenStopped
  <2>2. CASE key = 5
    <3>1. Member.types["do_command"] \notin {"string", "array"}
      BY <1>3, <2>2, FiveKeys DEF Wanted
    <3>2. Left(Member) = {"entry", "name"} \cup Description(Member) \cup {} \cup {}
      BY <1>2, <2>2, <3>1, LeftWhenRead
    <3>3. QED
      BY <1>4, <3>2
  <2>3. QED
    BY <1>2, <2>1, <2>2
<1>6. place' \notin Reading /\ UNCHANGED <<document, heap>>
  BY <1>1 DEF Ignore, Reading
<1>7. QED
  BY <1>1, <1>5, <1>6, ReadNoMore DEF Reading

\* The items so far have made what the whole array would: one block at most.
LEMMA ItemsLeft ==
  ASSUME HeapInv, place = "items",
         item = 0 => Len(Member.items) = 0 \/ Member.items[1] # "string"
  PROVE  Left(Member) = SoFar
<1>1. /\ item \in {0, 1}
      /\ KeysRead(Member, 5)
      /\ Member.types["do_command"] = "array"
      /\ item <= Len(Member.items)
      /\ item = 1 => Member.items[1] = "string"
      /\ Member \in Entries
      /\ SoFar = {"entry", "name", "commands"} \cup Description(Member)
                   \cup (IF item = 1 THEN {"strings"} ELSE {})
  BY AtItems
<1>2. Len(Member.items) \in Nat
  BY <1>1, ConfigAssumption DEF EntryType
<1>3. (item = 1) <=> (Len(Member.items) > 0 /\ Member.items[1] = "string")
  BY <1>1, <1>2
<1>4. Left(Member) = {"entry", "name"} \cup Description(Member) \cup {"commands"}
                       \cup (IF item = 1 THEN {"strings"} ELSE {})
  <2>1. Member.types["do_command"] \in {"string", "array"}
    BY <1>1
  <2>2. (item = 1) <=> \/ Member.types["do_command"] = "string"
                       \/ /\ Member.types["do_command"] = "array"
                          /\ Len(Member.items) > 0
                          /\ Member.items[1] = "string"
    BY <1>1, <1>3
  <2>3. QED
    BY <1>1, <2>1, <2>2, LeftWhenRead
<1>5. QED
  BY <1>1, <1>4

LEMMA SingleHolds ==
  ASSUME HeapInv, fault = "none", Single
  PROVE  BlocksInv'
<1>1. /\ place = "entry" /\ NextKey /\ key \in DOMAIN Keys
      /\ Member.types[Keys[key]] \in Wanted[Keys[key]] \ {"array"}
  BY DEF Single, AtKey, Type
<1>2. /\ key \in 1..5
      /\ KeysRead(Member, key)
      /\ SoFar = {"entry", "name"} \cup (IF key > 1 THEN Description(Member) ELSE {})
  BY <1>1, AtEntry
<1>3. CASE key = 1
  <2>1. Description(Member) = {"description"}
    BY <1>1, <1>3, FiveKeys DEF Description, Wanted
  <2>2. heap' = heap \cup ({Len(document)} \X {"description"})
    BY <1>3, FiveKeys DEF Single, Allocate
  <2>3. {"description"} \in SUBSET Parts
    BY DEF Parts
  <2>4. QED
    BY <1>1, <1>3, <2>1, <2>2, <2>3, NextKeyHolds
<1>4. CASE key \in 2..4
  <2>1. UNCHANGED heap
    BY <1>4, FiveKeys DEF Single
  <2>2. heap' = heap \cup ({Len(document)} \X {})
    BY <2>1
  <2>3. QED
    BY <1>1, <1>4, <2>2, NextKeyHolds
<1>5. CASE key = 5
  <2>1. Member.types["do_command"] = "string"
    BY <1>1, <1>5, FiveKeys DEF Wanted
  <2>2. Left(Member) = {"entry", "name"} \cup Description(Member)
                         \cup {"commands"} \cup {"strings"}
    BY <1>2, <1>5, <2>1, LeftWhenRead
  <2>3. Left(Member) = SoFar \cup {"commands", "strings"}
    BY <1>2, <1>5, <2>2
  <2>4. heap' = heap \cup ({Len(document)} \X {"commands", "strings"})
    BY <1>5, FiveKeys DEF Single, Allocate
  <2>5. {"commands", "strings"} \in SUBSET Parts
    BY DEF Parts
  <2>6. ~(key < 5)
    BY <1>5
  <2>7. QED
    BY <1>1, <2>3, <2>4, <2>5, <2>6, NextKeyHolds, Zenon
<1>6. QED
  BY <1>2, <1>3, <1>4, <1>5

LEMMA AbsentHolds ==
  ASSUME HeapInv, fault = "none", Absent
  PROVE  BlocksInv'
<1>1. /\ place = "entry" /\ NextKey
      /\ Member.types[Keys[key]] = "absent"
      /\ heap' = heap \cup ({Len(document)} \X {})
  BY DEF Absent, AtKey, Type
<1>2. /\ key \in 1..5
      /\ KeysRead(Member, key)
      /\ SoFar = {"entry", "name"} \cup (IF key > 1 THEN Description(Member) ELSE {})
  BY <1>1, AtEntry
<1>3. key = 1 => Description(Member) = {}
  BY <1>1, FiveKeys DEF Description
<1>4. key = 5 => Left(Member) = SoFar
  <2>1. ASSUME key = 5
        PROVE  Left(Member) = {"entry", "name"} \cup Description(Member) \cup {} \cup {}
    <3>1. Member.types["do_command"] = "absent"
      BY <1>1, <2>1, FiveKeys
    <3>2. QED
      BY <1>2, <2>1, <3>1, LeftWhenRead
  <2>2. QED
    BY <1>2, <2>1
<1>5. QED
  BY <1>1, <1>3, <1>4, NextKeyHolds

LEMMA BeginItemsHolds ==
  ASSUME HeapInv, fault = "none", BeginItems
  PROVE  BlocksInv'
<1>1. /\ place = "entry" /\ place' = "items" /\ item' = 0
      /\ document' = document /\ key' = key
      /\ heap' = heap \cup ({Len(document)} \X {"commands"})
      /\ key \in DOMAIN Keys /\ "array" \in Wanted[Keys[key]]
  BY DEF BeginItems, BeginItemsAt, AtKey, Allocate
<1>2. key = 5
  BY <1>1, FiveKeys DEF Wanted
<1>3. SoFar = {"entry", "name"} \cup Description(Member)
  BY <1>1, <1>2, AtEntry
<1>4. SoFar' = {"entry", "name", "commands"} \cup Description(Member) \cup {}
  BY <1>1 DEF SoFar, Description, Member
<1>5. {"commands"} \in SUBSET Parts
  BY DEF Parts
<1>6. SoFar' = SoFar \cup {"commands"}
  BY <1>3, <1>4
<1>7. QED
  BY <1>1, <1>5, <1>6, ReadOn DEF Reading

LEMMA StringItemHolds ==
  ASSUME HeapInv, fault = "none", StringItem
  PROVE  BlocksInv'
<1>1. /\ place = "items" /\ place' = "items"
      /\ document' = document /\ key' = key
      /\ heap' = heap \cup ({Len(document)} \X {"strings"})
      /\ item = 0 => item' = 1
      /\ item # 0 => item' = item
  BY DEF StringItem, Allocate
<1>2. /\ item \in {0, 1}
      /\ SoFar = {"entry", "name", "commands"} \cup Description(Member)
                   \cup (IF item = 1 THEN {"strings"} ELSE {})
  BY <1>1, AtItems
<1>3. item' = 1
  BY <1>1, <1>2
<1>4. SoFar' = {"entry", "name", "commands"} \cup Description(Member) \cup {"strings"}
  BY <1>1, <1>3 DEF SoFar, Description, Member
<1>5. {"strings"} \in SUBSET Parts
  BY DEF Parts
<1>6. SoFar' = SoFar \cup {"strings"}
  BY <1>2, <1>4
<1>7. QED
  BY <1>1, <1>5, <1>6, ReadOn DEF Reading

LEMMA OtherItemHolds ==
  ASSUME HeapInv, OtherItem
  PROVE  BlocksInv'
<1>1. /\ place = "items" /\ place' = "members" /\ UNCHANGED <<document, heap>>
      /\ Member.items[item + 1] # "string"
  BY DEF OtherItem, AtOtherItem, Ignore
<1>2. Left(Member) = SoFar
  BY <1>1, ItemsLeft
<1>3. QED
  BY <1>1, <1>2, ReadNoMore DEF Reading

\* A step that leaves the place and all that is allocated.
LEMMA StandsStill ==
  ASSUME HeapInv, UNCHANGED <<place, document, key, item, heap>>
  PROVE  BlocksInv'
<1>1. SoFar' = SoFar /\ Done' = Done
  BY DEF SoFar, Done, Member, Left, Reached, Description
<1>2. QED
  BY <1>1 DEF HeapInv, BlocksInv, Holds

LEMMA WarningFaultsHolds ==
  ASSUME HeapInv, WarningFaults
  PROVE  BlocksInv'
  BY StandsStill DEF WarningFaults

LEMMA EndItemsHolds ==
  ASSUME HeapInv, fault = "none", EndItems
  PROVE  BlocksInv'
<1>1. /\ place = "items" /\ NextKey /\ item >= Len(Member.items)
      /\ heap' = heap \cup ({Len(document)} \X {})
  BY DEF EndItems
<1>2. key = 5 /\ item <= Len(Member.items) /\ Member \in Entries
  BY <1>1, AtItems
<1>3. Len(Member.items) \in Nat
  BY <1>2, ConfigAssumption DEF EntryType
<1>4. item = 0 => Len(Member.items) = 0
  BY <1>1, <1>2, <1>3
<1>5. Left(Member) = SoFar
  BY <1>1, <1>4, ItemsLeft
<1>6. QED
  BY <1>1, <1>2, <1>5, NextKeyHolds

LEMMA BeginEntryHolds ==
  ASSUME HeapInv, NEW e \in Entries, BeginEntry(e)
  PROVE  BlocksInv'
<1>1. Len(document) \in Nat /\ document \in Seq(Entries)
  BY ReadingFacts DEF HeapInv, TypeInv, FitInv
<1>2. /\ place = "members" /\ place' = "entry" /\ key' = 1
      /\ document' = Append(document, e)
      /\ heap' = heap \cup ({Len(document) + 1} \X {"entry", "name"})
  BY DEF BeginEntry
<1>3. /\ Len(document') = Len(document) + 1
      /\ \A n \in 1..Len(document) : document'[n] = document[n]
  BY <1>1, <1>2, AppendProperties
<1>4. Done = Len(document) /\ Done' = Len(document)
  BY <1>1, <1>2, <1>3 DEF Done
<1>5. \A n \in Nat, p \in Parts :
         <<n, p>> \in heap'
           <=> <<n, p>> \in heap \/ (n = Len(document) + 1 /\ p \in {"entry", "name"})
  BY <1>2
<1>6. ASSUME NEW n \in 1..Done
      PROVE  Holds(n, Left(document[n]))'
  <2>1. n \in Nat /\ n # Len(document) + 1 /\ document'[n] = document[n]
    BY <1>1, <1>3, <1>4
  <2>2. \A p \in Parts : <<n, p>> \in heap <=> p \in Left(document[n])
    BY DEF HeapInv, BlocksInv, Holds
  <2>3. \A p \in Parts : <<n, p>> \in heap' <=> p \in Left(document'[n])
    BY <1>5, <2>1, <2>2
  <2>4. QED
    BY <2>3 DEF Holds
<1>7. Holds(Len(document), SoFar)'
  <2>1. SoFar' = {"entry", "name"}
    BY <1>2 DEF SoFar
  <2>2. \A p \in Parts : <<Len(document) + 1, p>> \notin heap
    BY <1>1 DEF HeapInv, TypeInv, HeapTyped
  <2>3. \A p \in Parts : <<Len(document'), p>> \in heap' <=> p \in SoFar'
    BY <1>1, <1>3, <1>5, <2>1, <2>2
  <2>4. QED
    BY <2>3 DEF Holds
<1>8. QED
  BY <1>4, <1>6, <1>7 DEF BlocksInv

LEMMA HeapStep ==
  ASSUME HeapInv, [Next]_vars
  PROVE  HeapInv'
<1>1. TypeInv'
  BY TypeStep DEF HeapInv
<1>2. CASE fault = "none" /\ File
  <2>1. place \notin Reading /\ place' \notin Reading /\ UNCHANGED <<document, heap>>
    BY <1>2
    DEF File, OpenFails, Map, ParseFails, Parse, ParseFaults, MembersFault, Reading
  <2>2. QED
    BY <1>1, <2>1, ReadNothing DEF HeapInv
<1>3. CASE fault = "none" /\ EntryParse
  BY <1>1, <1>3, BeginEntryHolds, AbsentHolds, WrongTypeHolds, SingleHolds,
     BeginItemsHolds, StringItemHolds, OtherItemHolds, WarningFaultsHolds, EndItemsHolds
  DEF EntryParse, HeapInv
<1>4. CASE fault = "none" /\ Grow
  <2>1. /\ place = "growing" /\ place' \in {"growing", "storing"}
        /\ UNCHANGED <<document, key, item, heap>>
    BY <1>4 DEF Grow
  <2>2. SoFar = Left(Member) /\ SoFar' = Left(Member)
    BY <2>1 DEF SoFar, Member, Left, Reached
  <2>3. heap' = heap \cup ({Len(document)} \X {})
    BY <2>1
  <2>4. BlocksInv'
    BY <2>1, <2>2, <2>3, ReadOn DEF Reading
  <2>5. QED
    BY <1>1, <2>4 DEF HeapInv
<1>5. CASE fault = "none" /\ Store
  <2>1. place = "storing" /\ place' = "members" /\ UNCHANGED <<document, heap>>
    BY <1>5 DEF Store
  <2>2. SoFar = Left(Member)
    BY <2>1 DEF SoFar
  <2>3. BlocksInv'
    BY <2>1, <2>2, ReadNoMore DEF Reading
  <2>4. QED
    BY <1>1, <2>3 DEF HeapInv
<1>6. CASE fault = "none" /\ Return
  <2>1. place \notin Reading /\ place' \notin Reading /\ UNCHANGED <<document, heap>>
    BY <1>6 DEF Return, Reading
  <2>2. QED
    BY <1>1, <2>1, ReadNothing DEF HeapInv
<1>7. CASE UNCHANGED vars
  <2>1. UNCHANGED <<place, document, key, item, heap>>
    BY <1>7 DEF vars
  <2>3. BlocksInv'
    BY <2>1, StandsStill
  <2>4. QED
    BY <1>1, <2>3 DEF HeapInv
<1>8. QED
  BY <1>2, <1>3, <1>4, <1>5, <1>6, <1>7 DEF Next

\* Whatever the document, slavery_config_new leaves allocated for each member exactly
\* what its keys make, as far as they are read, also for the members it ignores.
THEOREM HeapCorrect == Spec => []HeapExact
<1>1. Init => HeapInv
  <2>1. Init => BlocksInv
    BY DEF Init, BlocksInv, Done, Reading
  <2>2. QED
    BY <2>1, TypeInit DEF HeapInv
<1>2. HeapInv => HeapExact
  <2> SUFFICES ASSUME HeapInv
               PROVE  HeapExact
    OBVIOUS
  <2> DEFINE L(n) == Left(document[n])
  <2>1. \A n \in 1..Done : \A p \in Parts : <<n, p>> \in heap <=> p \in L(n)
    BY DEF HeapInv, BlocksInv, Holds
  <2>2. heap \subseteq (1..Len(document)) \X Parts /\ Len(document) \in Nat
    BY ReadingFacts DEF HeapInv, TypeInv, HeapTyped
  <2>3. \A n : L(n) \subseteq Parts
    BY DEF Left, Parts
  <2>4. Done \in Int
    BY <2>2 DEF Done
  <2> HIDE DEF L
  <2>5. ASSUME NEW b \in heap, b[1] <= Done
        PROVE  b \in UNION {{n} \X L(n) : n \in 1..Done}
    <3>1. b[1] \in 1..Done /\ b[2] \in Parts /\ b = <<b[1], b[2]>>
      BY <2>2, <2>4, <2>5
    <3>2. b[2] \in L(b[1])
      BY <2>1, <3>1
    <3>3. b \in {b[1]} \X L(b[1])
      BY <3>1, <3>2
    <3>4. QED
      BY <3>1, <3>3
  <2>6. ASSUME NEW n \in 1..Done, NEW b \in {n} \X L(n)
        PROVE  b \in heap /\ b[1] <= Done
    <3>1. b = <<n, b[2]>> /\ b[2] \in L(n) /\ b[1] = n
      BY <2>6
    <3>2. b \in heap
      BY <2>1, <2>3, <3>1
    <3>3. QED
      BY <2>4, <3>1, <3>2
  <2>7. {b \in heap : b[1] <= Done} = UNION {{n} \X L(n) : n \in 1..Done}
    BY <2>5, <2>6
  <2>8. QED
    BY <2>7 DEF HeapExact, L
<1>3. QED
  BY <1>1, <1>2, HeapStep, PTL DEF Spec
===============================================================================
