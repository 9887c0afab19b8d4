CONSTANTS
  Entries <- Members
  MaxEntries = 4
SPECIFICATION Spec
INVARIANTS
  TypeOK
  EntriesExact
  EntriesFit
  FaultsKnown
  HeapExact
CHECK_DEADLOCK FALSE
