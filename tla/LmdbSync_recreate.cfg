\* One process, every kind of record, torn reads, a database that starts over.
CONSTANTS
  Daemons = {"d1"}
  Kinds = {"ok", "skip", "bad"}
  MaxOb = 2
  MaxEpoch = 2
  DiskMayFail = TRUE
  TornReads = TRUE
SPECIFICATION Spec
INVARIANTS AnnouncedIsCached AnnouncedOnce CursorIsOfARow
