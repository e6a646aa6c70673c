\* Two processes share the cache; transactions may fail; no database restart.
CONSTANTS
  d1 = d1
  d2 = d2
  Daemons = {d1, d2}
  Kinds = {"ok", "skip"}
  MaxOb = 2
  MaxEpoch = 1
  DiskMayFail = TRUE
  TornReads = FALSE
SPECIFICATION Spec
SYMMETRY DaemonSymmetry
INVARIANTS TypeOK NoGap AnnouncedIsCached AnnouncedOnce
PROPERTY FeedSpec
