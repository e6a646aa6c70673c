\* A daemon with two calls and its poller; transactions may fail.
CONSTANTS
  Daemons = {"d1"}
  Server = "d1"
  Kinds = {"ok"}
  MaxOb = 2
  MaxEpoch = 1
  DiskMayFail = TRUE
  TornReads = FALSE
  Calls = {"c1", "c2"}
  Matches <- MCMatches
  None = None
SPECIFICATION CaptureWaitSpec
INVARIANTS ResultIsCached NoStaleAnnouncement
