\* Every new capture is announced, and a call is woken by a match without its
\* timeout; no write failures and no malformed records.
CONSTANTS
  Daemons = {"d1"}
  Server = "d1"
  Kinds = {"ok", "skip"}
  MaxOb = 2
  MaxEpoch = 1
  DiskMayFail = FALSE
  TornReads = FALSE
  Calls = {"c1"}
  Matches <- MCMatches
  None = None
SPECIFICATION CaptureWaitFairSpec
PROPERTIES EventuallyAnnounced MatchWakesCall
