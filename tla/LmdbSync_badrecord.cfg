\* One malformed record keeps every later one out of the cache.
CONSTANTS
  Daemons = {"d1"}
  Kinds = {"ok", "bad"}
  MaxOb = 2
  MaxEpoch = 1
  DiskMayFail = FALSE
  TornReads = FALSE
SPECIFICATION FairSpec
PROPERTY BadRecordIsSkipped
