\* One daemon, a single rule and a relay pair; saves and loads may fail, crashes any time.
CONSTANTS
  Daemons = {"d1"}
  SingleCalls = {"s"}
  RelayCalls = {"r"}
  Ttls = {1, 2}
  MaxTime = 3
  SaveMayFail = TRUE
  LoadMayFail = TRUE
SPECIFICATION RuleFairSpec
INVARIANTS RuleTypeOK SavedSurvives RevokedIsGone InjectHasExtract
PROPERTY ExpiredIsReaped
