\* A token handed from one exchange to the next, blocks and edits, and a daemon
\* that may end and start again at any time.
CONSTANTS
  Names = {"n"}
  Values = {"x", "y", "doctored"}
  BigValues = {}
  Ttls = {1}
  MaxRelayTtl = 1
  MaxEntries = 1
  MaxClock = 2
  NoToken = NoToken
  Exchanges = {"x", "y"}
  Answered = {"x"}
  Bearers = {"x"}
  Status <- MCStatus
  Rules <- MCRules
  FirstRules <- MCFirst
  Budget = 8
  Revocable <- MCRevocable
  PerRuleLimit = 2
  TotalRulesLimit = 1
  MayCrash = TRUE
  Doctored = "doctored"
SPECIFICATION HookFairSpec
INVARIANTS BlockWins DryRunOnlyWatches HitsAreEarned
  TokenIsOriginal DryLogIsTrue SmallRulesFirst
PROPERTIES EveryMessageLeaves
