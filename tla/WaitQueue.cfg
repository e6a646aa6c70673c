\* Three calls, two captures; one matcher raises on a capture.
CONSTANTS
  Calls = {"c1", "c2", "c3"}
  Captures = {"x", "y"}
  None = None
  Matches <- MCMatches
  Raises <- MCRaises
  MaxOffered = 2
SPECIFICATION WaitFairSpec
INVARIANTS FirstMatchWins NoWaiterLeaks
PROPERTY EveryCallReturns
CHECK_DEADLOCK FALSE
