SPECIFICATION InstallSpec
CONSTANTS
  Others = {"s1"}
  ForceArgs = {FALSE, TRUE}
  MaxCommands = 3
  Hasty = FALSE
  MaxEdits = 2
INVARIANTS
  HookIsThere
  OthersSurvive
  ReplacedIsBackedUp
