SPECIFICATION ToolsSpec
CONSTANTS
  Messages <- MCMessages
  Patterns <- MCPatterns
  PathOf <- MCPathOf
  Ttls = {0, 300, 3601}
  MaxTtl = 3600
  Bounds = {0, 99, 400, 499, 700}
  Bodies <- MCBodies
  Values <- MCValues
  FieldPaths <- MCFieldPaths
  SubPattern <- MCSubPattern
  MaxRules = 2
INVARIANTS
  NoHalfApplication
  AcceptedCanApply
  PatchIsSurgical
  PatchReadsBack
