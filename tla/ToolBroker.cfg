\* Two uses of tools, one stop, the death of the application, one unit of output.
CONSTANTS
  c1 = c1
  c2 = c2
  Calls = {c1, c2}
  Kinds <- MCKinds
  Forks = {c1}
  Output <- MCOutput
  Limit = 1
  None = None
SPECIFICATION FairSpec
INVARIANTS
  Inv
  ResultIsWhole
PROPERTIES
  ToolsEnd
CHECK_DEADLOCK FALSE
