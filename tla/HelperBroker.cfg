\* Two calls for one slot, one stop, restarts and the death of the application.
CONSTANTS
  Calls = {c1, c2}
  JobCount = 1
  MaxStarts = 2
  None = None
  Requests <- MCRequests
  Allowed <- MCAllowed
SPECIFICATION FairSpec
INVARIANTS
  Inv
  StopLeavesNothing
PROPERTIES
  ImplementsExec
  HelpersEnd
CHECK_DEADLOCK FALSE
