CONSTANTS
  Local = {l1}
  Remote = {r1}
  None = None
  MaxStarts = 1
SPECIFICATION Spec
INVARIANTS
  Inv
  CurrentIsSignedIn
  RegisteredIsSaved
PROPERTIES
  NoLateWriter
CHECK_DEADLOCK FALSE
