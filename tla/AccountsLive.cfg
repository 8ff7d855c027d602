CONSTANTS
  Local = {}
  Remote = {r1}
  None = None
  MaxStarts = 1
SPECIFICATION FairSpec
PROPERTIES
  JobsEnd
CHECK_DEADLOCK FALSE
