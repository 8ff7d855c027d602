\* Fifteen calls on six kinds of documents, sockets of two items, all faults or none.
CONSTANTS
  Requests <- MCRequests
  Heads <- MCHeads
  FaultSets <- MCFaults
  Buffer = 2
  MaxSequence = 3
  InputMax = 64
  OutputMax = 64
  DimMax = 4
  CountMax = 2
  ScanMax = 3
  NameMax = 2
  PagesMax = 2
  Piece = 16
  None = None
SPECIFICATION FairSpec
INVARIANTS
  Inv
  AnswersAreGenuine
  SessionInStep
PROPERTIES
  CallsEnd
CHECK_DEADLOCK FALSE
