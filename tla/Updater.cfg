\* Two checks, four releases, one of them old with many revisions, a socket of two commands.
CONSTANTS
  Releases <- MCReleases
  Current <- MCCurrent
  Buffer = 2
  Checks = 2
  None = None
  Other = Other
  Torn = Torn
SPECIFICATION FairSpec
INVARIANTS
  Inv
  ImageIsSafe
PROPERTIES
  ReplacedAfterExit
  QuitEnds
CHECK_DEADLOCK FALSE
