\* One model file, recordings of up to three samples in windows of two, texts of up to
\* seven bytes in pieces of up to four, translations of up to three tokens.
CONSTANTS
  Jobs = {"download", "dictate", "audio", "read", "translate"}
  Files = 1
  Texts <- MCTexts
  Chunk = 4
  Window = 2
  Recording = 3
  Audio = 3
  TextLimit = 5
  Byte = 3
  Tokens = 3
  Region = 4
  Helper = Helper
  Rival = Rival
  None = None
SPECIFICATION FairSpec
INVARIANTS
  Inv
  HeaderKept
  FinishedIsWhole
PROPERTIES
  SuccessIsShown
  ProgramsEnd
CHECK_DEADLOCK FALSE
