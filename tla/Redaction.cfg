SPECIFICATION FairSpec
CONSTANTS
  Length = 21
  Shapes <- SomeShapes
  Width = 2
  MaxChunk = 14
  Overlap = 3
  Retries = 2
  MaxChanges = 1
CHECK_DEADLOCK FALSE
INVARIANTS Whole AnswersFit
PROPERTIES TrustedOnly Ends
