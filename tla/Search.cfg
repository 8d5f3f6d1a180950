SPECIFICATION Spec
CHECK_DEADLOCK FALSE
CONSTANTS
  NoBlock = NoBlock
  NoLimit = NoLimit
  MaxYield = 3
  Directory <- Directories
  MaxResults <- Results
  MaxTokens <- Tokens
  MaxFiles <- Caps
INVARIANTS AnswerIsBest NoNeedlessRead FalseMeansComplete
