CONSTANTS
  Docs <- PassDocs
  StreamTokens <- FewTokens
  MaxTokens = 3
  MaxTicks = 5
  ReadBlocks = FALSE
  EngineMayFail = TRUE
SPECIFICATION Spec
PROPERTY RequestAnswered
CHECK_DEADLOCK FALSE
