CONSTANTS
  Docs <- StreamDocs
  StreamTokens <- FewTokens
  MaxTokens = 3
  MaxTicks = 5
  ReadBlocks = TRUE
  EngineMayFail = FALSE
SPECIFICATION Spec
PROPERTY RequestAnswered
CHECK_DEADLOCK FALSE
