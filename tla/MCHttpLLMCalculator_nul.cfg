CONSTANTS
  Docs <- StreamDocs
  StreamTokens <- NulTokens
  MaxTokens = 3
  MaxTicks = 5
  ReadBlocks = FALSE
  EngineMayFail = FALSE
SPECIFICATION Spec
INVARIANT StreamedTextMatchesTokensRead
CHECK_DEADLOCK FALSE
