CONSTANTS
  Docs <- StreamDocs
  StreamTokens <- FewTokens
  MaxTokens = 3
  MaxTicks = 5
  ReadBlocks = FALSE
  EngineMayFail = FALSE
SPECIFICATION Spec
INVARIANT AllTokensReadBeforeStop
CHECK_DEADLOCK FALSE
