CONSTANTS
  Docs <- StreamDocs
  StreamTokens <- FewTokens
  MaxTokens = 3
  MaxTicks = 5
  ReadBlocks = FALSE
  EngineMayFail = FALSE
SPECIFICATION Spec
INVARIANT AcceptedRequestNeverFails
CHECK_DEADLOCK FALSE
