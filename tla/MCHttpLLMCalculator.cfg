CONSTANTS
  Docs <- PassDocs
  StreamTokens <- MCStreamTokens
  MaxTokens = 3
  MaxTicks = 5
  ReadBlocks = FALSE
  EngineMayFail = TRUE
SPECIFICATION Spec
INVARIANT StopAndDoneEndTheStream
INVARIANT StreamedTextMatchesTokensRead
INVARIANT UnaryEnvelopeMatchesEngine
INVARIANT TimestampsIncrease
PROPERTY ImplementsClientStream
CHECK_DEADLOCK FALSE
