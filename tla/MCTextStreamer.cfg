CONSTANT MaxPuts <- MCMaxPuts
SPECIFICATION Spec
INVARIANT TypeOK
INVARIANT PrintLenBounded
INVARIANT HeldBackIsCacheTail
CHECK_DEADLOCK FALSE
