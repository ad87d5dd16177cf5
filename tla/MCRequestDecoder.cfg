CONSTANT Residues <- FloatExact
SPECIFICATION Spec
INVARIANT AcceptsExactlySpecRequests
INVARIANT ConfigFollowsSpecMapping
CHECK_DEADLOCK FALSE
