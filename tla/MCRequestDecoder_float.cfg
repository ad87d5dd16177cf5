CONSTANT Residues <- AnyDouble
CONSTANT Docs <- OneChangeDocs
SPECIFICATION Spec
INVARIANT AcceptsExactlySpecRequests
CHECK_DEADLOCK FALSE
