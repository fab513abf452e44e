SPECIFICATION Spec
CONSTANT Files <- MCFiles
INVARIANT ImageIsWhole
CHECK_DEADLOCK FALSE
