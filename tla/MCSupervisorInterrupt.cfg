SPECIFICATION Spec
CONSTANT MaxRequest = 1
CHECK_DEADLOCK FALSE
INVARIANT RetainedUntilTerminal
