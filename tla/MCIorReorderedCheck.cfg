CONSTANTS
  NumTasksWorld = 3
  Tests <- ReorderedCheckTests
SPECIFICATION Spec
INVARIANT NoFalseErrors
CHECK_DEADLOCK FALSE
