CONSTANTS
  NumTasksWorld = 2
  Tests <- AfterSmallerTest
SPECIFICATION Spec
INVARIANT WrittenByOwner
CHECK_DEADLOCK FALSE
