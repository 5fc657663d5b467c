CONSTANTS
  NumTasksWorld = 3
  Tests <- KeptWithErrorTests
SPECIFICATION Spec
PROPERTY RemovalsAreSafe
CHECK_DEADLOCK FALSE
