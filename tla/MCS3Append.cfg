SPECIFICATION Spec
CONSTANTS
    NumTasksWorld = 2
    Tests <- Appends
INVARIANTS
    AppendsFail
CHECK_DEADLOCK FALSE
