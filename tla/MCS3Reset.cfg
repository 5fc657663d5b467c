SPECIFICATION Spec
CONSTANTS
    NumTasksWorld = 2
    Tests <- NoBarriers
INVARIANTS
    NoPutIsLost
CHECK_DEADLOCK FALSE
