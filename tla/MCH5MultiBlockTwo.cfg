SPECIFICATION Spec
CONSTANTS
    nprocs = 4
    Programs <- TwoFields
INVARIANTS
    NeighboursExist
CHECK_DEADLOCK FALSE
