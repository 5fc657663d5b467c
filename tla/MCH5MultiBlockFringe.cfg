SPECIFICATION Spec
CONSTANTS
    nprocs = 4
    Programs <- Fringe
INVARIANTS
    FringesAreRefused
CHECK_DEADLOCK FALSE
