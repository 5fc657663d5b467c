SPECIFICATION Spec
CONSTANTS
    nprocs = 4
    Programs <- Programs4
INVARIANTS
    GhostzonesDissolved
    WrittenByOwner
    ReadsTheField
CHECK_DEADLOCK FALSE
