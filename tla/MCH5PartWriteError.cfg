SPECIFICATION Spec
CONSTANTS
    nprocs = 2
    Programs <- SmallWrite
    Garbage = {0, 3}
    MaxFaults = 1
INVARIANTS
    WriteErrorsReported
CHECK_DEADLOCK FALSE
