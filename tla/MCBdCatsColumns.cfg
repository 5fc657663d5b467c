SPECIFICATION Spec
CONSTANTS
    num_procs = 2
    Counts = {3}
    MaxFaults = 0
    Jobs <- Odd
INVARIANTS
    AllColumnsRead
CHECK_DEADLOCK FALSE
