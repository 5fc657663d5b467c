SPECIFICATION Spec
CONSTANTS
    num_procs = 2
    Counts = {3}
    MaxFaults = 0
    Jobs <- Samples
INVARIANTS
    SampleIsUnique
CHECK_DEADLOCK FALSE
