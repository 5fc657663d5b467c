SPECIFICATION Spec
CONSTANTS
    num_procs = 2
    Counts = {3}
    MaxFaults = 1
    Jobs <- SomeJobs
INVARIANTS
    RecordsBelong
    EveryPointOnce
    RowsBelong
PROPERTIES
    JobsEnd
CHECK_DEADLOCK FALSE
