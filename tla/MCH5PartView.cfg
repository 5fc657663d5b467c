SPECIFICATION Spec
CONSTANTS
    nprocs = 3
    Programs <- Programs3
    Garbage = {0, 3}
    MaxFaults = 1
INVARIANTS
    ViewsPartition
    DatasetsComplete
    ReadsTheView
    ThrottleHolds
PROPERTIES
    CallsReturn
CHECK_DEADLOCK FALSE
