SPECIFICATION Spec
CONSTANTS
    NumTasksWorld = 3
    Tests <- AllTests
INVARIANTS
    ReadersFindTheData
    NothingRefused
PROPERTIES
    JobEnds
CHECK_DEADLOCK FALSE
