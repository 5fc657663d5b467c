SPECIFICATION Spec
CONSTANTS
    nprocs = 4
    Programs <- Programs4
INVARIANTS
    HalosAreNeighbours
    FieldsAreWhole
PROPERTIES
    JobEnds
CHECK_DEADLOCK FALSE
