SPECIFICATION Spec
CONSTANTS
    nprocs = 2
    Programs <- BackToStep
INVARIANTS
    WritesCurrentStep
CHECK_DEADLOCK FALSE
