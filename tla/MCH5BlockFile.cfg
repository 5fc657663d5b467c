SPECIFICATION Spec
CONSTANTS
    StepNames <- Names
    Default <- Step
    Steps = {0, 1}
    Sizes = {2}
    MemberNames <- Members
    AttribNames <- Attribs
    Calls <- SomeCalls
    RenamesInSteps = FALSE
    MaxObjects = 4
    MaxSessions = 2
    FieldNames <- Fields
    FieldAttribNames <- FieldAttribNames_
INVARIANTS
    OnlyFailedCallsLeak
    QueriesSeeTheStep
    EnumerationIsComplete
PROPERTIES
    OldDataStays
CHECK_DEADLOCK FALSE
