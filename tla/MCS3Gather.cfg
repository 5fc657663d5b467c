SPECIFICATION Spec
CONSTANTS
    NumTasksWorld = 3
    Tests <- SmallerTest
PROPERTIES
    UploadCompletes
CHECK_DEADLOCK FALSE
