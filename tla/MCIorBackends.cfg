CONSTANTS
  NumTasksWorld = 3
  Pieces = 2
  Tests <- SoundTests
SPECIFICATION FairSpec
INVARIANTS FilesAreWhole
PROPERTIES ImplementsStore Ends
CHECK_DEADLOCK FALSE
