CONSTANTS
  NumTasksWorld = 3
  Tests <- SoundTests
SPECIFICATION FairSpec
INVARIANTS CollectivesMatch NoFalseErrors NeverAborts
  WrittenByOwner ErrorsReachAll
PROPERTIES RemovalsAreSafe Terminates
CHECK_DEADLOCK FALSE
