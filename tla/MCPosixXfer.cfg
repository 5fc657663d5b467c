CONSTANTS
  a = a
  b = b
  Tasks <- MCTasks
  Length = 3
  Base <- MCBase
  ReadFrom <- MCReadFrom
  FileBytes = 6
  MaxRetry = 2
  SingleXferAttempt = FALSE
SPECIFICATION FairSpec
INVARIANTS WriteIsWhole ReadIsWhole
PROPERTIES ImplementsStore Terminates
CHECK_DEADLOCK FALSE
