CONSTANTS
  Record <- MCRecord
  Plans <- MCPlans
  MetaWords = 16
SPECIFICATION FairSpec
INVARIANTS CompleteWhenClosed RestartIsExact OtherShapesRefused 
PROPERTIES JobsEnd
CHECK_DEADLOCK FALSE
