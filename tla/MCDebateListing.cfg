SPECIFICATION FairWalkSpec
CONSTANTS
  Times <- MCTimes
  Ids <- MCIds
  Limits <- MCLimits
  NoCursor = NoCursor
INVARIANTS
  NewestFirst
  NothingSkipped
PROPERTIES
  WalkEnds
CHECK_DEADLOCK FALSE
