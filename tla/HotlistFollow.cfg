SPECIFICATION FairSpec
CONSTANTS
  Room = 1
  Nested = 1
PROPERTIES FollowLoads
CHECK_DEADLOCK FALSE
