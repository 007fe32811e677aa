SPECIFICATION FollowSpec
CONSTANTS
  None = None
  From = {1, 2, 4}
  MaxEvents = 3
  MaxRestarts = 1
  MaxFaults = 2
  Faults = {"cut", "unreachable", "short", "unsaved", "retired", "revoked"}
  Wire = 1

  
PROPERTIES
  FeedIsServed
  FollowerEnds
CHECK_DEADLOCK FALSE
