SPECIFICATION FairSpec
CONSTANTS
  Limit = 2
  FailLimit = 2
  MaxBacklog = 6
  MaxLost = 1
  InitialCounts <- Anything
  InitialFailures <- AnyFailures
INVARIANTS
  CountFollowsFrames
  BacklogBounded
  WritesInLiveSession
PROPERTIES
  DeadSessionGivenUp
  Recovers
  UsesSession
