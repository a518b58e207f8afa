SPECIFICATION FairSpec
CONSTANTS
  Clients <- OneClient
  Worker = "worker"
  Owner = "owner"
  MaxSends = 1
  Delays <- SoonOrLater
  MaxTime = 3
  ClockSteps <- BackAndForth
  MaxClockSets = 2
  PipeCapacity = 2
  HandlersMayQuit = FALSE
PROPERTIES
  QueuedIsTaken
  LifecycleCompletes
