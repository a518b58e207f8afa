SPECIFICATION Spec
CONSTANTS
  Clients <- OneClient
  Worker = "worker"
  Owner = "owner"
  MaxSends = 1
  Delays <- SoonOrLater
  MaxTime = 2
  ClockSteps <- NoSteps
  MaxClockSets = 0
  PipeCapacity = 1
  HandlersMayQuit = FALSE
INVARIANTS
  HandlerUsesLiveLooper
