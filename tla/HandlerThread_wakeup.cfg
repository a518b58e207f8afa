SPECIFICATION Spec
CONSTANTS
  Clients <- TwoClients
  Worker = "worker"
  Owner = "owner"
  MaxSends = 2
  Delays <- Soon
  MaxTime = 0
  ClockSteps <- NoSteps
  MaxClockSets = 0
  PipeCapacity = 1
  HandlersMayQuit = TRUE
INVARIANTS
  NoLostWakeup
  LooperOutlivesThreads
  StrandedAtMostOnePerClient
