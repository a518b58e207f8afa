SPECIFICATION Spec
CONSTANTS
  Clients <- OneClient
  Worker = "worker"
  Owner = "owner"
  MaxSends = 2
  Delays <- SoonOrLater
  MaxTime = 3
  ClockSteps <- NoSteps
  MaxClockSets = 0
  PipeCapacity = 2
  HandlersMayQuit = FALSE
INVARIANTS
  TypeOK
  PollCoversQueue
  SenderOrder
  AtMostOneLateMessage
  ExitDrains
PROPERTIES
  IsMailbox
  ListIsQueue
