SPECIFICATION Spec
CONSTANTS
  UsecPerMs = 2
  MsPerSec = 5
  Framerate = 1
  Phases <- SomePhases
  Jumps <- BackAndForth
  MaxJumps = 3
  MaxCost = 11
  MaxTime = 33
PROPERTIES
  PaceKept
