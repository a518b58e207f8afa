SPECIFICATION Spec
CONSTANTS
  UsecPerMs = 2
  MsPerSec = 5
  Framerate = 1
  Phases <- OnePhase
  Jumps <- NoJumps
  MaxJumps = 0
  MaxCost = 2
  MaxTime = 24
INVARIANTS
  FreesOnlyItsOwn
