SPECIFICATION FairSpec
CONSTANTS
  MaxFrames = 4
  MaxNow = 1
  MaxBacks = 1
INVARIANTS
  FramesOwned
  UsesLiveObjects
PROPERTIES
  WrittenInOrder
  TeardownAdvances
  TeardownEnds
  FramesGetOut
