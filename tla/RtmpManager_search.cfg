SPECIFICATION FairSpec
CONSTANTS
  Nodes <- FourNodes
  Readings <- Unterminated
INVARIANTS
  StreamsDistinct
  OneCapturePerNode
  FirstNodesOnly
  ChecksUntilAllWork
  CapturesLimited
PROPERTIES
  FindsCameras
