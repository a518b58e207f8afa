SPECIFICATION FairSpec
CONSTANTS
  Nodes <- FourNodes
  Readings <- Exact
PROPERTIES
  StopsWhenAllWork
