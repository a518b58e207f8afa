SPECIFICATION FairSpec
CONSTANTS
  a1 = a1
  a2 = a2
  a3 = a3
  Head = Head
  Tail = Tail
  Addresses <- ThreeAddresses
  Times <- TwoTimes
  MaxInserts = 4
INVARIANTS
  Chained
  SizeCounts
  LoopsStayInList
PROPERTIES
  IsQueue
  LoopsEnd
