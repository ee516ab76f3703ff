SPECIFICATION FairSpec
CONSTANTS
  One = 1000
  Weight = 500
  MaxIdle = 2
  Keep <- MCKeep
  Configs <- MCConfigs
  Packets <- TwoSizes
  Traffic <- MCTraffic
  Reopens = TRUE
  MaxArrivals = 7
INVARIANTS
  Conservation
  OneOutstanding
  AverageBounded
  ProbRange
  UnlinkedDepth
  ByteCount
  WithinLimit
PROPERTIES
  IdleArrivalKept
  MarkInsteadOfDrop
  NaredDropsAboveBuffer
  ImplementsFifo
  Drains
