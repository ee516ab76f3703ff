SPECIFICATION Spec
CONSTANTS
  One = 100
  Weight = 50
  MaxIdle = 2
  Keep <- MCKeep
  Configs <- NaredHalf
  Packets <- OneKind
  Traffic <- NaredTraffic
  Reopens = TRUE
  MaxArrivals = 20
INVARIANTS
  NaredProbRange
