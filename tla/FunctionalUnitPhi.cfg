CONSTANTS
  W = 8
  Lanes = 4
  None = None
  FuLists <- OnlyPhi
  Ops <- MCOps
  Factors <- OnlyScalar
  Addr = {0}
  Latency = 2
  Sample <- MCSample
  Stalls = TRUE
  MaxLoops = 2
SPECIFICATION Spec
PROPERTY FirstAfterReceiving
