CONSTANTS
  W = 8
  Lanes = 4
  None = None
  FuLists <- MCFuLists
  Ops <- MCOps
  Factors <- MCFactors
  Addr = {0}
  Latency = 2
  Sample <- MCSample
  Stalls = FALSE
  MaxLoops = 2
SPECIFICATION FairSpec
INVARIANT ResultsExact
INVARIANT ActsOncePerStep
PROPERTY StepEnds
