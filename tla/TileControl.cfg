CONSTANTS
  MemSize = 2
  Counts = {1, 2}
  Totals = {1, 3}
  Prologues = {1}
  AnyOrder = FALSE
SPECIFICATION FairSpec
INVARIANT ControlInv
INVARIANT FuOncePerStep
INVARIANT ConstInOrder
INVARIANT CompleteOnce
PROPERTY JobCompletes
