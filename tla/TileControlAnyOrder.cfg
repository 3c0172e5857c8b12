CONSTANTS
  MemSize = 2
  Counts = {1, 2}
  Totals = {1, 3}
  Prologues = {1}
  AnyOrder = TRUE
SPECIFICATION Spec
INVARIANT FuOncePerStep
