CONSTANTS
  NumCCUs = 3
  MaxTargets = 4
  Addr = {0, 1, 2}
  ValueLimit = 8
  Inner = 1
  NoShadow = NoShadow
SPECIFICATION NestFairSpec
CONSTANT Nests <- MixedNest
CHECK_DEADLOCK FALSE
INVARIANT BarrierExact
