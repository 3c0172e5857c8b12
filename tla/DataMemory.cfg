CONSTANTS
  NumCgras = 2
  num_rd_tiles = 2
  num_banks = 2
  bank_size = 2
  Host = 0
  Capacity = 2
  Requesters <- MCRequesters
  Targets <- MCTargets
  MaxLoads = 2
  MaxStores <- MCMaxStores
  None = None
SPECIFICATION FairSpec
CHECK_DEADLOCK FALSE
INVARIANT LoadsRegular
PROPERTY StoresInOrder
PROPERTY AccessesComplete
