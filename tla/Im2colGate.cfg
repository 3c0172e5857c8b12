CONSTANTS
  DramAddrMod = 256
  SpmAddrMod = 16
  BytesMod = 64
  Zero = 0
  HalfMod = 16
  ExtAddrs = {1, 7}
  NoAddr = NoAddr
  NoJob = NoJob
CONSTANT Programs <- MCPrograms
CONSTANT InitialDram <- Dram
CONSTANT InitialSpm <- Scratchpad
CONSTANTS
  ScratchMod = 16
  DataAddrMod = 64
  ChannelSize = 2
  Early = 1
  Late = 3
  NumCCUs = 3
  MaxTargets = 4
  Addr = {0, 1, 2}
  ValueLimit = 8
  Inner = 1
  NoShadow = NoShadow
CONSTANT Shapes <- MCShapes
CONSTANT Nests <- MCNests
SPECIFICATION MCSpec
CHECK_DEADLOCK FALSE
INVARIANT PacketsWait
