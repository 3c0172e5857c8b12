CONSTANTS
  Msg = {a, b}
  NoMsg = NoMsg
  NumEntries = 3
  Latency = 2
  In = {i1, i2}
  Out = {tile, fu}
  LocalOut = {fu}
  None = None
  Addr = {a1}
  Data = {x, y}
  MaxPrologue = 1
  Empty = Empty
  NoTile = NoTile
  QueueSize = 16
  Modulus = 8
CONSTANT Tile <- MCTile
CONSTANT Cmd <- MCCmd
CONSTANT Operand <- MCOperand
SPECIFICATION MCSpec
INVARIANT CrossbarInv
INVARIANT NoDuplicate
INVARIANT ReduceExact
PROPERTY ImplementsFifo
PROPERTY LinksAreFifos
PROPERTY ChannelDelivers
PROPERTY AllOrNothing
PROPERTY OfferHeld
PROPERTY StepCompletes
PROPERTY RoundsComplete
