CONSTANTS
  Reg = {r0}
  Data = {x, y}
  None = None
  Careful = TRUE
SPECIFICATION FairSpec
INVARIANT TileInv
INVARIANT StepAtomic
INVARIANT ExactlyOnce
PROPERTY StepCompletes
INVARIANT BankInv
INVARIANT OwnWriteNeverBlocked
PROPERTY ReadRepeatable
PROPERTY ImplementsTokens
