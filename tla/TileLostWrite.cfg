CONSTANTS
  Reg = {r0}
  Data = {x, y}
  None = None
  Careful = FALSE
SPECIFICATION Spec
INVARIANT WriteDelivered
