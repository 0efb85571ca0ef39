SPECIFICATION Spec
CONSTANTS
  AddrBits = 2
  DataBits = 2
  Porch = 3
  MaxPixels = 3
  MaxResets = 0
  Idle = {0}
  Reads = {}
INVARIANT SumIsPixels
