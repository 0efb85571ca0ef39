SPECIFICATION MCSpec
CONSTANTS
  MaxBurst = 4
  Base <- MCBase
  Size <- MCSize
  FramePixels = 6
  FifoDepth = 5
  UsedLatency = 1
  Graceful = TRUE
INVARIANTS
  
  
  SlaveAgrees
  PlaceKept
  
PROPERTIES
  
  
  TransferCompletes_Cut
