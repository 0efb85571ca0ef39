SPECIFICATION VideoSpec
CONSTANTS
  AddrBits = 2
  DataBits = 2
  Porch = 8
  MaxPixels = 2
  PIX_TOTAL = 2
  MaxResets = 1
  Reads = {}
  Idle = {0}
  OUT_BITS = 3
  Windows = {{1, 2}}
  SensorPixels = 2
  SensorLines = 2
  FrameBits = 1
  MaxWrites = 3
  H_FRONT = 1
  H_PULSE = 0
  H_BACK = 0
  H_DISP = 2
  V_FRONT = 1
  V_PULSE = 1
  V_BACK = 0
  V_DISP = 2
  Width = 6
  Blank = Blank
  Period = 12
  ScalerLines = 4
  Scales = {0, 1, 2, 3}
  Lines = 5
  Gaps = {1, 4}
INVARIANTS
  SafeEqualisation
  SafeStream
PROPERTY CountsFrames
