\* Reader: three and a half bursts a frame, room for one burst beyond the slack; buffers on a
\* burst boundary and one and three words past one.  Generator: the panel of the design.
SPECIFICATION DisplaySpec
CONSTANTS
  MaxBurst = 4
  FifoDepth = 13
  Pixels = 10
  Base = {4, 9, 11}
  WriteLatency = 2
  H_FRONT = 2
  H_PULSE = 41
  H_BACK = 2
  H_DISP = 480
  V_FRONT = 2
  V_PULSE = 10
  V_BACK = 2
  V_DISP = 272
INVARIANTS
  SafeDisplay
  NoOverflow
  Balanced
PROPERTIES
  PictureInPlace
  ImplementsRaster
  FramesGoOn
