\* Two vsyncs of any kind, six timely ones.
SPECIFICATION AdjustmentSpec
CONSTANTS
  WordSize = 1048576
  PixCnt = 16128
  Changes = 1
  MaxLost = 1
  Timely = TRUE
  ZeroQuotient <- MCZeroQuotient
  Scene <- MCScene
  WhitePixCnt = 1000
  StatMin = 10
  StatMax = 220
  WhiteQuotient <- MCWhiteQuotient
  Colour <- MCColour
  MaxFrames = 6
  MaxFramesAny = 2
  Write <- MCWrite
  Unset <- MCUnset
  MaxWrites = 3
  MaxRestarts = 2
INVARIANTS
  SafeAdjustment
  SafeInterrupts
PROPERTIES
  AdjustsTheRightWay
  SensorFollows
  Settles
  EachRunNewFrame
  Answered
  BusWorks
