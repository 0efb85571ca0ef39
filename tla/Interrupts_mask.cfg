SPECIFICATION Spec
CONSTANTS
  MaxFrames = 2
  MaxFramesAny = 2
INVARIANT MaskHolds
