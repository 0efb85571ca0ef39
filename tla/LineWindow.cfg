SPECIFICATION Spec
CONSTANTS
  Width = 6
  Lines = 5
  Gaps = {1, 4}
  MaxResets = 1
  Blank = Blank
INVARIANT FormatNamesCentre
