SPECIFICATION Spec
CONSTANTS
  ALT_NIRQ = 2
  Causes = {"TRAP_INST", "MISALIGNED_DATA_ADDR"}
  NIOS2_HAS_EXTRA_EXCEPTION_INFO = TRUE
  Anywhere = FALSE
  MaxRaise = 3
  MaxFault = 1
  MaxContext = 2
INVARIANT SafeCpu
PROPERTY Served
CHECK_DEADLOCK FALSE
