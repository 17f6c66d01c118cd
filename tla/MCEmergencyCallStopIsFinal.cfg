SPECIFICATION Spec
CONSTANTS
  MAX_NUMBER_MSD = 2
  OneAndOne = FALSE
  Inputs = {"MANUAL_SOS", "FORCED_STOP"}
  BootWithMsd = FALSE
  MaxInputs = 2
INVARIANT
  NoCallBehindItsBack
CHECK_DEADLOCK FALSE
