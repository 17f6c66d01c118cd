SPECIFICATION Spec
CONSTANTS
  MAX_NUMBER_MSD = 2
  OneAndOne = FALSE
  Inputs = {"MANUAL_SOS", "URC_CREG"}
  BootWithMsd = FALSE
  MaxInputs = 2
PROPERTY
  WaitingEnds
CHECK_DEADLOCK FALSE
