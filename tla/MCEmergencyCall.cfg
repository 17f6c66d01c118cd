SPECIFICATION Spec
CONSTANTS
  MAX_NUMBER_MSD = 2
  OneAndOne = FALSE
  Inputs = {"MANUAL_SOS", "TEST", "SOS_PRESSED", "DEREGISTRATION"}
  BootWithMsd = TRUE
  MaxInputs = 4
INVARIANTS
  OneCallAtATime
  MsdOfCallKept
  NoWaitingInCall
CHECK_DEADLOCK FALSE
