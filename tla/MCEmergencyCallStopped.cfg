SPECIFICATION Spec
CONSTANTS
  MAX_NUMBER_MSD = 2
  OneAndOne = TRUE
  Inputs = {"AUTO", "TEST", "FORCED_STOP", "SOS_PRESSED", "SMS_REQUEST", "SMS_SENT", "URC_RING", "URC_NO_CARRIER", "URC_CREG", "URC_CONNECTED", "URC_DISCONNECTED"}
  BootWithMsd = FALSE
  MaxInputs = 3
PROPERTIES
  CallEnds
  SelfTestEnds
CHECK_DEADLOCK FALSE
