SPECIFICATION Spec
CONSTANTS
  MAX_NUMBER_MSD = 2
  ManualAttempts = 1
  AutoAttempts = 1
  OneAndOne = FALSE
  To112 = FALSE
  CanCancel = TRUE
  MailboxSize = 10
  MaxRestartNumber = 1
  MaxCalls = 1
  CallEvents = {"MANUAL_SOS"}
  MaxReports = 2
  MaxPresses = 1
INVARIANT
  UndeliveredMsdKept
PROPERTY
  CallerIsAnswered
CHECK_DEADLOCK FALSE
