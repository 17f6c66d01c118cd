SPECIFICATION Spec
CONSTANTS
  MAX_NUMBER_MSD = 2
  ManualAttempts = 1
  AutoAttempts = 2
  OneAndOne = FALSE
  To112 = FALSE
  CanCancel = TRUE
  MailboxSize = 2
  MaxRestartNumber = 1
  MaxCalls = 2
  CallEvents = {"AUTO", "MANUAL_SOS", "TEST"}
  MaxReports = 2
  MaxPresses = 1
INVARIANTS
  TypeOK
  WatchdogArmed
  OneResultPerStart
PROPERTIES
  NoDialWhenStopped
  KeepsPromise
CHECK_DEADLOCK FALSE
