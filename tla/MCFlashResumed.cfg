SPECIFICATION FlashSpec
CONSTANTS
  Subjects = {"Boot"}
  MAX_NUMBER_MSD = 1
  MaxSaves = 0
  MaxCrashes = 0
  MaxIoErrors = 0
  MaxMishaps = 1
  MAX_RESTART_NUMBER = 2
  TrLimit = 1
  Crashes = {"FRONT"}
  Kinds = {"MANUAL", "FRONT"}
  MaxCalls = 1
PROPERTY OnlyInterruptedIsResumed
