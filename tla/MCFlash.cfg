SPECIFICATION FlashSpec
CONSTANTS
  Subjects = {"MsdStorage", "Boot"}
  MAX_NUMBER_MSD = 2
  MaxSaves = 3
  MaxCrashes = 1
  MaxIoErrors = 1
  MaxMishaps = 1
  MAX_RESTART_NUMBER = 2
  TrLimit = 1
  Crashes = {"FRONT"}
  Kinds = {"MANUAL", "AIRBAGS", "FRONT", "TEST"}
  MaxCalls = 1
INVARIANTS
  TypeOK
  StorageSound
  RestartsAreBounded
PROPERTIES
  RecoveryInventsNothing
  InbandDeleteSparesOthers
  
