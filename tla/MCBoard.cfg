SPECIFICATION BoardSpec
CONSTANTS
  Subjects = {"Indication", "APlayer", "SelfTest", "Gpio", "Charger"}
  IndMbox = 3
  CallSigns = {"SHOW_ECALL", "SHOW_RING_SIGNAL"}
  IgnOnSteps = 1
  IgnOffSteps = 1
  Setters = {"gpio", "gnss"}
  Changes = {"failure", "clear", "activation", "call", "test", "mode", "special"}
  MaxEvents = 2
  MaxTurns = 1
  Callers = {"task", "ecall"}
  Prompts = {"a", "b"}
  MaxTones = 3
  Requesters = {"task", "ecall"}
  Tones <- MCTones
  StMbox = 2
  Starts = {"START_TESTING", "START_TEST_MD_ONLY"}
  MaxOrders = 2
  ManualTicks = 1
  FastTicks = 2
  PauseTicks = 1
  StuckTicks = 3
  IgnTicks = 1
  Presses = 2
  ChargeInterval = 2
  MaxIntervals = 2
INVARIANTS TypeOK OneResultPerTest FailureTellsTruth ChargesWhatIsFit
PROPERTIES LampTellsTruth KeepsTonePromise ToneIsOver TestEnds TestAfterPresses
CHECK_DEADLOCK FALSE
