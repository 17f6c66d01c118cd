SPECIFICATION ServicesSpec
CONSTANTS
  Clients = {"conn_wait_t", "ccft_t", "a_timer_t"}
  Unchecked = {"a_timer_t"}
  MAX_TIMERS = 2
  MAX_DUR = 2
  Mbox = 3
  Durations = {1, 3}
  MaxStarts = 3
  MAX_NUMBER_MSD = 2
  AttemptsLimit = 2
  SmsMbox = 4
  MaxMsds = 2
  MaxRequests = 3
  MaxNoPdu = 1
  MaxWipes = 1
INVARIANTS SlotsNotShared ExactDuration DeletedWasSent
PROPERTIES EveryTimerFires SendingEnds
CHECK_DEADLOCK FALSE
