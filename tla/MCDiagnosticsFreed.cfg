SPECIFICATION DiagSpec
CONSTANTS
  SaMbox = 2
  MaxRequests = 0
  Files = {"a"}
  MaxBlocks = 2
  FtMbox = 2
  MaxCommands = 3
  RequestLens = {1, 3}
  ResponseLens = {1}
  BlockSizes = {0}
  WaitBlocks = 2
  SnLimit = 4
  Filled = {1}
  MaxExchanges = 1
  MaxLosses = 0
  MaxGivenUp = 0
PROPERTY TimerFreesTool
CHECK_DEADLOCK FALSE
