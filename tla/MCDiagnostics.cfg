SPECIFICATION DiagSpec
CONSTANTS
  SaMbox = 2
  MaxRequests = 8
  Files = {"a"}
  MaxBlocks = 2
  FtMbox = 2
  MaxCommands = 6
  RequestLens = {1, 3}
  ResponseLens = {1, 4}
  BlockSizes = {0, 1, 2}
  WaitBlocks = 2
  SnLimit = 4
  Filled = {2}
  MaxExchanges = 4
  MaxLosses = 1
  MaxGivenUp = 3
INVARIANTS AccessIsWatched DelayAtThree  ArrivesWhole
PROPERTIES OpenedByKey AccessEnds ToolIsReleased ExchangeEnds
CHECK_DEADLOCK FALSE
