SPECIFICATION FairSpec
CONSTANTS
  Fifo = Fifo
  Latest = Latest
  MaxSize = 2
  MaxPackets = 3
  MinInterval = 1
  Watchdog = 2
  HealthInterval = 1
  MaxBackoff = 2
  Steps = 1
  ReadRaises = TRUE
  StoreFails = TRUE
  JoinsTimeOut = TRUE
INVARIANTS
  HandlesBounded
PROPERTIES
  FreshEnough
  SilenceReported
  StopEnds
  NewestProcessed
