SPECIFICATION RecordsSpec
CONSTANTS
  Spaces = {"s1", "s2"}
  NewRows <- MCNewRows
  HourLen = 2
  MinKeep = 5
  HourKeep = 6
  Lookback = 4
  MaxMinute = 7
  MaxFolds = 3
  MaxFaults = 1
  Quiet = 1
  Lag = 1
  None = None
  Ips = {"a"}
  Floors = {"B1", "GF"}
  DtSpaces = {"lobby"}
  CipherKeys = {"k1"}
  Allowlist = {}
  Sections = {"processing"}
  Baseline <- MCBaseline
  MaxId = 2
  MaxEdits = 4
  MaxCount = 1
  NoValue = NoValue
  Malformed = Malformed
  Areas = {"gate", "side"}
  CountingLines = {"l1", "l2"}
  DayLen = 3
  Offset = 1
  WindowLen = 2
  CrossingKeep = 4
  MaxLate = 1
  MaxClock = 6
  MaxCrossings = 2
  SpaceIds = {"s1", "s2"}
  FloorNames = {"B1", "GF"}
  NoFloor = NoFloor
  RowLimit = 5
  MaxBucket = 3
  MaxMoves = 1
  Names = {1}
  MaxDrawings = 2
  MaxPoints = 3
  NoFile = NoFile
  MaxRows = 2
INVARIANTS FinalHoursExact NoOrphans FloorsWithinSpaces HistoryAddsUp FloorsTellWhole
PROPERTIES PrunedOnlyWhenFinal CatchesUp ImportsOnce
CHECK_DEADLOCK FALSE
