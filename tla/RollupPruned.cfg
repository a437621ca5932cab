SPECIFICATION Spec
CONSTANTS
  Spaces = {"s1", "s2"}
  NewRows <- MCNewRows
  HourLen = 2
  MinKeep = 5
  HourKeep = 6
  Lookback = 4
  MaxMinute = 7
  MaxFolds = 4
  MaxFaults = 1
  Quiet = 7
  Lag = 1
  None = None
PROPERTY OnlyImproves
CHECK_DEADLOCK FALSE
