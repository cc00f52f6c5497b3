SPECIFICATION HintsSpec
CONSTANTS
  Day = 2
  Starts = {0}
  Durations = {1}
  MaxDay = 3
  MaxRecords = 1
  MinTotal = 0
  MaxTotal = 2
INVARIANT HintsKeepUp
CHECK_DEADLOCK FALSE
