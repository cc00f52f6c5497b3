CONSTANTS
  Day = 2
  Starts <- MCStarts
  Durations <- MCDurations
  MinTotal <- MCMinTotal
  MaxDay = 2
  MaxRecords = 3
  MaxTotal = 1

SPECIFICATION Spec

INVARIANT
  TypeOK

PROPERTIES
  StopKeepsTotals
  StopFollowsStart
  ActionsKeepFileSound
  ChangesNearCursor

CHECK_DEADLOCK FALSE
