SPECIFICATION Spec
CONSTANTS
  Hour = 1
  Day = 24
INVARIANT FiresOnSelectedDays
CHECK_DEADLOCK FALSE
