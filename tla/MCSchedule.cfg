SPECIFICATION Spec
CONSTANTS
  Hour = 1
  Day = 24
INVARIANTS EverySlotOfTheWeek OncePerSelectedDay
CHECK_DEADLOCK FALSE
