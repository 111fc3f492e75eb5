SPECIFICATION Spec
CONSTANTS
  Hour = 1
  Day = 2
  EventIds <- OneEvent
  Chats = {"chat"}
  Texts = {"text", "other"}
  Jobs = {j1}
  Workers = {w1}
  SavedRows <- WeekdaysRow
  Ops = {"editWeekday"}
  Typed <- TypedDate
  Days = {1}
  SnoozeDelays = {1}
  PostponeDelays = {1}
  MaxPeriodic = 1
  MaxNow = 1
  MaxSendAt = 3
  MaxRestarts = 0
  j1 = j1 w1 = w1
INVARIANT WeekdaysChosen
