SPECIFICATION Spec
CONSTANTS
  Hour = 1
  Day = 2
  EventIds <- OneEvent
  Chats = {"chat"}
  Texts = {"text", "other"}
  Jobs = {j1, j2}
  Workers = {w1, w2}
  SavedRows <- ThreeRows
  Ops = {"done", "delete", "snooze", "postpone", "snoozeCustom", "customDate", "text"}
  Typed <- TypedDate
  Days = {1}
  SnoozeDelays = {1}
  PostponeDelays = {1}
  MaxPeriodic = 1
  MaxNow = 2
  MaxSendAt = 3
  MaxRestarts = 1
  j1 = j1 j2 = j2 w1 = w1 w2 = w2
INVARIANTS TypeOK OneLateReminder
PROPERTIES DeletedForever ImplementsService
SYMMETRY Alike
