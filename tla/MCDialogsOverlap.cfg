SPECIFICATION Spec
CONSTANTS
  EventIds <- MCEventIds
  Chats = {c1}
  Texts = {"text"}
  Workers = {w1, w2}
  SavedRows <- MCSavedRows
  Ops = {"snoozeCustom", "customDate", "description", "text"}
  Typed <- MCTyped
  Days = {}
  SnoozeDelays = {}
  PostponeDelays = {}
  MaxPeriodic = 1
  MaxNow = 1
  MaxSendAt = 2
  MaxPrompts = 2
  c1 = c1 w1 = w1 w2 = w2
INVARIANT StillWaiting
CHECK_DEADLOCK FALSE
