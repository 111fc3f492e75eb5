SPECIFICATION TurnsSpec
CONSTANTS
  EventIds <- MCEventIds
  Chats = {c1, c2}
  Texts = {"text"}
  Workers = {w1, w2}
  SavedRows <- MCSavedRows
  Ops = {"snoozeCustom", "customDate", "description", "text", "period", "weekday"}
  Typed <- MCTyped
  Days = {1}
  SnoozeDelays = {}
  PostponeDelays = {}
  MaxPeriodic = 1
  MaxNow = 1
  MaxSendAt = 1
  MaxPrompts = 1
  c1 = c1 c2 = c2 w1 = w1 w2 = w2
SYMMETRY Alike
INVARIANTS TypeOK OneAnswerEach
PROPERTY LimitPassedUncounted
