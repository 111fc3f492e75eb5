SPECIFICATION Spec
CONSTANTS
  EventIds <- ThreeEvents
  Chats = {c1, c2}
  Texts = {"text"}
  Workers = {w1}
  Readers = {r1}
  SavedRows <- TodaysRow
  Ops = {"add", "delete"}
  Typed <- TypedTomorrow
  Days = {1}
  SnoozeDelays = {1}
  PostponeDelays = {1}
  MaxPeriodic = 1
  PageSize = 1
  Day = 2
  Shift = 1
  MaxDigests = 1
  MaxNow = 0
  MaxSendAt = 3
  w1 = w1 r1 = r1 c1 = c1 c2 = c2
SYMMETRY Alike
INVARIANTS TypeOK EverythingSeen SeenOnce DigestComplete
