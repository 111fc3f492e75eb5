SPECIFICATION FairSpec
CONSTANTS
  Hour = 1
  Day = 2
  EventIds <- MCEventIds
  Chats = {"chat"}
  Texts = {"text"}
  Jobs = {j1, j2}
  SavedRows <- MCSavedRows
  MaxNow = 2
  MaxRestarts = 1
  MaxFailures = 1
INVARIANTS TypeOK OneRunAtATime DuplicatesBounded
PROPERTIES NoSkippedSlot DeactivatedOnlyWithoutNext ImplementsLifecycle DueIsReminded CatchesUp
CONSTANTS j1 = j1 j2 = j2
