SPECIFICATION Spec
CONSTANTS
  Names = {a, b}
  DefaultName = a
  None = None
  OldDraft = FALSE
  HistoryLimit = 2
  MaxEdits = 2
  MaxPresets = 1
  MaxRequests = 2
  MaxEvents = 2
CHECK_DEADLOCK FALSE
INVARIANTS UndoReachesOpened CleanWasStored
PROPERTIES DraftFollows
