SPECIFICATION FairSpec
CONSTANTS
  MaxEvents = 4
  MaxProgress = 0
  BatchSize = 2
  Limits = {0, 2}
  MaxFloor = 1
  EventLimit = 2
  MaxFailures = 1
CHECK_DEADLOCK FALSE
INVARIANTS
  CursorNeverSkips
PROPERTIES
  StreamEndsAtOutcome
  StreamEnds
  DecidedStatusShown
