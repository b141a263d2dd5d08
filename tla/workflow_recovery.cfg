SPECIFICATION RecoverySpec
CONSTANTS
  Stages <- MCStages
  Versions = {"v1", "v2"}
  Requests <- MCRequests
  MaxRetries = 2
  MaxAttempts = 4
  MaxCalls = 2
INVARIANTS
  DurableFactsAreSettled
PROPERTIES
  FileNeverOverwritten
  EffectUnderIntent
  CompletionIsDurable
  AttemptEnds
CHECK_DEADLOCK FALSE
