SPECIFICATION GateSpec
CONSTANTS
  Tasks <- MCTasks
  Idempotent = {"second"}
  Requests <- MCRequests
  MaxTime = 7
PROPERTIES
  DoubtNeedsFreshWord
  CommittedNeverRepeated
CHECK_DEADLOCK FALSE
