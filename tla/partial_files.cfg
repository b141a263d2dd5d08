SPECIFICATION Spec
CONSTANTS
  a = a
  Paths = {a}
  Digests = {1, 2}
  Requests <- MCRequests
  Turns <- MCTurns
  MaxTransitions = 7
  MaxGoalRounds = 3
  MaxParallel = 2
PROPERTY PartialFilesRemainVisible
