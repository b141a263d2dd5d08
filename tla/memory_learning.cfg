SPECIFICATION Spec
CONSTANTS
  Turns <- MCTurns
  Candidates <- MCCandidates
  SourceOf <- MCSourceOf
  NoRow = NoRow
INVARIANTS
  StoredWasAuthorized
PROPERTIES
  OverwriteWasKnown
  ReceiptIsTruthful
CHECK_DEADLOCK FALSE
