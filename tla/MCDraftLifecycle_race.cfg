CONSTANTS
  p1 = p1
  p2 = p2
  p3 = p3
  None = None
  Row = {1}
  Revisioned = TRUE
  Process = {p1, p2, p3}
  Menu <- RaceMenu
  Batches <- Singles
  AppendAttempts = 2
  TxAttempts = 2
  MaxVersion = 4
  Resolved = 100
SPECIFICATION Spec
INVARIANTS AppendsKept AnchorsAreExact CleanDraftPublishes
PROPERTY PublishIsReviewed
CHECK_DEADLOCK FALSE
