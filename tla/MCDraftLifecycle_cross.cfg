CONSTANTS
  p1 = p1
  p2 = p2
  p3 = p3
  None = None
  Row = {1, 2}
  Revisioned = FALSE
  Process = {p1, p2, p3}
  Menu <- RaceMenu
  Batches <- Crossing
  AppendAttempts = 2
  TxAttempts = 2
  MaxVersion = 1
  Resolved = 100
SPECIFICATION FairSpec
INVARIANTS AppendsKept
PROPERTY CallsSettle
CHECK_DEADLOCK FALSE
