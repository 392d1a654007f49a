CONSTANTS
  p1 = p1
  p2 = p2
  p3 = p3
  None = None
  Row = {1}
  Revisioned = TRUE
  Process = {p1, p2, p3}
  Menu <- EndMenu
  Batches <- Singles
  AppendAttempts = 2
  TxAttempts = 2
  MaxVersion = 4
  Resolved = 100
SPECIFICATION Spec
PROPERTY RebaseIsConfirmed
CHECK_DEADLOCK FALSE
