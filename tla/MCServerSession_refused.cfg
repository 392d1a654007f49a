SPECIFICATION Spec
CONSTANTS
  AuthFrame = {f1, f2}
  Call = {}
  Token = {good, stolen}
  Null = Null
  Garbage = Garbage
  RequiresAuth = TRUE
PROPERTY AuthenticatedNotRefused
CHECK_DEADLOCK FALSE
