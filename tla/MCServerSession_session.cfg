SPECIFICATION FairSpec
CONSTANTS
  AuthFrame = {f1, f2, f3}
  Call = {k1}
  Token = {good, stolen}
  Null = Null
  Garbage = Garbage
  RequiresAuth = TRUE
INVARIANTS TypeOK GateHolds
PROPERTIES IdentityKept ClosedForCause HandshakeEnds
CHECK_DEADLOCK FALSE
