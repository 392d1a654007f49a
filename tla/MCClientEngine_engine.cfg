SPECIFICATION Spec
CONSTANTS
  Sub = {s1, s2}
  Call = {k1}
  Action = {k1}
  ReuseIds = FALSE
  MaxRetryable = 1
  MaxGeneration = 4
  MaxDue = 1
INVARIANTS TypeOK NeverStalls NothingDangles SubscriptionsAgree
CHECK_DEADLOCK FALSE
