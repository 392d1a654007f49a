SPECIFICATION Spec
CONSTANTS
  s1 = s1
  t1 = t1
  t2 = t2
  Conn = {c1, c2}
  SubId = {s1}
  Query = {q1}
  Table = {t1, t2}
  Mutation = {}
  SubIdsOf <- SharedIds
  ReadSets <- DataReadSets
  MaxAttempts = 1
  NoEntry = NoEntry
PROPERTY TeardownKeepsOthers
CHECK_DEADLOCK FALSE
