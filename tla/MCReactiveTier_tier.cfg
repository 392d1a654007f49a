SPECIFICATION FairSpec
CONSTANTS
  s1 = s1
  t1 = t1
  t2 = t2
  Conn = {c1}
  SubId = {s1}
  Query = {q1}
  Table = {t1, t2}
  Mutation = {m1, m2}
  SubIdsOf <- SharedIds
  ReadSets <- DataReadSets
  MaxAttempts = 2
  NoEntry = NoEntry
INVARIANTS TypeOK EntriesAreCurrent NoLostInvalidation OwnedIsRegistered
PROPERTY EventuallyInvalidated
CHECK_DEADLOCK FALSE
