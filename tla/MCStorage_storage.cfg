CONSTANTS
    Ref = {r1, r2}
    Item = {i1, i2}
    Backend = {keychain, onepassword}
    Caller = {p1, p2}
    None = None
    Row = {1, 2}
    Revisioned = TRUE
    MaxCommands = 6
    Keying <- KeyedByRow
    Key = {1, 2, 3}
    TableOf <- TwoTables
    Draft = {d1}
    Connection = {b1, b2, b3}
    MaxLoose = 1
    RefRow = {1, 2, 3}
    CodesOf <- Codes
    Refs = {0, 1, 2}
    Table = {1, 2, 3}
    Gone = Gone
    Id = {1, 2, 3}
    Value = {1, 2}
    Missing = Missing
    MaxLimit = 1
SYMMETRY Symmetry
SPECIFICATION StorageSpec
INVARIANTS NothingOrphaned CompactionIsFaithful NoWaitCycle OrdersAreSafe BoundedReadIsExact
PROPERTY KeepsPromise
CHECK_DEADLOCK FALSE
