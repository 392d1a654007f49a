CONSTANTS
    Tables = {users, flags}
    TenantTables = {users}
    Tenants = {acme, zeta}
    NoTenant = NoTenant
    Paths = {save, notify}
    MaxWrites = 2
    MaxDepth = 4
    MaxCommands = 2
    MaxSwaps = 1
    Call = {c1, c2}
    Process = {p1, p2}
    MaxRowWrites = 3
    Draft = {d1, d2}
    AccessDraft = {d}
    MaxRedeploys = 1
    MaxDeploys = 2
SYMMETRY Symmetry
SPECIFICATION LayerSpec
INVARIANTS EmitsWhatCommitted BatchIsAllOrNothing ReportsItsOwnWrites NoActionInBatch KeptApart UpgradeIsSafe
CHECK_DEADLOCK FALSE
