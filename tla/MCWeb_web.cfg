CONSTANTS
    Leaf <- Leaves
    MaxStages = 2
    Screen = {s1, s2}
    MaxWrites = 2
    MaxMounts = 4
    MaxRetries = 1
    Socket = {k1, k2}
    MaxStops = 2
SPECIFICATION WebSpec
INVARIANTS ConnectionsHaveOwners AnswersAreJust
PROPERTY HookIsLive
CHECK_DEADLOCK FALSE
