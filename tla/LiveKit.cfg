SPECIFICATION Spec
CONSTANTS
    Users = {"alice", "bob"}
    GroupIds = {"a"}
    Hooks = {1, 2}
    Suffixes = {1, 2}
    Guests = {"agent"}
    Enabled = {"a"}
    MaxMoves = 4
    MaxChanges = 2
    MaxFaults = 1
    MaxTime = 3
INVARIANTS
    ListCatchesUp
    StoreFollowsMemory
CHECK_DEADLOCK FALSE
