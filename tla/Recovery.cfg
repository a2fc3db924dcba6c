SPECIFICATION RecoverySpec
CONSTANTS
    None = None
    Users = {"alice", "bob"}
    GroupIds = {"a", "b"}
    Codes = {"x", ""}
    RelayKey = "relay"
    Handlers = {1}
    Owner = "owner"
    Present = {"alice", "bob"}
    Submissions <- RecoveryMessages
    Founded <- FoundA
    ClosedGroups = {}
    RosterKinds <- FirstRosters
    Epoch = 10
    MaxTime = 12
    MaxAge = 5
    MaxEvents = 3
    MaxFails = 1
    Wipes = {}
    MaxCrashes = 1
INVARIANTS
    RestartRefreshesRosters
    ParentsAreAcyclic
    LiveGroupsWereCreated
    ChildrenAreLive
    RestartRestoresGroups
    RestartRepairsChildren
    DeletedStaysDeletedAcrossRestart
CHECK_DEADLOCK FALSE
