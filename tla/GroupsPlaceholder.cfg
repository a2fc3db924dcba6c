SPECIFICATION Spec
CONSTANTS
    None = None
    Users = {"alice", "bob"}
    GroupIds = {"a"}
    Codes = {""}
    RelayKey = "relay"
    Handlers = {1, 2}
    Owner = "owner"
    Present = {"alice", "bob"}
    Submissions <- CreateAndJoin
    Founded = {}
    ClosedGroups = {}
    RosterKinds <- NoRosters
    Epoch = 10
    MaxTime = 10
    MaxAge = 1
    MaxEvents = 2
    MaxFails = 0
    Wipes = {}
INVARIANT NoMemberIsLost
CHECK_DEADLOCK FALSE
