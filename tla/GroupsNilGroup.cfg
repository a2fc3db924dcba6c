SPECIFICATION Spec
CONSTANTS
    None = None
    Users = {"alice", "bob", "carol"}
    GroupIds = {"a"}
    Codes = {"x", ""}
    RelayKey = "relay"
    Handlers = {1, 2}
    Owner = "owner"
    Present = {"alice", "bob", "carol"}
    Submissions <- PutAndDelete
    Founded <- FoundA
    ClosedGroups = {}
    RosterKinds <- NoRosters
    Epoch = 10
    MaxTime = 10
    MaxAge = 1
    MaxEvents = 2
    MaxFails = 0
    Wipes = {}
INVARIANTS
    ProcessSurvives
CHECK_DEADLOCK FALSE
