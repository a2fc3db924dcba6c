SPECIFICATION Spec
CONSTANTS
    None = None
    Users = {"alice", "bob", "carol"}
    GroupIds = {"a", "b"}
    Codes = {"x", ""}
    RelayKey = "relay"
    Handlers = {h1, h2}
    Owner = "owner"
    Present = {"alice", "bob", "carol"}
    Submissions <- GroupMessages
    Founded <- FoundA
    ClosedGroups = {"a"}
    RosterKinds <- MembersRoster
    Epoch = 10
    MaxTime = 11
    MaxAge = 1
    MaxEvents = 3
    MaxFails = 1
    Wipes = {"a"}
SYMMETRY Alike
CONSTRAINT Timely
INVARIANTS
    TypeOK
    MembersAreRecorded
    RolesTraceToAuthority
    PublishedPeopleWerePut
    FreshestRosterLands
    InvitesAreSpent
    StoredMembersAreInMemory
    WipedLeavesNothing
    
CHECK_DEADLOCK FALSE
