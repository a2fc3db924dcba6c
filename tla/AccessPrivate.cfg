SPECIFICATION Spec
CONSTANTS
    Users = {"alice", "bob", "carol"}
    GroupIds = {"a"}
    Conns = {"c"}
    NoGroup = "-"
    Events <- SomeEvents
    Stored <- SomeStored
    Filters <- SomeFilters
    MaxSearched = 5
    MaxAuthenticatedClients = 2
    Founder = "alice"
    MaxAuths = 3
    MaxRequests = 1
    MaxChanges = 2
INVARIANTS
    PrivateContentForMembers
CHECK_DEADLOCK FALSE
