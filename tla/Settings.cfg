SPECIFICATION Spec
CONSTANTS
    Users = {"alice", "bob"}
    Checks = {1}
    Wraps <- SomeWraps
    Nobody = "nobody"
    MaxCached = 1
    MaxChecks = 2
    Posts = {1, 2}
    Forms <- SomeForms
    FirstFiles <- SomeFiles
    Missing = Missing
    Torn = Torn
    Keep = Keep
    Bad = Bad
    MaxPosts = 2
    MaxFaults = 1
INVARIANTS
    KeyIsKept
    SettingsAgree
    AcknowledgedSurvives
    WrapSendersWereFound
CHECK_DEADLOCK FALSE
