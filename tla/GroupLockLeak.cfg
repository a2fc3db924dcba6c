SPECIFICATION FairSpec
CONSTANTS
    t1 = t1
    t2 = t2
    none = none
    Tasks = {t1, t2}
    NoTask = none
    MaxLeaks = 1
PROPERTY TasksFinish
CHECK_DEADLOCK FALSE
