SPECIFICATION FairSpec
CONSTANTS
    t1 = t1
    t2 = t2
    t3 = t3
    none = none
    Tasks = {t1, t2, t3}
    NoTask = none
    MaxLeaks = 1
PROPERTY NoWedgeWithoutLeak
CHECK_DEADLOCK FALSE
