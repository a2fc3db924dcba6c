SPECIFICATION FairSpec
CONSTANTS
    w1 = w1
    w2 = w2
    run = run
    other = other
    reset = reset
    Workers = {w1, w2}
    MaxDepth = 2
    Closers = {run, other}
    Owner = run
    Resetters = {reset}
INVARIANTS
    TypeOK
    NoGuardedUseAfterUnmap
    DrainedClosedOnce
    CloseNilMeansDrained
    AtMostOneLateRow
PROPERTIES
    SealedGateDrains
    ImplementsLife
