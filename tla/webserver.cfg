SPECIFICATION ServerSpec
CONSTANTS
    r1 = r1
    r2 = r2
    w1 = w1
    w2 = w2
    Requests = {r1, r2}
    Workers = {w1, w2}
    PlanPrefix = 1
    MaxBody = 2
    IndexBody = 3
    ViewTTL = 2
    Sizes <- MCSizes
    MayFail = {w1}
INVARIANTS UploadsAreWhole
PROPERTIES ShutdownEnds
CHECK_DEADLOCK FALSE
