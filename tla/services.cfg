SPECIFICATION Spec
CONSTANTS
    p1 = p1
    p2 = p2
    t1 = t1
    t2 = t2
    c1 = c1
    None = None
    Pids = {p1, p2}
    Threads = {t1, t2}
    Commands = {c1}
    MaxMishaps = 1
    Kinds <- MCKinds
    MaxCalls = 2
INVARIANTS StopEndsAll OneListener SearchSeesDaemon
PROPERTIES CallsReturn
CHECK_DEADLOCK FALSE
