SPECIFICATION Spec
CONSTANTS
    None = None
    p1 = p1
    p2 = p2
    Pages = {p1, p2}
    MaxEvents = 2
    Retain = 2
    ViewTtl = 1
    Reports = 2
    MayPanic = {p1}
    MayLeave = {p2}
INVARIANTS EachEventOnce VerdictIsTrue
PROPERTIES PageStops
CHECK_DEADLOCK FALSE
