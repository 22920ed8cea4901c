SPECIFICATION StartersSpec
CONSTANTS
    None = None
    c1 = c1
    c2 = c2
    c3 = c3
    s1 = s1
    s2 = s2
    Conns = {c1, c2, c3}
    Last = 2
    Attempts = 2
    MayDie = {c1}
    MayTimeOut = {c2}
    Starters = {s1}
    Servers = {c1, c2}
    Others = {c3}
    MaxBoots = 1
INVARIANTS ExactlyOnce SeededIsWhole
PROPERTIES OpenReturns LandsWhereThereIsRoom
CHECK_DEADLOCK FALSE
