SPECIFICATION NamesSpec
CONSTANTS
    i1 = i1
    l1 = l1
    r1 = r1
    a1 = a1
    p = p
    m = m
    None = None
    Ids = {i1}
    Records = {r1}
    Agents = {a1}
    Locs = {l1}
    Canon <- MCCanon
    Aliases <- MCAliases
    Moderators = {m}
    Workers = {}
    Ops = {"block", "block_other", "unblock"}
    MayFail = {}
    Askers = {p}
    Kind <- MCKind
    Authored = {r1}
    Target <- MCTarget
    Returns <- MCReturns
    MayMisread = {p}
INVARIANTS ServedIsOpen CachedIsOpen NetworkHitsAreOpen
