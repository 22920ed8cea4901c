SPECIFICATION OrderlySpec
CONSTANTS
    None = None
    i1 = i1
    i2 = i2
    path = path
    canonical = canonical
    other = other
    m1 = m1
    m2 = m2
    w1 = w1
    r1 = r1
    a1 = a1
    Ids = {i1, i2}
    Records = {r1}
    Agents = {a1}
    Locs = {path, canonical}
    Canon <- MCCanon
    Aliases <- MCAliases
    Moderators = {m1}
    Workers = {w1}
    Ops = {"block", "unblock", "clear_kind", "clear_all", "fetch", "block_other", "name",
           "purge", "propagate"}
    MayFail = {m1}
INVARIANTS TypeOK NoOrphanRefusal RefusalHolds
