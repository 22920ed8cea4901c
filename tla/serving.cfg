SPECIFICATION ServingSpec
CONSTANTS
    None = None
    i1 = i1
    i2 = i2
    path = path
    canonical = canonical
    m1 = m1
    w1 = w1
    w2 = w2
    r1 = r1
    a1 = a1
    Ids = {i1, i2}
    Records = {}
    Agents = {}
    Locs = {path}
    Canon <- MCCanon
    Aliases <- MCAliases
    Moderators = {m1}
    Workers = {w1, w2}
    Ops = {"block", "unblock", "index", "force", "propagate", "respond", "purge", "purge_all", "purge_duplicates"}
    MayFail = {}
INVARIANTS RowsAreSearchable
PROPERTIES KeepsPromise
SYMMETRY MCSymmetry
