SPECIFICATION ResultsSpec
CONSTANTS
    h1 = h1
    h2 = h2
    l1 = l1
    l2 = l2
    Hits = {h1, h2}
    Foreign = {h1}
    Web = {h2}
    Links = {l1, l2}
    MaxSearches = 2
    MaxRuns = 2
    MaxDrops = 1
INVARIANTS PendingIsShown
PROPERTIES IndexYields
CHECK_DEADLOCK FALSE
