SPECIFICATION Spec
CONSTANTS
    r1 = r1
    r2 = r2
    Rows = {r1, r2}
    Doomed = {r1}
    MaxPlays = 2
INVARIANTS ReadersAreOwned OneConsumer PlayingIsAwake
PROPERTIES BytesStop
CHECK_DEADLOCK FALSE
