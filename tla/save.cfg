SPECIFICATION Spec
CONSTANTS
    s1 = s1
    s2 = s2
    Saves = {s1, s2}
    Rows = {s2}
    Chunks = 2
    MaxDeaths = 1
INVARIANTS SavedIsWhole OneChunkInFlight RefusedOnlyIfRealmLost
PROPERTIES SavesEnd
CHECK_DEADLOCK FALSE
