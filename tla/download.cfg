SPECIFICATION IngestSpec
CONSTANTS
    None = None
    c1 = c1
    c2 = c2
    Chunks = {c1, c2}
    Callers = {"page", "route", "index", "command"}
    Places = {"none", "home"}
    MaxLines = 3
    MaxChanges = 1
    MaxManifestEntries = 3
    MaxStoredManifestEntries = 2
    EmbedWindowChars = 64
    Cases <- MCCases
INVARIANTS ProgressIsTrue DetectionAgrees OneTypePerRecord PlanIsCautious ListingIsHonest
CHECK_DEADLOCK FALSE
