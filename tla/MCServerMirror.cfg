SPECIFICATION CachesSpec
CONSTANTS
    s = s
    a = a
    b = b
    op = op
    warm = warm
    Sections = {s}
    Keys = {a, b}
    Home <- MCHome
    Live0 <- MCLive
    Operators = {op}
    Warmers = {warm}
    Margin = 1
    Tolerance = 0
    WriteThroughAlways = FALSE
    MaxClock = 2
    MaxFaults = 1
    MaxEvents = 2
    Users = {"tagged", "untagged"}
    Playlists = {"mix", "new"}
    Tagged = {"tagged"}
    WithId = {"untagged"}
    Callers = {1, 2}
    Lists0 <- MCLists
    MaxCalls = 2
    MaxEdits = 1
    MaxLost = 1
    Collections = {1}
    Readers = {1, 2}
    MaxReadings = 3
    MaxChanges = 1
    MaxFailed = 1
INVARIANTS WatermarkCovers ServedIsOneListing HitIsCurrent
PROPERTY ClaimsEnd
CHECK_DEADLOCK FALSE
