SPECIFICATION StoresSpec
CONSTANTS
    u1 = u1
    u2 = u2
    b1 = b1
    b2 = b2
    h1 = h1
    h2 = h2
    sa = sa
    sb = sb
    la = la
    lb = lb
    ka = ka
    kb = kb
    ga = ga
    gb = gb
    gc = gc
    Nil = Nil
    Users <- MCUsers
    Browsers <- MCBrowsers
    Handlers <- MCHandlers
    InitialRoles <- MCInitialRoles
    MaxTokens = 3
    MaxRequests = 4
    Keep = 1
    SameMinute = FALSE
    MaxCaptures = 2
    MaxEvents = 2
    Servers <- MCServers
    Libraries <- MCLibraries
    Keys <- MCKeys
    ServerOf <- MCServerOf
    LibOf <- MCLibOf
    Priority <- MCPriority
    Guids <- MCGuids
    FilmOf <- MCFilmOf
    World0 <- MCWorld0
    Age = 0
    MaxTime = 1
    Budgets <- MCBudgets
SYMMETRY Twins
INVARIANTS OneLivePerLogin RevocationIsFinal CaptureSurvives DeletedStaysDeleted CacheNeverMisleads
PROPERTIES RecoveryFindsAll VouchedHistoryStays
CHECK_DEADLOCK FALSE
