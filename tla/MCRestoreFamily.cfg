SPECIFICATION FamilySpec
CONSTANTS
    ow = ow
    mu = mu
    l1 = l1
    l2 = l2
    l3 = l3
    i1 = i1
    i2 = i2
    i3 = i3
    i4 = i4
    pa = pa
    pb = pb
    vi = vi
    A = A
    B = B
    C = C
    pr = pr
    Skip = Skip
    Nowhere = Nowhere
    dO = dO
    dA = dA
    dB = dB
    sm = sm
    pz = pz
    ca = ca
    cz = cz
    X = X
    Y = Y
    Z = Z
    ann = ann
    bob = bob
    None = None
    t1 = t1
    t2 = t2
    Users <- MCUsers
    Owner = ow
    Libraries <- MCLibraries
    LibOf <- MCLibOf
    Family <- MCFamily
    ByPath = {i3}
    Titles <- MCTitles
    Jobs <- MCJobs
    Boxes0 <- MCBoxes0
    Views0 <- MCViews0
    Ratings0 <- MCRatings0
    Cap = 2
    MaxBoxes = 9
    MaxFaults = 1
    MaxRuns = 2
    PlexOwner = ow
    Sharers <- MCSharers
    SrcLibs <- MCSrcLibs
    PlexLibs <- MCPlexLibs
    Src <- TSrc
    Dst0 <- TDst
    Transfers <- TJobs
    MaxFailures = 3
    SrcOwner = ow
    SrcUsers <- MCSrcUsers
    DstOwner = dO
    DstUsers <- MCDstUsers
    Libs <- MCLibs
    LibraryOf <- MCLibraryOf
    Audio = {i3}
    Known <- MCKnown
    DstLibs <- MCDstLibs
    History <- AHistory
    Lists <- ALists
    Collections <- ACollections
    Plays0 <- AViews
    Containers0 <- ABoxes
    Replays <- AJobs
    MaxRefusals = 1
    Logins <- MCLogins
    Servers <- MCServers
    ServerOf <- IServerOf
    Service <- IService
    Account <- IAccount
    NameOf <- IName
    Owners = {1}
    Synced <- MCLogins
    Slugs = {1, 2}
    Threads = {t1, t2}
    Backfill = TRUE
    Strict = FALSE
    MaxOps = 3
SYMMETRY Twins
INVARIANTS ReplaceEndsEqual RerunChangesNothing FallbackCompletes AdapterLands
    PinStaysInFamily RestoreFindsFamily
PROPERTIES MergeOnlyAdds SweepsSpareRestored TornHistoryNeverLands
CHECK_DEADLOCK FALSE
