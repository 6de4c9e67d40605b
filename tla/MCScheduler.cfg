SPECIFICATION Spec
CONSTANTS
    S = 2
    Initial <- MCInitial
    NoRow = NoRow
    MaxTime = 2
    MaxEdits = 2
    MaxCrashes = 1
    MaxFaults = 1
INVARIANT FiredOnce
PROPERTIES NoCatchUp DueIsHandled
CHECK_DEADLOCK FALSE
