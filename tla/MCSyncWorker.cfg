SPECIFICATION SyncSpec
CONSTANTS
    Pairs <- OnePair
    Kind <- PlexPlex
    Configs <- Settings
    MaxPairsPerCycle = 1
    MaxPlays = 2
    MaxErrors = 1
    MaxEdits = 1
    MaxRunNow = 1
    MaxCrashes = 1
    MaxEvents = 4
PROPERTIES MaxKeepsPlays Settles
CHECK_DEADLOCK FALSE
