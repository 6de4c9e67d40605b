SPECIFICATION Spec
CONSTANTS
    src = src
    sync = sync
    x = x
    y = y
    z = z
    Batch <- MCBatch
    Syncs = {sync}
    Source <- MCSource
    Key <- MCKey
    Members <- MCMembers
    Known = {x, y}
    Kinds <- MCKinds
    Workers = 2
    Depth = 1
    MaxFaults = 1
    MaxCycles = 1
INVARIANTS SlotsAccounted NoPartialList
PROPERTY BatchEnds
