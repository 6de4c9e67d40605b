\* Two Plex jobs in a row.
CONSTANTS
    j1 = j1
    j2 = j2
    Jobs = {j1, j2}
    Stoppers = {t1}
    Workers = {w1}
    HistoryMax = 2
    NoJob = NoJob
    NoThread = NoThread
    NoEvent = NoEvent
    Plan <- PlexJobs
    Items = 1
SPECIFICATION StopSpec
INVARIANT CompletedDidEverything
