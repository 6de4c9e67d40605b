\* A Replace with its safety belt, and an adapter job.
CONSTANTS
    j1 = j1
    j2 = j2
    Jobs = {j1, j2}
    Stoppers = {t1}
    Workers = {w1}
    HistoryMax = 2
    NoJob = NoJob
    NoThread = NoThread
    NoEvent = NoEvent
    Plan <- ReplaceJobs
    Items = 2
SPECIFICATION StopSpec
INVARIANT RecordFlagCancels
PROPERTY RecordFlagHalts
