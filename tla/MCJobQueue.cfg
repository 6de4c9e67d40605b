\* Two jobs, two stop requests and two would-be workers, under fair threads.
CONSTANTS
    Jobs = {j1, j2}
    Stoppers = {t1, t2}
    Workers = {w1, w2}
    HistoryMax = 1
    NoJob = NoJob
    NoThread = NoThread
SPECIFICATION Spec
INVARIANT SingleWriter
PROPERTIES ClearedNeverRuns StopMidRunCancels ImplementsLedger
