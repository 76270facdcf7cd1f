\* Claims that overlap, or handlers that outlive their reservation.
SPECIFICATION MCSpec
CONSTANTS
    api = api
    worker = worker
    w1 = w1
    w2 = w2
    Workers = {w1, w2}
    Procs = {api, worker}
    ProcOf <- MCProcOf
    MaxJobs = 1
    Delays <- MCNoDelay
    MaxAttempts = 2
    StaleAfter = 2
    BackoffUnit = 1
    IsolatedClaims = FALSE
    TimelyWorkers = TRUE
    MaxDisruptions = 2
INVARIANTS
    NoJobLost
PROPERTIES
    EveryJobSettles
