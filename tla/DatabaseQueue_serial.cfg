\* SQLite: claims are serialised, handlers return in time.
SPECIFICATION MCSpec
CONSTANTS
    api = api
    worker = worker
    w1 = w1
    w2 = w2
    Workers = {w1, w2}
    Procs = {api, worker}
    ProcOf <- MCProcOf
    MaxJobs = 2
    Delays <- MCDelays
    MaxAttempts = 2
    StaleAfter = 2
    BackoffUnit = 1
    IsolatedClaims = TRUE
    TimelyWorkers = TRUE
    MaxDisruptions = 3
INVARIANTS
    TypeOK
    ReservationInv
    AccountingInv
PROPERTIES
    SettledIsFinal
    ImplementsLifecycle
    EveryJobSettles
