\* The memory driver and the legacy pool, started, used and stopped.
SPECIFICATION MCSpec
CONSTANTS
    NoJob = NoJob
    j1 = j1
    j2 = j2
    j3 = j3
    j4 = j4
    Workers = {w1, w2}
    Jobs <- MCJobs
    DelayedJobs <- MCDelayedJobs
    QueueSize = 2
INVARIANTS
    TypeOK
    CleanStopDrains
    PoolPanicsOnlyRestarted
PROPERTIES
    BufferedIsExecuted
    StopReturns
    ImplementsSingleTry
