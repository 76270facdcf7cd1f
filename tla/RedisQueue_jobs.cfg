\* Two jobs, a shutdown and two faults; the worker container allows one attempt.
SPECIFICATION FairSpec
CONSTANTS
    api = api
    worker = worker
    w1 = w1
    w2 = w2
    NoJob = NoJob
    Workers = {w1, w2}
    Procs = {api, worker}
    ProcOf <- MCProcOf
    Jobs = {j1, j2}
    MaxAttempts <- MCMaxAttempts
    CountTo = 1
    MaxStops = 1
    MaxFaults = 2
INVARIANTS
    QueueInv
PROPERTIES
    ImplementsVolatile
    AcceptedIsExecuted
