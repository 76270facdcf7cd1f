\* A job whose handler fails, and nothing else goes wrong.
SPECIFICATION Spec
CONSTANTS
    api = api
    worker = worker
    w1 = w1
    w2 = w2
    NoJob = NoJob
    Workers = {w1, w2}
    Procs = {api, worker}
    ProcOf <- MCProcOf
    Jobs = {j1}
    MaxAttempts <- MCMaxAttempts
    CountTo = 3
    MaxStops = 0
    MaxFaults = 0
INVARIANTS
    ExecutionsWithinMax
