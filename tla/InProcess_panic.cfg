\* A job dispatched while the memory driver stops, or after.
SPECIFICATION MCSpec
CONSTANTS
    NoJob = NoJob
    j1 = j1
    j2 = j2
    j3 = j3
    j4 = j4
    Workers = {w1}
    Jobs = {j1, j2, j3}
    DelayedJobs = {j3}
    QueueSize = 2
INVARIANTS
    NoCallerPanics
