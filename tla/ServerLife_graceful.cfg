\* Boot, registrations, mails, signals, crashes and outages.
SPECIFICATION MCSpec
CONSTANTS
    api = api
    worker = worker
    q1 = q1
    q2 = q2
    Procs = {api, worker}
    Api = api
    Requests = {q1, q2}
    Mails = {q1, q2}
    Senders = {api, worker, q1, q2}
    Nothing = Nothing
    MaxTries = 2
    MaxDisruptions = 2
INVARIANTS
    TypeOK
    ShutdownInOrder
    CleanExitLosesNothing
    DoneMeansDelivered
    OneWorkerPerJob
PROPERTIES
    ComesUp
    ShutdownEnds
    QueuedIsSettled
CHECK_DEADLOCK FALSE
