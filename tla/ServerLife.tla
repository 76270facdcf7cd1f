----------------------------- MODULE ServerLife -----------------------------
(***************************************************************************)
(* The lives of cmd/api and cmd/worker, from LoadConfig to the end of      *)
(* main, with the registrations and welcome mails they are busy with when  *)
(* a signal, a crash or an outage comes. A worker of the database driver   *)
(* selects a row, saves it, executes the job and settles it by id; rows    *)
(* and their clock are detailed in DatabaseQueue, the channel of the       *)
(* memory driver in MemoryQueue.                                           *)
(***************************************************************************)
EXTENDS Mailer, FiniteSets

CONSTANTS
    Procs, Api,     \* the processes, and the one that serves HTTP
    Requests,       \* registrations; the job of each is named after it
    Nothing,        \* no job
    MaxTries,       \* QUEUE_MAX_ATTEMPTS
    MaxDisruptions  \* BOUND: signals, crashes, outages and hangs

ASSUME LifeAssumption ==
    /\ Api \in Procs /\ IsFiniteSet(Procs) /\ Requests = Mails
    /\ Senders = Procs \union Requests /\ Procs \intersect Requests = {}
    /\ Nothing \notin Requests /\ MaxTries \in Nat \ {0} /\ MaxDisruptions \in Nat

VARIABLES
    driver,     \* what InitQueue has chosen
    isolated,   \* whether the database serialises claims (SQLite), or not (PostgreSQL)
    migrates,   \* processes with DB_AUTO_MIGRATE
    schema,     \* whether the tables exist
    reachable,  \* servers that answer: subset of {"db", "redis"}
    stage,      \* where main is, in each process
    open,       \* what is open there: subset of {"db", "redis", "queue", "http"}
    overdue,    \* history: processes whose shutdown ran into a timeout
    request,    \* where each registration is
    phase,      \* where its job is: its row, its place in memory, or its end
    tries,      \* attempts in its row
    claim,      \* the row the worker of each process has selected and not saved
    held,       \* attempts in the worker's copy of the row
    work,       \* the job the worker executes, or Nothing
    overrun,    \* history: jobs whose reservation expired under a worker that hangs
    repeats,    \* history: executions whose mail was taken and that do not count
    disruptions

setup    == <<driver, isolated, migrates>>
server   == <<schema, reachable>>
life     == <<stage, open, overdue>>
copies   == <<claim, held, work>>
jobs     == <<phase, tries, copies, overrun, repeats>>
lifevars == <<setup, server, life, request, jobs, disruptions, mailvars>>

Phases == {"unborn", "waiting", "running", "stale", "done", "dead", "gone"}

Durable == driver = "database"

\* main has begun to stop the queue.
Late == {"stopping", "redis closed", "closed"}

\* [mutant of InitQueue] no fallback.
InitQueueStrict(name, redisEnabled) == name

\* InitQueue and the builders: what cannot be had is replaced by memory.
InitQueue(name, redisEnabled) ==
    IF name \in {"", "db", "database"} THEN "database"
    ELSE IF name = "sync" \/ (name = "redis" /\ redisEnabled) THEN name ELSE "memory"

Init ==
    /\ MailInit
    \* The Redis driver makes no such promise: see RedisQueue.
    /\ driver \in {InitQueue(name, FALSE) :
                       name \in {"", "db", "database", "memory", "sync", "redis", "unknown"}}
    /\ isolated \in BOOLEAN
    /\ migrates \in SUBSET Procs
    \* Without DB_AUTO_MIGRATE, cmd/migrate has run.
    /\ schema \in BOOLEAN /\ (Api \in migrates \/ schema)
    /\ reachable = {"db", "redis"}
    /\ stage = [p \in Procs |-> "down"]
    /\ open = [p \in Procs |-> {}]
    /\ overdue = {}
    /\ request = [r \in Requests |-> "none"]
    /\ phase = [r \in Requests |-> "unborn"]
    /\ tries = [r \in Requests |-> 0]
    /\ claim = [p \in Procs |-> Nothing] /\ held = [p \in Procs |-> 0]
    /\ work = [p \in Procs |-> Nothing]
    /\ overrun = {}
    /\ repeats = [r \in Requests |-> 0]
    /\ disruptions = 0

Disrupt == disruptions < MaxDisruptions /\ disruptions' = disruptions + 1

DbWorks(p) == "db" \in open[p] /\ "db" \in reachable

Active(r) == request[r] \in {"inserting", "dispatching", "sending"}

-----------------------------------------------------------------------------
(* The end of a process, in whatever way: its goroutines are gone.            *)

Died(p, r) == work[p] = r \/ (p = Api /\ request[r] = "sending")

\* Rows stay as they are, what is in memory does not.
PhaseAfter(p, r) ==
    IF ~Durable /\ p = Api /\ phase[r] \in {"waiting", "running"} THEN "gone" ELSE phase[r]

SenderOf(p, r) == IF work[p] = r THEN p ELSE r

Vanish(p) ==
    /\ stage' = [stage EXCEPT ![p] = "down"]
    /\ open' = [open EXCEPT ![p] = {}]
    /\ overdue' = overdue \ {p}
    /\ phase' = [r \in Requests |-> PhaseAfter(p, r)]
    /\ repeats' = [r \in Requests |->
                      IF Died(p, r) /\ delivered[SenderOf(p, r)]
                      THEN repeats[r] + 1 ELSE repeats[r]]
    /\ claim' = [claim EXCEPT ![p] = Nothing] /\ held' = [held EXCEPT ![p] = 0]
    /\ work' = [work EXCEPT ![p] = Nothing]
    /\ request' = [r \in Requests |->
                      IF p = Api /\ Active(r) THEN "killed" ELSE request[r]]
    /\ LET gone == {p} \union (IF p = Api THEN Requests ELSE {}) IN
          /\ session' = [s \in Senders |-> IF s \in gone THEN "idle" ELSE session[s]]
          /\ silent' = silent \ gone
          /\ delivered' = [s \in Senders |-> s \notin gone /\ delivered[s]]
    /\ UNCHANGED <<setup, server, tries, overrun, transport, accepted>>

-----------------------------------------------------------------------------
(* Boot. *)

Reach(p, to, opened) ==
    /\ stage' = [stage EXCEPT ![p] = to]
    /\ open' = [open EXCEPT ![p] = @ \union opened]
    /\ UNCHANGED <<setup, reachable, overdue, request, jobs, mailvars>>

\* os.Exit(1)
Fail(p) == Vanish(p)

\* [mutant of Launch] "restart: no".
LaunchOnce(p) ==
    /\ stage[p] = "down" /\ disruptions = 0
    /\ Reach(p, "database", {})
    /\ UNCHANGED <<schema, disruptions>>

\* "restart: unless-stopped", LoadConfig and InitLogger.
Launch(p) ==
    /\ stage[p] = "down"
    /\ Reach(p, "database", {})
    /\ UNCHANGED <<schema, disruptions>>

InitDB(p) ==
    /\ stage[p] = "database"
    /\ IF "db" \in reachable THEN Reach(p, "migrating", {"db"}) /\ UNCHANGED schema
                             ELSE Fail(p)
    /\ UNCHANGED disruptions

\* AutoMigrate of one process may fail where another one creates the same tables.
\* cmd/api gives up then, cmd/worker goes on with a warning.
AutoMigrate(p) ==
    /\ stage[p] = "migrating"
    /\ \/ p \notin migrates /\ Reach(p, "redis", {}) /\ UNCHANGED schema
       \/ p \in migrates /\ DbWorks(p) /\ schema' = TRUE /\ Reach(p, "redis", {})
       \/ /\ p \in migrates
          /\ ~DbWorks(p) \/ \E q \in migrates \ {p} : stage[q] = "migrating"
          /\ IF p = Api THEN Fail(p) ELSE Reach(p, "redis", {}) /\ UNCHANGED schema
    /\ UNCHANGED disruptions

\* With REDIS_ENABLED=false this cannot fail: the behaviours without an outage.
InitRedis(p) ==
    /\ stage[p] = "redis"
    /\ IF "redis" \in reachable THEN Reach(p, "queue", {"redis"}) /\ UNCHANGED schema
                                ELSE Fail(p)
    /\ UNCHANGED disruptions

\* InitQueue and Start. The worker is up, the API has still to listen.
StartQueue(p) ==
    /\ stage[p] = "queue"
    /\ Reach(p, IF p = Api THEN "listening" ELSE "up", {"queue"})
    /\ UNCHANGED <<schema, disruptions>>

Listen ==
    /\ stage[Api] = "listening"
    /\ \/ Reach(Api, "up", {"http"}) /\ UNCHANGED <<schema, disruptions>>
       \/ Fail(Api) /\ Disrupt

-----------------------------------------------------------------------------
(* Registrations. *)

Answers(r, how) == request' = [request EXCEPT ![r] = how]

Arrive(r) ==
    /\ request[r] = "none" /\ "http" \in open[Api]
    /\ Answers(r, "inserting")
    /\ UNCHANGED <<setup, server, life, jobs, disruptions, mailvars>>

\* FindByEmail, whose error is not looked at, and Create.
Insert(r) ==
    /\ request[r] = "inserting"
    /\ Answers(r, IF DbWorks(Api) /\ schema THEN "dispatching" ELSE "failed")
    /\ UNCHANGED <<setup, server, life, jobs, disruptions, mailvars>>

\* Where a job goes.
Move(r, from, to) == phase[r] = from /\ phase' = [phase EXCEPT ![r] = to]

\* A serialised claim keeps every other statement out until it commits.
TableFree == isolated => \A p \in Procs : claim[p] = Nothing

\* The error of Dispatch is dropped: the answer is 201 either way. A send on the
\* closed channel of the memory driver panics, and Recovery answers 500.
Dispatch(r) ==
    /\ request[r] = "dispatching"
    /\ \/ /\ driver = "database" /\ TableFree
          /\ IF DbWorks(Api) THEN Move(r, "unborn", "waiting") ELSE UNCHANGED phase
          /\ Answers(r, "created")
          /\ UNCHANGED mailvars
       \/ /\ driver = "memory"
          /\ IF "queue" \in open[Api]
             THEN Move(r, "unborn", "waiting") /\ Answers(r, "created")
             ELSE Answers(r, "failed") /\ UNCHANGED phase
          /\ UNCHANGED mailvars
       \/ /\ driver = "sync"
          /\ Move(r, "unborn", "running")
          /\ Compose(r)
          /\ Answers(r, "sending")
    /\ UNCHANGED <<setup, server, life, tries, copies, overrun, repeats, disruptions>>

\* Send has returned to goroutine s; its job counts as done or it does not.
Returned(s, r, counts) ==
    /\ session[s] \in {"sent", "error"}
    /\ Goes(s, "idle")
    /\ delivered' = [delivered EXCEPT ![s] = FALSE]
    /\ repeats' = IF delivered[s] /\ ~counts THEN [repeats EXCEPT ![r] = @ + 1] ELSE repeats
    /\ UNCHANGED <<transport, silent, accepted>>

\* The sync driver has executed the job in the request.
Dispatched(r) ==
    /\ request[r] = "sending"
    /\ Returned(r, r, At(r, "sent"))
    /\ Move(r, "running", IF At(r, "sent") THEN "done" ELSE "dead")
    /\ Answers(r, "created")
    /\ UNCHANGED <<setup, server, life, tries, copies, overrun, disruptions>>

-----------------------------------------------------------------------------
(* Workers. *)

Idle(p) == claim[p] = Nothing /\ work[p] = Nothing

\* The workers of the memory driver drain the channel after close(quit), until
\* main returns.
Receives(p) ==
    driver = "memory" /\ p = Api /\ ("queue" \in open[p] \/ stage[p] \in Late)

\* A worker of the memory driver takes a job from the channel.
Receive(p, r) ==
    /\ Receives(p) /\ Idle(p)
    /\ Move(r, "waiting", "running")
    /\ work' = [work EXCEPT ![p] = r]
    /\ Compose(p)
    /\ UNCHANGED <<setup, server, life, request, tries, claim, held, overrun, repeats,
                   disruptions>>

\* [mutant of Select] rows in processing are found at once, not when they are stale.
SelectAnyway(p, r) ==
    /\ Durable /\ "queue" \in open[p] /\ DbWorks(p) /\ schema /\ Idle(p)
    /\ TableFree
    /\ phase[r] \in {"waiting", "running", "stale"}
    /\ claim' = [claim EXCEPT ![p] = r]
    /\ held' = [held EXCEPT ![p] = tries[r] + 1]
    /\ UNCHANGED <<setup, server, life, request, phase, tries, work, overrun, repeats,
                   disruptions, mailvars>>

\* The SELECT of the claim transaction: a pending row, or a stale reservation.
\* It is one step with the look at quit before it, since only the worker itself
\* could tell whether a close(quit) came in between.
Select(p, r) ==
    /\ Durable /\ "queue" \in open[p] /\ DbWorks(p) /\ schema /\ Idle(p)
    /\ TableFree
    /\ phase[r] \in {"waiting", "stale"}
    /\ claim' = [claim EXCEPT ![p] = r]
    /\ held' = [held EXCEPT ![p] = tries[r] + 1]
    /\ UNCHANGED <<setup, server, life, request, phase, tries, work, overrun, repeats,
                   disruptions, mailvars>>

\* tx.Save and COMMIT, whatever the row is by now: a deleted one is inserted again,
\* and the execution that deleted it does not count any more. ExecuteJob begins.
SaveClaim(p) ==
    LET r == claim[p] IN
    /\ r # Nothing /\ DbWorks(p)
    /\ phase' = [phase EXCEPT ![r] = "running"]
    /\ tries' = [tries EXCEPT ![r] = held[p]]
    /\ repeats' = IF phase[r] = "done" /\ transport = "smtp"
                  THEN [repeats EXCEPT ![r] = @ + 1] ELSE repeats
    /\ claim' = [claim EXCEPT ![p] = Nothing]
    /\ work' = [work EXCEPT ![p] = r]
    /\ Compose(p)
    /\ UNCHANGED <<setup, server, life, request, held, overrun, disruptions>>

\* The transaction fails.
ClaimError(p) ==
    /\ claim[p] # Nothing /\ ~DbWorks(p)
    /\ claim' = [claim EXCEPT ![p] = Nothing]
    /\ held' = [held EXCEPT ![p] = 0]
    /\ UNCHANGED <<setup, server, life, request, phase, tries, work, overrun, repeats,
                   disruptions, mailvars>>

\* The DELETE or UPDATE by id: no row, nothing to write.
SettleRow(p, r) ==
    /\ TableFree
    /\ IF phase[r] = "done" THEN UNCHANGED <<phase, tries>>
       ELSE IF At(p, "sent")
       THEN /\ phase' = [phase EXCEPT ![r] = "done"]
            /\ tries' = [tries EXCEPT ![r] = 0]
       ELSE /\ phase' = [phase EXCEPT ![r] = IF held[p] < MaxTries THEN "waiting" ELSE "dead"]
            /\ UNCHANGED tries

\* What becomes of the job once Send has returned, be it after its reservation.
\* Without the database its row stays in processing. The memory driver tries once.
Settle(p) ==
    LET r == work[p] IN
    /\ r # Nothing
    /\ \/ Durable /\ DbWorks(p) /\ SettleRow(p, r)
       \/ Durable /\ ~DbWorks(p) /\ UNCHANGED <<phase, tries>>
       \/ /\ ~Durable /\ UNCHANGED tries
          /\ phase' = [phase EXCEPT ![r] = IF At(p, "sent") THEN "done" ELSE "dead"]
    /\ Returned(p, r, phase[r] # "done" /\ phase'[r] = "done")
    /\ work' = [work EXCEPT ![p] = Nothing]
    /\ held' = [held EXCEPT ![p] = 0]
    /\ UNCHANGED <<setup, server, life, request, claim, overrun, disruptions>>

Holders(r) == {p \in Procs : work[p] = r}

\* [mutant of GoStale] rows in processing are never looked at again.
GoStaleNever(r) == FALSE /\ UNCHANGED lifevars

\* Ten minutes after the last claim of a row, nobody has settled it: its workers
\* are gone, or hang and still have the job.
GoStale(r) ==
    /\ Durable /\ Holders(r) \subseteq silent
    /\ Move(r, "running", "stale")
    /\ overrun' = IF Holders(r) = {} THEN overrun ELSE overrun \union {r}
    /\ UNCHANGED <<setup, server, life, request, tries, copies, repeats, disruptions,
                   mailvars>>

\* Goroutine s sends the mail of job r: a worker, or a request with the sync driver.
Carries(s, r) ==
    (s \in Procs /\ work[s] = r) \/ (s = r /\ request[r] = "sending")

Send(s, r) ==
    /\ Carries(s, r) /\ SendStep(s, r)
    /\ UNCHANGED <<setup, server, life, request, jobs, disruptions>>

\* Its server falls silent, or is heard of again.
Interrupt(s, r) ==
    /\ Carries(s, r)
    /\ (Hang(s) /\ Disrupt) \/ (Wake(s) /\ UNCHANGED disruptions)
    /\ UNCHANGED <<setup, server, life, request, jobs>>

-----------------------------------------------------------------------------
(* Shutdown. *)

Close(p, to, closed) ==
    /\ stage' = [stage EXCEPT ![p] = to]
    /\ open' = [open EXCEPT ![p] = @ \ closed]
    /\ UNCHANGED <<setup, server, request, jobs, disruptions, mailvars>>

\* SIGTERM. Before signal.Notify it kills; afterwards main wakes up: the API
\* calls Shutdown, which stops listening, the worker goes straight to Stop.
Terminate(p) ==
    /\ stage[p] # "down"
    /\ Disrupt
    /\ IF stage[p] = "up"
       THEN /\ stage' = [stage EXCEPT ![p] = IF p = Api THEN "draining" ELSE "stopping"]
            /\ open' = [open EXCEPT ![p] = @ \ (IF p = Api THEN {"http"} ELSE {"queue"})]
            /\ UNCHANGED <<setup, server, overdue, request, jobs, mailvars>>
       ELSE stage[p] \notin {"draining", "stopping", "redis closed", "closed"} /\ Vanish(p)

\* [mutant of Drained] Close instead of Shutdown.
DrainedAtOnce ==
    /\ stage[Api] = "draining"
    /\ Close(Api, "stopping", {"queue"})
    /\ UNCHANGED overdue

\* Shutdown returns when no request is left, or after 10 s.
Drained ==
    /\ stage[Api] = "draining" /\ \A r \in Requests : ~Active(r)
    /\ Close(Api, "stopping", {"queue"})
    /\ UNCHANGED overdue

DrainTimeout ==
    /\ stage[Api] = "draining" /\ \E r \in Requests : Active(r)
    /\ Close(Api, "stopping", {"queue"})
    /\ overdue' = overdue \union {Api}

Buffered == driver = "memory" /\ \E r \in Requests : phase[r] = "waiting"

\* [mutant of Stopped] Stop does not wait for its workers.
StoppedAtOnce(p) ==
    /\ stage[p] = "stopping"
    /\ Close(p, "redis closed", {"redis"})
    /\ UNCHANGED overdue

\* Stop returns when its workers have, or after 5 s (15 s for cmd/worker). Redis
\* is closed next.
Stopped(p) ==
    /\ stage[p] = "stopping"
    /\ Idle(p) /\ ~(p = Api /\ Buffered)
    /\ Close(p, "redis closed", {"redis"})
    /\ UNCHANGED overdue

\* [mutant of StopTimeout] no timeout.
StopTimeoutNever(p) == FALSE /\ overdue' = overdue \union {p}

StopTimeout(p) ==
    /\ stage[p] = "stopping"
    /\ ~Idle(p) \/ (p = Api /\ Buffered)
    /\ Close(p, "redis closed", {"redis"})
    /\ overdue' = overdue \union {p}

CloseDB(p) ==
    /\ stage[p] = "redis closed"
    /\ Close(p, "closed", {"db"})
    /\ UNCHANGED overdue

\* main returns.
Exit(p) == stage[p] = "closed" /\ Vanish(p) /\ UNCHANGED disruptions

\* SIGKILL, or a panic that nothing recovers.
Crash(p) == stage[p] # "down" /\ Vanish(p) /\ Disrupt

Outage ==
    /\ Disrupt
    /\ \E s \in reachable : reachable' = reachable \ {s}
    /\ UNCHANGED <<setup, schema, life, request, jobs, mailvars>>

Recover ==
    /\ reachable # {"db", "redis"}
    /\ reachable' = {"db", "redis"}
    /\ UNCHANGED <<setup, schema, life, request, jobs, disruptions, mailvars>>

-----------------------------------------------------------------------------
Boot(p) ==
    \/ Launch(p) \/ InitDB(p) \/ AutoMigrate(p) \/ InitRedis(p) \/ StartQueue(p)
    \/ p = Api /\ Listen

Shutdown(p) ==
    \/ p = Api /\ (Drained \/ DrainTimeout)
    \/ Stopped(p) \/ StopTimeout(p) \/ CloseDB(p) \/ Exit(p)

Take(p, r) ==
    \/ Receive(p, r) \/ Select(p, r)
    \/ claim[p] = r /\ (SaveClaim(p) \/ ClaimError(p))

Handle(r) == Insert(r) \/ Dispatch(r) \/ Dispatched(r)

Next ==
    \/ \E p \in Procs :
          \/ Boot(p) \/ Shutdown(p) \/ Terminate(p) \/ Crash(p)
          \/ Settle(p)
          \/ \E r \in Requests : Take(p, r)
    \/ \E r \in Requests :
          \/ Arrive(r) \/ Handle(r) \/ GoStale(r)
          \/ \E s \in Senders : Send(s, r) \/ Interrupt(s, r)
    \/ Outage \/ Recover

Spec == Init /\ [][Next]_lifevars

\* Containers restart, outages end, goroutines run, timers fire, and a mail
\* server that has not fallen silent answers. Nobody has to register, and a silent
\* server need not be heard of again.
Fairness ==
    /\ \A p \in Procs :
          /\ WF_lifevars(Boot(p))
          /\ WF_lifevars(Shutdown(p))
          /\ WF_lifevars(Settle(p))
          /\ WF_lifevars(\E r \in Requests : Take(p, r))
    /\ \A r \in Requests : WF_lifevars(Handle(r)) /\ WF_lifevars(GoStale(r))
    /\ \A s \in Senders : WF_lifevars(\E r \in Requests : Send(s, r))
    /\ WF_lifevars(Recover)

FairSpec == Spec /\ Fairness

-----------------------------------------------------------------------------
\* The state is well-formed.
TypeOK ==
    /\ MailTypeOK
    /\ driver \in {"database", "memory", "sync"}
    /\ isolated \in BOOLEAN /\ migrates \subseteq Procs
    /\ schema \in BOOLEAN /\ reachable \subseteq {"db", "redis"}
    /\ stage \in [Procs -> {"down", "database", "migrating", "redis", "queue", "listening",
                            "up", "draining", "stopping", "redis closed", "closed"}]
    /\ open \in [Procs -> SUBSET {"db", "redis", "queue", "http"}]
    /\ overdue \subseteq Procs
    /\ request \in [Requests -> {"none", "inserting", "dispatching", "sending",
                                 "created", "failed", "killed"}]
    /\ phase \in [Requests -> Phases]
    /\ tries \in [Requests -> Nat] /\ repeats \in [Requests -> Nat]
    /\ claim \in [Procs -> Requests \union {Nothing}] /\ held \in [Procs -> Nat]
    /\ work \in [Procs -> Requests \union {Nothing}] /\ overrun \subseteq Requests

\* "shutting down gracefully": as long as no timeout is hit, no request meets a
\* stopped queue, and no request or worker a closed connection.
ShutdownInOrder ==
    /\ \A p \in Procs \ overdue :
          ~Idle(p) => {"db", "redis"} \subseteq open[p]
    /\ Api \notin overdue =>
          \A r \in Requests : Active(r) => {"db", "redis", "queue"} \subseteq open[Api]

\* A process that ends without a timeout ends nobody's work.
CleanExitLosesNothing ==
    \A p \in Procs \ overdue : stage[p] = "closed" =>
        /\ Idle(p)
        /\ p = Api => (\A r \in Requests : ~Active(r)) /\ ~Buffered

\* Goroutines that have not returned yet, and whose mail of job r was taken.
Mailing(r) == {s \in Senders : Carries(s, r) /\ delivered[s]}

Balanced(r) ==
    accepted[r] = repeats[r] + Cardinality(Mailing(r))
                  + (IF phase[r] = "done" /\ transport = "smtp" THEN 1 ELSE 0)

\* Every mail the server took is the one a done job stands for, or due to an
\* execution that did not count although its mail was taken, or still in a session:
\* a job is done only if its mail was taken, and is mailed again only after a mail
\* whose outcome was lost, late or overwritten.
DoneMeansDelivered == \A r \in Requests : Balanced(r)

\* "atomically claims and executes": two workers execute a job only where the
\* database does not serialise claims, or after its reservation expired under a
\* worker that hangs.
OneWorkerPerJob ==
    \A p, q \in Procs :
        p # q /\ work[p] # Nothing /\ work[p] = work[q]
            => Durable /\ (isolated => work[p] \in overrun)

\* A process on its way up arrives, whatever happens to it on the way: it may
\* have to be restarted.
ComesUp == \A p \in Procs : stage[p] = "down" ~> stage[p] = "up"

\* A signal ends a process, whoever hangs.
ShutdownEnds == \A p \in Procs : stage[p] \in {"draining", "stopping"} ~> stage[p] = "down"

Stuck == IF Durable THEN Procs \subseteq silent ELSE Api \in silent

\* A welcome mail that was queued is sent or given up, through the ends of the
\* processes, unless they end the queue as well or silent servers hold every
\* worker.
QueuedIsSettled ==
    \A r \in Requests :
        phase[r] \in {"waiting", "running", "stale"} /\ driver # "sync"
            ~> phase[r] \in {"done", "dead", "gone"} \/ Stuck

-----------------------------------------------------------------------------
(* Why nothing is closed that is in use: the inductive invariant behind       *)
(* ShutdownInOrder, CleanExitLosesNothing and OneWorkerPerJob.                *)

\* What a process has open where its main is.
OpenAt(p) ==
    CASE stage[p] \in {"down", "database", "closed"}          -> {}
      [] stage[p] \in {"migrating", "redis", "redis closed"}  -> {"db"}
      [] stage[p] \in {"queue", "stopping"}                   -> {"db", "redis"}
      [] stage[p] = "up" /\ p = Api                    -> {"db", "redis", "queue", "http"}
      [] OTHER                                         -> {"db", "redis", "queue"}

\* main opens and closes in the order of its stages, and only the API listens.
OpenAsStaged ==
    \A p \in Procs :
        /\ open[p] = OpenAt(p)
        /\ stage[p] \in {"listening", "draining"} => p = Api
        /\ p \in overdue => stage[p] \in Late

\* Requests are under way while the API serves, or after a drain that timed out;
\* workers have jobs while their queue runs, or after a Stop that timed out; the
\* channel is empty after one that did not.
WorkWhileServed ==
    /\ Api \notin overdue =>
          /\ \A r \in Requests : Active(r) => stage[Api] \in {"up", "draining"}
          /\ stage[Api] \in {"redis closed", "closed"} => ~Buffered
    /\ \A p \in Procs \ overdue :
          ~Idle(p) => stage[p] \in {"listening", "up", "draining", "stopping"}

\* Jobs in memory are the business of the API; with the sync driver no worker has
\* a job, and only there a request sends a mail.
DriverKeepsJobs ==
    /\ \A p \in Procs :
          /\ claim[p] # Nothing => Durable
          /\ work[p] # Nothing => Durable \/ (driver = "memory" /\ p = Api)
    /\ \A r \in Requests : request[r] = "sending" => driver = "sync"

\* Where claims are serialised one claim is open at a time, of a row that is there
\* to be claimed, and a job whose reservation did not expire under its worker has
\* one worker and its row says so.
ClaimsAgree ==
    Durable /\ isolated =>
        /\ \A p, q \in Procs : claim[p] # Nothing /\ claim[q] # Nothing => p = q
        /\ \A p \in Procs : claim[p] # Nothing => phase[claim[p]] \in {"waiting", "stale"}
        /\ \A p \in Procs : work[p] \in Requests \ overrun =>
              /\ phase[work[p]] = "running"
              /\ \A q \in Procs : work[q] = work[p] => p = q

LifeInv == OpenAsStaged /\ WorkWhileServed /\ DriverKeepsJobs /\ ClaimsAgree

\* Send says that a mail was sent only if the server has taken it, and the server
\* has taken it only if Send got that far.
SenderAgrees(s) ==
    /\ session[s] \in {"open", "sending", "taken"} => transport = "smtp"
    /\ session[s] \in {"taken", "sent"} /\ transport = "smtp" => delivered[s]
    /\ delivered[s] => session[s] \in {"taken", "sent", "error"} /\ transport = "smtp"

\* Outside the table a job is in one goroutine at most, and running there.
SendersAgree ==
    /\ \A s \in Senders : SenderAgrees(s)
    /\ \A r \in Requests : request[r] = "sending" => phase[r] = "running"
    /\ ~Durable => \A p \in Procs : work[p] # Nothing => phase[work[p]] = "running"

MailInv == SendersAgree /\ DoneMeansDelivered
=============================================================================
