---------------------------- MODULE DatabaseQueue ----------------------------
(***************************************************************************)
(* The database driver of pkg/queue (driver_database.go): the rows of the  *)
(* table "jobs", the worker goroutines that claim, execute and settle      *)
(* them, and the processes those goroutines live and die with              *)
(* (cmd/api/main.go, cmd/worker/main.go).                                  *)
(*                                                                         *)
(* Every statement the driver sends to the database is a step of its own,  *)
(* so the workers of all processes interleave between the SELECT and the   *)
(* UPDATE of a claim, while a handler runs, and before its outcome is      *)
(* written back.                                                           *)
(***************************************************************************)
EXTENDS Naturals, FiniteSets

CONSTANTS
    Workers,            \* the goroutines running workerLoop, of all processes
    Procs,              \* the processes that called Start: API server, worker
    ProcOf,             \* the process a worker belongs to
    MaxJobs,            \* BOUND: rows ever inserted
    Delays,             \* delays a caller passes to DispatchDelayed
    MaxAttempts,        \* QUEUE_MAX_ATTEMPTS, copied into every row
    StaleAfter,         \* the 10 minutes after which a reservation is stale
    BackoffUnit,        \* the factor 2 (seconds) of the retry backoff
    IsolatedClaims,     \* TRUE: claim transactions are serialised (SQLite)
    TimelyWorkers,      \* TRUE: a claim is settled before it becomes stale
    MaxDisruptions      \* BOUND: crashes, shutdowns and database errors

JobIds == 1..MaxJobs

ASSUME ProcsAssumption == ProcOf \in [Workers -> Procs]

ASSUME BoundsAssumption ==
    /\ MaxJobs \in Nat /\ MaxDisruptions \in Nat
    /\ MaxAttempts \in Nat /\ MaxAttempts > 0  \* NewDatabaseDriver: 0 means 3
    /\ StaleAfter \in Nat /\ BackoffUnit \in Nat
    /\ Delays \subseteq Nat

ASSUME ModeAssumption == IsolatedClaims \in BOOLEAN /\ TimelyWorkers \in BOOLEAN

\* Arithmetic the provers have no theory of; TLC evaluates it on every run.
ASSUME PowersAssumption == \A a \in 0..MaxAttempts : 2^a \in Nat

VARIABLES
    now,            \* wall clock, shared by the processes
    jobs,           \* the table: row (or NoRow) per id
    nextId,         \* the next value of the autoincrement key
    pc,             \* where each worker is in workerLoop / processNextJob
    claim,          \* the worker's local variable job: its copy of the row
    proc,           \* what each process is doing
    disruptions,    \* failures injected so far
    successes,      \* history: successful handler executions of each job
    abandoned       \* history: executions of each job that were never settled

table     == <<jobs, nextId>>
history   == <<successes, abandoned>>
vars      == <<now, jobs, nextId, pc, claim, proc, disruptions,
               successes, abandoned>>

-----------------------------------------------------------------------------
(* Rows and local copies. *)

NoRow   == [status |-> "none", attempts |-> 0, availableAt |-> 0, reservedAt |-> 0]
NoClaim == [id |-> 0, attempts |-> 0, availableAt |-> 0, reservedAt |-> 0]

JobRecord == [status : {"none", "pending", "processing", "failed"},
              attempts : Nat, availableAt : Nat, reservedAt : Nat]

Claim == [id : {0} \union JobIds, attempts : Nat, availableAt : Nat, reservedAt : Nat]

\* [mutant of Stale] the comparison includes the boundary.
StaleAtBoundary(j) == jobs[j].reservedAt + StaleAfter =< now

\* A reservation is stale when reserved_at < now - 10 minutes.
Stale(j) == jobs[j].reservedAt + StaleAfter < now

\* [mutant of Eligible] stale reservations are not looked for.
EligiblePendingOnly ==
    {j \in JobIds : jobs[j].status = "pending" /\ jobs[j].availableAt =< now}

Eligible == {j \in JobIds :
                \/ jobs[j].status = "pending" /\ jobs[j].availableAt =< now
                \/ jobs[j].status = "processing" /\ Stale(j)}

\* ORDER BY available_at ASC, id ASC
Before(j, k) == \/ jobs[j].availableAt < jobs[k].availableAt
                \/ jobs[j].availableAt = jobs[k].availableAt /\ j =< k

\* The worker is between the SELECT and the commit of its claim.
Selecting(w) == pc[w] = "selected"

\* The worker has reserved a row and has not written its outcome back yet.
Holding(w) == pc[w] \in {"running", "succeeded", "errored"}

Holds(w, j) == Holding(w) /\ claim[w].id = j

Held(j) == \E w \in Workers : Holds(w, j)

\* [mutant of TableFree] a claim transaction locks nothing.
TableUnlocked == TRUE

\* A serialised claim keeps every other statement out until it commits.
TableFree == IsolatedClaims => \A w \in Workers : ~Selecting(w)

Backoff(attempts) == 2^attempts * BackoffUnit

\* The row as tx.Save writes it: all columns of the local copy.
SavedRow(c) == [status |-> "processing", attempts |-> c.attempts,
                availableAt |-> c.availableAt, reservedAt |-> c.reservedAt]

GoTo(w, label) == pc' = [pc EXCEPT ![w] = label]
Release(w)     == claim' = [claim EXCEPT ![w] = NoClaim]

\* One more crash, shutdown or database error.
Disrupt == /\ disruptions < MaxDisruptions
           /\ disruptions' = disruptions + 1

-----------------------------------------------------------------------------
Init ==
    /\ now = 0
    /\ jobs = [j \in JobIds |-> NoRow]
    /\ nextId = 1
    /\ pc = [w \in Workers |-> "off"]
    /\ claim = [w \in Workers |-> NoClaim]
    /\ proc = [p \in Procs |-> "down"]
    /\ disruptions = 0
    /\ successes = [j \in JobIds |-> 0]
    /\ abandoned = [j \in JobIds |-> 0]

\* Dispatch and DispatchDelayed: insert a pending row.
Dispatch(delay) ==
    /\ nextId =< MaxJobs
    /\ TableFree
    /\ jobs' = [jobs EXCEPT ![nextId] =
                   [status |-> "pending", attempts |-> 0,
                    availableAt |-> now + delay, reservedAt |-> 0]]
    /\ nextId' = nextId + 1
    /\ UNCHANGED <<now, pc, claim, proc, disruptions, history>>

\* The head of workerLoop: return when quit is closed, else process a job.
LoopTop(w) ==
    /\ pc[w] = "loop"
    /\ IF proc[ProcOf[w]] = "stopping" THEN GoTo(w, "off") ELSE GoTo(w, "fetch")
    /\ UNCHANGED <<now, table, claim, proc, disruptions, history>>

\* [mutant of SelectJob] the attempt is not counted.
SelectJobUncounted(w) ==
    /\ pc[w] = "fetch"
    /\ TableFree
    /\ \E j \in Eligible :
          /\ \A k \in Eligible : Before(j, k)
          /\ claim' = [claim EXCEPT ![w] =
                          [id |-> j, attempts |-> jobs[j].attempts,
                           availableAt |-> jobs[j].availableAt,
                           reservedAt |-> now]]
    /\ GoTo(w, "selected")
    /\ UNCHANGED <<now, table, proc, disruptions, history>>

\* The SELECT of the claim transaction, and the changes to the local copy.
SelectJob(w) ==
    /\ pc[w] = "fetch"
    /\ TableFree
    /\ \E j \in Eligible :
          /\ \A k \in Eligible : Before(j, k)
          /\ claim' = [claim EXCEPT ![w] =
                          [id |-> j, attempts |-> jobs[j].attempts + 1,
                           availableAt |-> jobs[j].availableAt,
                           reservedAt |-> now]]
    /\ GoTo(w, "selected")
    /\ UNCHANGED <<now, table, proc, disruptions, history>>

\* The SELECT finds no row: the transaction ends with ErrRecordNotFound.
NoJob(w) ==
    /\ pc[w] = "fetch"
    /\ TableFree
    /\ Eligible = {}
    /\ GoTo(w, "waiting")
    /\ UNCHANGED <<now, table, claim, proc, disruptions, history>>

\* tx.Save and COMMIT. Save writes every column of the local copy and inserts
\* the row again when the id is gone, so no condition on the row guards it.
SaveClaim(w) ==
    /\ pc[w] = "selected"
    /\ jobs' = [jobs EXCEPT ![claim[w].id] = SavedRow(claim[w])]
    /\ GoTo(w, "running")
    /\ UNCHANGED <<now, nextId, claim, proc, disruptions, history>>

\* The SELECT or the Save fails: rollback, and wait as if there were no job.
ClaimError(w) ==
    /\ pc[w] \in {"fetch", "selected"}
    /\ Disrupt
    /\ GoTo(w, "waiting")
    /\ Release(w)
    /\ UNCHANGED <<now, table, proc, history>>

\* The handler returns nil ...
HandlerSucceeds(w) ==
    /\ pc[w] = "running"
    /\ GoTo(w, "succeeded")
    /\ successes' = [successes EXCEPT ![claim[w].id] = @ + 1]
    /\ UNCHANGED <<now, table, claim, proc, disruptions, abandoned>>

\* ... or an error (also when no handler has the job's name).
HandlerFails(w) ==
    /\ pc[w] = "running"
    /\ GoTo(w, "errored")
    /\ UNCHANGED <<now, table, claim, proc, disruptions, history>>

\* A finished job's row is deleted by id.
DeleteJob(w) ==
    /\ pc[w] = "succeeded"
    /\ TableFree
    /\ jobs' = [jobs EXCEPT ![claim[w].id] = NoRow]
    /\ GoTo(w, "loop")
    /\ Release(w)
    /\ UNCHANGED <<now, nextId, proc, disruptions, history>>

\* An UPDATE ... WHERE id = ? of some columns: without a row, nothing happens.
UpdateRow(j, row) ==
    jobs' = IF jobs[j].status = "none" THEN jobs ELSE [jobs EXCEPT ![j] = row]

\* [mutant of RetryJob] one retry too many.
RetryJobOnceMore(w) ==
    LET j == claim[w].id IN
    /\ pc[w] = "errored"
    /\ claim[w].attempts =< MaxAttempts
    /\ TableFree
    /\ UpdateRow(j, [status |-> "pending", attempts |-> jobs[j].attempts,
                     availableAt |-> now + Backoff(claim[w].attempts),
                     reservedAt |-> 0])
    /\ GoTo(w, "loop")
    /\ Release(w)
    /\ UNCHANGED <<now, nextId, proc, disruptions, history>>

\* [mutant of RetryJob] reserved_at is not reset.
RetryJobKeepsReservation(w) ==
    LET j == claim[w].id IN
    /\ pc[w] = "errored"
    /\ claim[w].attempts < MaxAttempts
    /\ TableFree
    /\ UpdateRow(j, [status |-> "pending", attempts |-> jobs[j].attempts,
                     availableAt |-> now + Backoff(claim[w].attempts),
                     reservedAt |-> jobs[j].reservedAt])
    /\ GoTo(w, "loop")
    /\ Release(w)
    /\ UNCHANGED <<now, nextId, proc, disruptions, history>>

\* Attempts are left: pending again after the backoff.
RetryJob(w) ==
    LET j == claim[w].id IN
    /\ pc[w] = "errored"
    /\ claim[w].attempts < MaxAttempts
    /\ TableFree
    /\ UpdateRow(j, [status |-> "pending", attempts |-> jobs[j].attempts,
                     availableAt |-> now + Backoff(claim[w].attempts),
                     reservedAt |-> 0])
    /\ GoTo(w, "loop")
    /\ Release(w)
    /\ UNCHANGED <<now, nextId, proc, disruptions, history>>

\* [mutant of FailJob] the exhausted job's row is deleted too.
FailJobDeletes(w) ==
    /\ pc[w] = "errored"
    /\ claim[w].attempts >= MaxAttempts
    /\ TableFree
    /\ UpdateRow(claim[w].id, NoRow)
    /\ GoTo(w, "loop")
    /\ Release(w)
    /\ UNCHANGED <<now, nextId, proc, disruptions, history>>

\* No attempt is left: failed.
FailJob(w) ==
    LET j == claim[w].id IN
    /\ pc[w] = "errored"
    /\ claim[w].attempts >= MaxAttempts
    /\ TableFree
    /\ UpdateRow(j, [status |-> "failed", attempts |-> jobs[j].attempts,
                     availableAt |-> jobs[j].availableAt,
                     reservedAt |-> jobs[j].reservedAt])
    /\ GoTo(w, "loop")
    /\ Release(w)
    /\ UNCHANGED <<now, nextId, proc, disruptions, history>>

\* The Delete or the Updates returns an error, which the worker only logs or
\* drops: the row stays as it was.
SettleLost(w) ==
    /\ pc[w] \in {"succeeded", "errored"}
    /\ Disrupt
    /\ abandoned' = [abandoned EXCEPT ![claim[w].id] = @ + 1]
    /\ GoTo(w, "loop")
    /\ Release(w)
    /\ UNCHANGED <<now, table, proc, successes>>

\* After a round without a job: the poll interval passes ...
PollTimeout(w) ==
    /\ pc[w] = "waiting"
    /\ GoTo(w, "loop")
    /\ UNCHANGED <<now, table, claim, proc, disruptions, history>>

\* ... or quit is closed.
QuitWhileWaiting(w) ==
    /\ pc[w] = "waiting"
    /\ proc[ProcOf[w]] = "stopping"
    /\ GoTo(w, "off")
    /\ UNCHANGED <<now, table, claim, proc, disruptions, history>>

-----------------------------------------------------------------------------
(* Processes. *)

WorkersOf(p) == {w \in Workers : ProcOf[w] = p}

\* main: a new driver, and Start spawns its workers.
Boot(p) ==
    /\ proc[p] = "down"
    /\ proc' = [proc EXCEPT ![p] = "up"]
    /\ pc' = [w \in Workers |-> IF ProcOf[w] = p THEN "loop" ELSE pc[w]]
    /\ UNCHANGED <<now, table, claim, disruptions, history>>

\* SIGTERM: Stop closes quit and waits.
StopBegin(p) ==
    /\ proc[p] = "up"
    /\ Disrupt
    /\ proc' = [proc EXCEPT ![p] = "stopping"]
    /\ UNCHANGED <<now, table, pc, claim, history>>

\* The process ends. A claim that was not committed is rolled back; an
\* execution that was not settled leaves its row in processing.
Exit(p) ==
    /\ proc' = [proc EXCEPT ![p] = "down"]
    /\ pc' = [w \in Workers |-> IF ProcOf[w] = p THEN "off" ELSE pc[w]]
    /\ claim' = [w \in Workers |-> IF ProcOf[w] = p THEN NoClaim ELSE claim[w]]
    /\ abandoned' = [j \in JobIds |->
                        IF \E w \in WorkersOf(p) : Holds(w, j)
                        THEN abandoned[j] + 1 ELSE abandoned[j]]
    /\ UNCHANGED <<now, table, successes>>

\* wg.Wait returns before the timeout of Stop.
StopDone(p) ==
    /\ proc[p] = "stopping"
    /\ \A w \in WorkersOf(p) : pc[w] = "off"
    /\ Exit(p)
    /\ UNCHANGED disruptions

\* Stop times out: main goes on and exits with workers still busy.
StopTimeout(p) ==
    /\ proc[p] = "stopping"
    /\ \E w \in WorkersOf(p) : pc[w] # "off"
    /\ Exit(p)
    /\ UNCHANGED disruptions

\* The process is killed, or a handler panics: ExecuteJob does not recover.
Crash(p) ==
    /\ proc[p] # "down"
    /\ Disrupt
    /\ Exit(p)

-----------------------------------------------------------------------------
(* Time. *)

\* Some row is waiting for the clock: for its backoff, or to become stale.
ClockMatters == \E j \in JobIds :
                    \/ jobs[j].status = "pending" /\ jobs[j].availableAt > now
                    \/ jobs[j].status = "processing" /\ ~Stale(j)

Tick ==
    /\ ClockMatters
    /\ TimelyWorkers => \A w \in Workers : Selecting(w) \/ Holding(w)
                            => now < claim[w].reservedAt + StaleAfter
    /\ now' = now + 1
    /\ UNCHANGED <<table, pc, claim, proc, disruptions, history>>

-----------------------------------------------------------------------------
\* What a worker does when nothing fails.
WorkerStep(w) ==
    \/ LoopTop(w) \/ SelectJob(w) \/ NoJob(w) \/ SaveClaim(w)
    \/ HandlerSucceeds(w) \/ HandlerFails(w)
    \/ DeleteJob(w) \/ RetryJob(w) \/ FailJob(w)
    \/ PollTimeout(w) \/ QuitWhileWaiting(w)

Next ==
    \/ \E delay \in Delays : Dispatch(delay)
    \/ \E w \in Workers : WorkerStep(w) \/ ClaimError(w) \/ SettleLost(w)
    \/ \E p \in Procs : \/ Boot(p) \/ StopBegin(p) \/ StopDone(p)
                        \/ StopTimeout(p) \/ Crash(p)
    \/ Tick

Spec == Init /\ [][Next]_vars

\* Goroutines are scheduled, handlers return, the clock advances, Stop returns
\* and the container is restarted (restart: unless-stopped). Nobody has to
\* dispatch, and nothing has to fail.
Fairness ==
    /\ \A w \in Workers : WF_vars(WorkerStep(w))
    /\ \A p \in Procs : WF_vars(Boot(p)) /\ WF_vars(StopDone(p))
    /\ WF_vars(Tick)

FairSpec == Spec /\ Fairness

-----------------------------------------------------------------------------
(* Properties. *)

\* The state is well-formed: statuses are those of domain/job.go, only rows that
\* some worker took carry a reservation, a worker has a local copy exactly while
\* it processes a row, and no worker outlives its process.
TypeOK ==
    /\ now \in Nat /\ disruptions \in Nat
    /\ jobs \in [JobIds -> JobRecord]
    /\ \A j \in JobIds : jobs[j].status \in {"none", "pending"} => jobs[j].reservedAt = 0
    /\ nextId \in 1..(MaxJobs + 1)
    /\ pc \in [Workers -> {"off", "loop", "fetch", "selected", "running",
                           "succeeded", "errored", "waiting"}]
    /\ claim \in [Workers -> Claim]
    /\ \A w \in Workers : claim[w].id \in JobIds <=> Selecting(w) \/ Holding(w)
    /\ proc \in [Procs -> {"down", "up", "stopping"}]
    /\ \A w \in Workers : proc[ProcOf[w]] = "down" => pc[w] = "off"
    /\ successes \in [JobIds -> Nat] /\ abandoned \in [JobIds -> Nat]

\* "processNextJob atomically claims ... the next pending job": no two workers
\* are executing, or about to settle, the same job.
ExclusiveExecution ==
    \A j \in JobIds : \A v, w \in Workers :
        Holds(v, j) /\ Holds(w, j) => v = w

\* The row a worker will settle by id is still the reservation it took: nobody
\* retried, failed, deleted or reclaimed it while the handler ran.
HolderOwnsReservation ==
    \A w \in Workers : Holding(w) =>
        jobs[claim[w].id] = SavedRow(claim[w])

\* A job is executed MaxAttempts times, plus once for each execution that was
\* abandoned: only a lost execution is worth an extra attempt.
AttemptsAccounted ==
    \A j \in JobIds : jobs[j].attempts =< MaxAttempts + abandoned[j]

\* A job takes effect more than once only when an execution was abandoned
\* between its success and the deletion of its row.
DuplicatesAccounted ==
    \A j \in JobIds : successes[j] =< 1 + abandoned[j]

\* A dispatched row leaves the table only after a handler returned nil.
NoJobLost ==
    \A j \in JobIds :
        j < nextId /\ jobs[j].status = "none" => successes[j] > 0

\* A row is marked failed only when its attempts are exhausted.
FailedMeansExhausted ==
    \A j \in JobIds : jobs[j].status = "failed" => jobs[j].attempts >= MaxAttempts

\* "mark as permanently failed", "Completed successfully, delete record": a
\* failed row is never executed or retried again, a deleted row never comes back.
SettledIsFinal ==
    [][\A j \in JobIds : j < nextId /\ jobs[j].status \in {"none", "failed"}
                            => jobs'[j] = jobs[j]]_vars

\* Every dispatched job ends, deleted or failed, and stays so, as long as the
\* disruptions stop and handlers return.
Settled(j) == jobs[j].status \in {"none", "failed"}

EveryJobSettles ==
    \A j \in JobIds : (j < nextId) ~> [](Settled(j))

-----------------------------------------------------------------------------
(* The promise of JobLifecycle, kept when claims are serialised and timely. *)

PhaseOf(j) ==
    IF j >= nextId THEN "unborn"
    ELSE IF jobs[j].status = "none" THEN "done"
    ELSE IF jobs[j].status = "pending" THEN "waiting"
    ELSE IF jobs[j].status = "failed" THEN "dead"
    ELSE IF Held(j) THEN "running" ELSE "lost"

Lifecycle == INSTANCE JobLifecycle WITH
                 Jobs     <- JobIds,
                 MaxTries <- MaxAttempts,
                 phase    <- [j \in JobIds |-> PhaseOf(j)],
                 tries    <- [j \in JobIds |-> jobs[j].attempts]

\* Every step of the driver is a step of the lifecycle or none.
ImplementsLifecycle == Lifecycle!Spec

-----------------------------------------------------------------------------
(* Why claims are exclusive: the inductive invariant behind the properties    *)
(* above, for serialised and timely claims.                                   *)

\* Only one claim transaction is open, and what it read is what is there: the
\* row is still eligible and has the attempts the local copy counted from.
OpenClaimIsCurrent ==
    \A w \in Workers : Selecting(w) =>
        /\ \A v \in Workers : Selecting(v) => v = w
        /\ claim[w].id \in Eligible
        /\ claim[w].attempts = jobs[claim[w].id].attempts + 1
        /\ claim[w].availableAt = jobs[claim[w].id].availableAt

\* Whoever has a local copy took it less than StaleAfter ago.
ClaimsAreFresh ==
    \A w \in Workers : Selecting(w) \/ Holding(w) =>
        now =< claim[w].reservedAt + StaleAfter

\* Ids that were not handed out yet have no row.
UnusedIdsAreFree == \A j \in JobIds : j >= nextId => jobs[j] = NoRow

ReservationInv ==
    /\ HolderOwnsReservation
    /\ ExclusiveExecution
    /\ OpenClaimIsCurrent
    /\ ClaimsAreFresh
    /\ UnusedIdsAreFree

\* The handler of a job succeeded and its row is about to be deleted.
SuccessPending(j) == \E w \in Workers : pc[w] = "succeeded" /\ claim[w].id = j

\* What each status leaves of the attempts of a job, and of its successes: an
\* execution is paid for by the limit or by an abandoned one before it.
AccountsOf(j) ==
    /\ jobs[j].status = "pending" => jobs[j].attempts < MaxAttempts
    /\ jobs[j].status = "processing" /\ ~Held(j)
           => jobs[j].attempts < MaxAttempts + abandoned[j]
    /\ jobs[j].status = "failed" => jobs[j].attempts >= MaxAttempts
    /\ jobs[j].attempts =< MaxAttempts + abandoned[j]
    /\ j >= nextId => successes[j] = 0
    /\ successes[j] =< abandoned[j]
           + (IF jobs[j].status = "none" \/ SuccessPending(j) THEN 1 ELSE 0)

AccountingInv == \A j \in JobIds : AccountsOf(j)

\* For every mode: who is about to delete a row has seen its handler succeed.
DeletionEarned ==
    \A w \in Workers : pc[w] = "succeeded" => successes[claim[w].id] > 0
=============================================================================
