------------------------------ MODULE RedisQueue ------------------------------
(***************************************************************************)
(* The Redis driver of pkg/queue (driver_redis.go): one Redis list shared  *)
(* by the processes, their worker goroutines, and the goroutines in which  *)
(* a process keeps its delayed jobs and its retries until they are due.    *)
(* The list itself survives everything that is modelled here.              *)
(***************************************************************************)
EXTENDS Naturals, Sequences

CONSTANTS
    Workers,            \* the goroutines running workerLoop, of all processes
    Procs,              \* the processes that called Start
    ProcOf,             \* the process a worker belongs to
    Jobs,               \* BOUND: the messages ever built, each for a job of its
                        \* own, and the copies that go-redis makes of them
    NoJob,              \* not a job
    MaxAttempts,        \* QUEUE_MAX_ATTEMPTS of each process, which copies it
                        \* into every message it builds
    CountTo,            \* BOUND: executions are counted up to this number
    MaxStops,           \* BOUND: graceful shutdowns
    MaxFaults           \* BOUND: crashes and Redis errors

ASSUME RedisAssumption ==
    /\ ProcOf \in [Workers -> Procs] /\ NoJob \notin Jobs
    /\ MaxAttempts \in [Procs -> Nat \ {0}]     \* NewRedisDriver: 0 means 3
    /\ CountTo \in Nat /\ MaxStops \in Nat /\ MaxFaults \in Nat

VARIABLES
    list,       \* queue:<name>, its left end first
    timers,     \* per process, the messages its goroutines will push
    pc,         \* where each worker is in workerLoop
    msg,        \* the message a worker decoded
    proc,       \* what each process is doing
    fate,       \* history: what became of each job
    executions, \* history: how often each job's handler was called
    stops, faults

world   == <<proc, stops, faults>>
history == <<fate, executions>>
vars    == <<list, timers, pc, msg, world, history>>

Message == [job : Jobs, attempts : Nat, max : Nat]
NoMsg   == [job |-> NoJob, attempts |-> 0, max |-> 0]

GoTo(w, label) == pc' = [pc EXCEPT ![w] = label]
Drop(w)        == msg' = [msg EXCEPT ![w] = NoMsg]
Becomes(j, f)  == fate' = [fate EXCEPT ![j] = f]
Up(p)          == proc[p] # "down"

\* One more failure that nobody asked for.
Fault == faults < MaxFaults /\ faults' = faults + 1

Init ==
    /\ list = <<>>
    /\ timers = [p \in Procs |-> {}]
    /\ pc = [w \in Workers |-> "off"]
    /\ msg = [w \in Workers |-> NoMsg]
    /\ proc = [p \in Procs |-> "down"]
    /\ fate = [j \in Jobs |-> "new"]
    /\ executions = [j \in Jobs |-> 0]
    /\ stops = 0 /\ faults = 0

-----------------------------------------------------------------------------
(* Dispatching. Every call builds a new message, with Attempts 0. *)

NewMessage(p, j) == [job |-> j, attempts |-> 0, max |-> MaxAttempts[p]]

\* Dispatch: LPUSH.
Dispatch(p, j) ==
    /\ Up(p) /\ fate[j] = "new"
    /\ list' = <<NewMessage(p, j)>> \o list
    /\ Becomes(j, "live")
    /\ UNCHANGED <<timers, pc, msg, world, executions>>

\* DispatchDelayed: a goroutine of this process has the message.
DispatchDelayed(p, j) ==
    /\ Up(p) /\ fate[j] = "new"
    /\ timers' = [timers EXCEPT ![p] = @ \union {NewMessage(p, j)}]
    /\ Becomes(j, "live")
    /\ UNCHANGED <<list, pc, msg, world, executions>>

\* go-redis pushes a message again whose first reply was lost, and nobody can
\* tell: the copy counts as a job k of its own, and is executed as well. It is
\* all the same whether the first one has been popped when the copy arrives.
PushedAgain(i, k) ==
    /\ i \in DOMAIN list /\ fate[k] = "new"
    /\ Fault
    /\ list' = <<[list[i] EXCEPT !.job = k]>> \o list
    /\ Becomes(k, "live")
    /\ UNCHANGED <<timers, pc, msg, proc, stops, executions>>

\* [mutant of TimerFires] the message goes to another key.
TimerFiresElsewhere(p, m) ==
    /\ m \in timers[p]
    /\ timers' = [timers EXCEPT ![p] = @ \ {m}]
    /\ UNCHANGED <<list, pc, msg, world, history>>

\* The delay is over: LPUSH.
TimerFires(p, m) ==
    /\ m \in timers[p]
    /\ timers' = [timers EXCEPT ![p] = @ \ {m}]
    /\ list' = <<m>> \o list
    /\ UNCHANGED <<pc, msg, world, history>>

\* Nobody looks at the error of that LPUSH, which go-redis gave up.
TimerPushFails(p, m) ==
    /\ m \in timers[p]
    /\ Fault
    /\ timers' = [timers EXCEPT ![p] = @ \ {m}]
    /\ Becomes(m.job, "lost")
    /\ UNCHANGED <<list, pc, msg, proc, stops, executions>>

\* [mutant of TimerCancelled] the goroutine does not wait for quit.
TimerCancelledUnasked(p, m) ==
    /\ m \in timers[p]
    /\ timers' = [timers EXCEPT ![p] = @ \ {m}]
    /\ Becomes(m.job, "lost")
    /\ UNCHANGED <<list, pc, msg, world, executions>>

\* quit is closed: the goroutine logs and returns.
TimerCancelled(p, m) ==
    /\ m \in timers[p]
    /\ proc[p] = "stopping"
    /\ timers' = [timers EXCEPT ![p] = @ \ {m}]
    /\ Becomes(m.job, "lost")
    /\ UNCHANGED <<list, pc, msg, world, executions>>

-----------------------------------------------------------------------------
(* Workers. *)

\* The head of workerLoop: return when quit is closed, else block in BRPOP.
LoopTop(w) ==
    /\ pc[w] = "loop"
    /\ IF proc[ProcOf[w]] = "stopping" THEN GoTo(w, "off") ELSE GoTo(w, "popping")
    /\ UNCHANGED <<list, timers, msg, world, history>>

Last == list[Len(list)]
Rest == SubSeq(list, 1, Len(list) - 1)

\* BRPOP delivers: count the attempt and call the handler. From here on the
\* job exists in this goroutine only.
Pop(w) ==
    /\ pc[w] = "popping"
    /\ list # <<>>
    /\ list' = Rest
    /\ msg' = [msg EXCEPT ![w] = [Last EXCEPT !.attempts = @ + 1]]
    /\ executions' = [executions EXCEPT ![Last.job] = IF @ < CountTo THEN @ + 1 ELSE @]
    /\ GoTo(w, "running")
    /\ UNCHANGED <<timers, world, fate>>

\* Two seconds without a job.
PopTimeout(w) ==
    /\ pc[w] = "popping"
    /\ list = <<>>
    /\ GoTo(w, "loop")
    /\ UNCHANGED <<list, timers, msg, world, history>>

\* BRPOP fails, before or after Redis removed the message; go-redis may send it
\* once more before workerLoop sees the error.
PopError(w) ==
    /\ pc[w] = "popping"
    /\ Fault
    /\ \/ UNCHANGED <<list, fate>> /\ GoTo(w, "waiting")
       \/ /\ list # <<>> /\ list' = Rest /\ Becomes(Last.job, "lost")
          /\ GoTo(w, "waiting") \/ UNCHANGED pc
    /\ UNCHANGED <<timers, msg, proc, stops, executions>>

\* 500 ms after the error, or quit.
WaitOver(w) ==
    /\ pc[w] = "waiting"
    /\ \/ GoTo(w, "loop")
       \/ proc[ProcOf[w]] = "stopping" /\ GoTo(w, "off")
    /\ UNCHANGED <<list, timers, msg, world, history>>

HandlerSucceeds(w) ==
    /\ pc[w] = "running"
    /\ Becomes(msg[w].job, "done")
    /\ GoTo(w, "loop") /\ Drop(w)
    /\ UNCHANGED <<list, timers, world, executions>>

\* [mutant of HandlerRetried] the message goes back to the list as well.
HandlerRetriedTwice(w) ==
    /\ pc[w] = "running"
    /\ msg[w].attempts < msg[w].max
    /\ timers' = [timers EXCEPT ![ProcOf[w]] = @ \union {NewMessage(ProcOf[w], msg[w].job)}]
    /\ list' = <<NewMessage(ProcOf[w], msg[w].job)>> \o list
    /\ GoTo(w, "loop") /\ Drop(w)
    /\ UNCHANGED <<world, history>>

\* The handler failed and attempts are left: DispatchDelayed, a new message in
\* a goroutine of this process.
HandlerRetried(w) ==
    /\ pc[w] = "running"
    /\ msg[w].attempts < msg[w].max
    /\ timers' = [timers EXCEPT ![ProcOf[w]] = @ \union {NewMessage(ProcOf[w], msg[w].job)}]
    /\ GoTo(w, "loop") /\ Drop(w)
    /\ UNCHANGED <<list, world, history>>

\* The handler failed for the last time: the message is dropped.
HandlerExhausted(w) ==
    /\ pc[w] = "running"
    /\ msg[w].attempts >= msg[w].max
    /\ Becomes(msg[w].job, "dead")
    /\ GoTo(w, "loop") /\ Drop(w)
    /\ UNCHANGED <<list, timers, world, executions>>

-----------------------------------------------------------------------------
(* Processes. *)

WorkersOf(p) == {w \in Workers : ProcOf[w] = p}

Boot(p) ==
    /\ proc[p] = "down"
    /\ proc' = [proc EXCEPT ![p] = "up"]
    /\ pc' = [w \in Workers |-> IF ProcOf[w] = p THEN "loop" ELSE pc[w]]
    /\ UNCHANGED <<list, timers, msg, stops, faults, history>>

StopBegin(p) ==
    /\ proc[p] = "up"
    /\ stops < MaxStops /\ stops' = stops + 1
    /\ proc' = [proc EXCEPT ![p] = "stopping"]
    /\ UNCHANGED <<list, timers, pc, msg, faults, history>>

\* What only this process knew is gone: its timers and its messages.
Owned(p) == {m.job : m \in timers[p]}
                \union {msg[w].job : w \in {v \in WorkersOf(p) : pc[v] = "running"}}

Exit(p) ==
    /\ proc' = [proc EXCEPT ![p] = "down"]
    /\ pc' = [w \in Workers |-> IF ProcOf[w] = p THEN "off" ELSE pc[w]]
    /\ msg' = [w \in Workers |-> IF ProcOf[w] = p THEN NoMsg ELSE msg[w]]
    /\ timers' = [timers EXCEPT ![p] = {}]
    /\ fate' = [j \in Jobs |-> IF j \in Owned(p) THEN "lost" ELSE fate[j]]
    /\ UNCHANGED <<list, stops, executions>>

\* Stop returns, because the workers did or because of its timeout; then main.
StopDone(p) ==
    /\ proc[p] = "stopping"
    /\ \A w \in WorkersOf(p) : pc[w] = "off"
    /\ Exit(p)
    /\ UNCHANGED faults

StopTimeout(p) ==
    /\ proc[p] = "stopping"
    /\ \E w \in WorkersOf(p) : pc[w] # "off"
    /\ Exit(p)
    /\ UNCHANGED faults

\* The process is killed, or a handler panics.
Crash(p) == Up(p) /\ Fault /\ Exit(p)

-----------------------------------------------------------------------------
WorkerStep(w) ==
    \/ LoopTop(w) \/ Pop(w) \/ PopTimeout(w) \/ WaitOver(w)
    \/ HandlerSucceeds(w) \/ HandlerRetried(w) \/ HandlerExhausted(w)

\* Every delayed job has a goroutine of its own.
TimerStep(p, j) ==
    \E m \in timers[p] : m.job = j /\ (TimerFires(p, m) \/ TimerCancelled(p, m))

Next ==
    \/ \E p \in Procs, j \in Jobs : Dispatch(p, j) \/ DispatchDelayed(p, j)
    \/ \E i \in DOMAIN list, k \in Jobs : PushedAgain(i, k)
    \/ \E w \in Workers : WorkerStep(w) \/ PopError(w)
    \/ \E p \in Procs :
          \/ (\E j \in Jobs : TimerStep(p, j)) \/ (\E m \in timers[p] : TimerPushFails(p, m))
          \/ Boot(p) \/ StopBegin(p) \/ StopDone(p) \/ StopTimeout(p) \/ Crash(p)

Spec == Init /\ [][Next]_vars

\* Goroutines run, timers expire, handlers return, Stop returns and containers
\* are restarted.
Fairness ==
    /\ \A w \in Workers : WF_vars(WorkerStep(w))
    /\ \A p \in Procs : /\ \A j \in Jobs : WF_vars(TimerStep(p, j))
                        /\ WF_vars(Boot(p)) /\ WF_vars(StopDone(p))

FairSpec == Spec /\ Fairness

-----------------------------------------------------------------------------
(* Properties. *)

\* The state is well-formed: a worker has a message exactly while its handler
\* runs, and a process that is down has neither workers nor timers.
TypeOK ==
    /\ list \in Seq(Message)
    /\ timers \in [Procs -> SUBSET Message]
    /\ pc \in [Workers -> {"off", "loop", "popping", "waiting", "running"}]
    /\ msg \in [Workers -> Message \union {NoMsg}]
    /\ \A w \in Workers : msg[w].job \in Jobs <=> pc[w] = "running"
    /\ proc \in [Procs -> {"down", "up", "stopping"}]
    /\ \A p \in Procs : proc[p] = "down" =>
           timers[p] = {} /\ \A w \in WorkersOf(p) : pc[w] = "off"
    /\ fate \in [Jobs -> {"new", "live", "done", "dead", "lost"}]
    /\ executions \in [Jobs -> 0..CountTo]
    /\ stops \in 0..MaxStops /\ faults \in 0..MaxFaults

\* The places where a message of job j may be.
Queued(j)     == \E i \in DOMAIN list : list[i].job = j
Delayed(p, j) == \E m \in timers[p] : m.job = j
Running(w, j) == msg[w].job = j

\* No place has two messages of one job ...
NeverTwice ==
    /\ \A i, k \in DOMAIN list : list[i].job = list[k].job => i = k
    /\ \A p \in Procs : \A m, n \in timers[p] : m.job = n.job => m = n

\* ... and no two places have one each.
InOnePlace(j) ==
    /\ Queued(j) => /\ \A p \in Procs : ~Delayed(p, j)
                    /\ \A w \in Workers : ~Running(w, j)
    /\ \A p \in Procs : Delayed(p, j) => /\ \A q \in Procs \ {p} : ~Delayed(q, j)
                                         /\ \A w \in Workers : ~Running(w, j)
    /\ \A v, w \in Workers : Running(v, j) /\ Running(w, j) => v = w

\* A job that was accepted and is not over is in exactly one place, and one
\* that is over in none: retries, restarts and failures neither duplicate a
\* job, but for the copies of PushedAgain, nor lose one without a trace in fate.
OneCopy ==
    /\ NeverTwice
    /\ \A j \in Jobs :
          /\ InOnePlace(j)
          /\ fate[j] = "live" <=> \/ Queued(j) \/ \E p \in Procs : Delayed(p, j)
                                  \/ \E w \in Workers : Running(w, j)

\* A message has the limit of one process, and knows of this execution and of
\* no earlier one: a retry starts from zero.
Counts(m, n) == m.attempts = n /\ m.max \in {MaxAttempts[p] : p \in Procs}

AttemptsForgotten ==
    /\ \A i \in DOMAIN list : Counts(list[i], 0)
    /\ \A p \in Procs : \A m \in timers[p] : Counts(m, 0)
    /\ \A w \in Workers : pc[w] = "running" => Counts(msg[w], 1)

StopsAreTold == \A p \in Procs : proc[p] = "stopping" => stops > 0

\* What the driver can rely on from step to step: the state is well-formed, a
\* live job has one copy, its attempts are forgotten with every retry, and a
\* process stops only because it was told to.
QueueInv == TypeOK /\ OneCopy /\ AttemptsForgotten /\ StopsAreTold

\* Where a job is, as its users see it.
Phase(j) ==
    IF fate[j] # "live" THEN fate[j]
    ELSE IF \E w \in Workers : Running(w, j) THEN "running" ELSE "waiting"

\* The driver keeps the promise of a queue that may lose jobs once a process
\* was stopped or something failed, and not before. A job is given up only if
\* a process allows a single attempt.
Volatile == INSTANCE VolatileQueue WITH
                phase <- [j \in Jobs |-> Phase(j)],
                disturbed <- stops + faults > 0,
                OneAttempt <- \E p \in Procs : MaxAttempts[p] = 1
ImplementsVolatile == Volatile!Spec

\* An accepted job is executed at least once, unless it was lost before.
AcceptedIsExecuted ==
    \A j \in Jobs : fate[j] = "live" ~> executions[j] > 0 \/ fate[j] = "lost"

\* "Redis job permanently failed (max attempts exhausted)": a job is executed
\* at most as often as some process allows.
ExecutionsWithinMax ==
    \A j \in Jobs : \E p \in Procs : executions[j] =< MaxAttempts[p]
=============================================================================
