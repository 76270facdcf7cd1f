----------------------------- MODULE MemoryQueue -----------------------------
(***************************************************************************)
(* The memory driver of pkg/queue (driver_memory.go): a buffered channel,  *)
(* the worker goroutines that receive from it, the callers of Dispatch,    *)
(* the goroutines of DispatchDelayed, and Stop, in one process that ends   *)
(* when main returns or when a goroutine panics.                           *)
(***************************************************************************)
EXTENDS Naturals, Sequences

CONSTANTS
    Workers,        \* the goroutines running workerLoop
    Jobs,           \* BOUND: the jobs ever dispatched, each one once
    DelayedJobs,    \* those dispatched with DispatchDelayed
    NoJob,          \* not a job
    QueueSize       \* the capacity of the channel

ASSUME MemoryAssumption ==
    /\ DelayedJobs \subseteq Jobs /\ NoJob \notin Jobs
    \* NewMemoryDriver: 0 means 100, and 0 workers 5.
    /\ QueueSize \in Nat /\ QueueSize > 0 /\ Workers # {}

VARIABLES
    job,            \* where each job is
    jobChan,        \* the buffer of the channel
    chanClosed,     \* close(m.jobChan) was executed
    quitClosed,     \* close(m.quit) was executed
    running,        \* m.running
    stop,           \* where the call of Stop is; it holds m.mu while "locked"
    pc,             \* where each worker is in workerLoop
    task,           \* the job it executes, or NoJob
    process         \* whether the process still exists

vars == <<job, jobChan, chanClosed, quitClosed, running, stop, pc, task, process>>

driver == <<chanClosed, quitClosed, running, stop>>
worker == <<pc, task>>

\* The worker is in a select, the outer one or the draining one.
Receiving(w) == pc[w] \in {"select", "drain"} /\ task[w] = NoJob

Set(j, place) == job' = [job EXCEPT ![j] = place]
GoTo(w, label) == pc' = [pc EXCEPT ![w] = label]

MutexFree == stop # "locked"

Init ==
    /\ job = [j \in Jobs |-> "new"]
    /\ jobChan = <<>>
    /\ chanClosed = FALSE /\ quitClosed = FALSE /\ running = FALSE
    /\ stop = "none"
    /\ pc = [w \in Workers |-> "off"]
    /\ task = [w \in Workers |-> NoJob]
    /\ process = "up"

-----------------------------------------------------------------------------
(* Dispatching. *)

\* DispatchDelayed starts a goroutine; its select takes the timer ...
DispatchDelayed(j) ==
    /\ j \in DelayedJobs /\ job[j] = "new"
    /\ Set(j, "delayed")
    /\ UNCHANGED <<jobChan, driver, worker, process>>

TimerFires(j) ==
    /\ job[j] = "delayed"
    /\ Set(j, "due")
    /\ UNCHANGED <<jobChan, driver, worker, process>>

\* ... or quit.
TimerCancelled(j) ==
    /\ job[j] = "delayed"
    /\ quitClosed
    /\ Set(j, "cancelled")
    /\ UNCHANGED <<jobChan, driver, worker, process>>

\* Somebody is about to call Dispatch: a request, or a fired timer.
Calls(j) == \/ j \notin DelayedJobs /\ job[j] = "new"
            \/ job[j] = "due"

\* [mutant of DispatchAccepted] Dispatch does not take the mutex.
DispatchUnlocked(j) ==
    /\ Calls(j) /\ ~chanClosed /\ Len(jobChan) < QueueSize
    /\ jobChan' = Append(jobChan, j)
    /\ Set(j, "buffered")
    /\ UNCHANGED <<driver, worker, process>>

\* Dispatch holds the mutex for the whole of its non-blocking send.
DispatchAccepted(j) ==
    /\ Calls(j) /\ MutexFree /\ ~chanClosed /\ Len(jobChan) < QueueSize
    /\ jobChan' = Append(jobChan, j)
    /\ Set(j, "buffered")
    /\ UNCHANGED <<driver, worker, process>>

DispatchDropped(j) ==
    /\ Calls(j) /\ MutexFree /\ ~chanClosed /\ Len(jobChan) = QueueSize
    /\ Set(j, "dropped")
    /\ UNCHANGED <<jobChan, driver, worker, process>>

\* A send on the closed channel panics. The panic of a request is recovered by
\* the middleware; nothing recovers the one of a delayed goroutine.
DispatchPanics(j) ==
    /\ Calls(j) /\ MutexFree /\ chanClosed
    /\ Set(j, "panicked")
    /\ process' = IF j \in DelayedJobs THEN "crashed" ELSE process
    /\ UNCHANGED <<jobChan, driver, worker>>

-----------------------------------------------------------------------------
(* Workers. *)

Start ==
    /\ MutexFree /\ stop = "none" /\ ~running
    /\ running' = TRUE
    /\ pc' = [w \in Workers |-> "select"]
    /\ UNCHANGED <<job, jobChan, chanClosed, quitClosed, stop, task, process>>

\* [mutant of Receive] the head is executed but stays in the buffer.
ReceiveTwice(w) ==
    /\ Receiving(w)
    /\ jobChan # <<>>
    /\ task' = [task EXCEPT ![w] = Head(jobChan)]
    /\ Set(Head(jobChan), "running")
    /\ UNCHANGED <<jobChan, driver, pc, process>>

\* A receive in the outer or in the draining select; a closed channel still
\* delivers what is buffered.
Receive(w) ==
    /\ Receiving(w)
    /\ jobChan # <<>>
    /\ task' = [task EXCEPT ![w] = Head(jobChan)]
    /\ jobChan' = Tail(jobChan)
    /\ Set(Head(jobChan), "running")
    /\ UNCHANGED <<driver, pc, process>>

\* The handler returns; an error is ignored, nothing is retried.
HandlerReturns(w) ==
    /\ task[w] # NoJob
    /\ Set(task[w], "done")
    /\ task' = [task EXCEPT ![w] = NoJob]
    /\ UNCHANGED <<jobChan, driver, pc, process>>

\* ExecuteJob does not recover: a panic of the handler ends the process.
HandlerPanics(w) ==
    /\ task[w] # NoJob
    /\ process' = "crashed"
    /\ UNCHANGED <<job, jobChan, driver, worker>>

\* [mutant of ReceiveClosed] "continue" instead of "return" when !ok.
ReceiveClosedSpins(w) ==
    /\ Receiving(w)
    /\ jobChan = <<>> /\ chanClosed
    /\ GoTo(w, "select")
    /\ UNCHANGED <<job, jobChan, driver, task, process>>

\* !ok: the channel is closed and drained.
ReceiveClosed(w) ==
    /\ Receiving(w)
    /\ jobChan = <<>> /\ chanClosed
    /\ GoTo(w, "off")
    /\ UNCHANGED <<job, jobChan, driver, task, process>>

\* [mutant of QuitSeen] the worker returns without draining.
QuitReturns(w) ==
    /\ pc[w] = "select" /\ task[w] = NoJob
    /\ quitClosed
    /\ GoTo(w, "off")
    /\ UNCHANGED <<job, jobChan, driver, task, process>>

\* The select may take quit although jobs are buffered: drain them.
QuitSeen(w) ==
    /\ pc[w] = "select" /\ task[w] = NoJob
    /\ quitClosed
    /\ GoTo(w, "drain")
    /\ UNCHANGED <<job, jobChan, driver, task, process>>

\* default: nothing is buffered and the channel is not closed yet.
DrainEmpty(w) ==
    /\ pc[w] = "drain" /\ task[w] = NoJob
    /\ jobChan = <<>> /\ ~chanClosed
    /\ GoTo(w, "off")
    /\ UNCHANGED <<job, jobChan, driver, task, process>>

-----------------------------------------------------------------------------
(* Stop, and the end of main. *)

\* With the mutex: running = false, close(quit) ...
StopQuit ==
    /\ running /\ MutexFree
    /\ running' = FALSE
    /\ quitClosed' = TRUE
    /\ stop' = "locked"
    /\ UNCHANGED <<job, jobChan, chanClosed, worker, process>>

\* ... close(jobChan), and unlock.
StopClose ==
    /\ stop = "locked"
    /\ chanClosed' = TRUE
    /\ stop' = "waiting"
    /\ UNCHANGED <<job, jobChan, quitClosed, running, worker, process>>

\* wg.Wait returns in time ...
StopDone ==
    /\ stop = "waiting"
    /\ \A w \in Workers : pc[w] = "off"
    /\ stop' = "clean"
    /\ UNCHANGED <<job, jobChan, chanClosed, quitClosed, running, worker, process>>

\* ... or it does not.
StopTimeout ==
    /\ stop = "waiting"
    /\ \E w \in Workers : pc[w] # "off"
    /\ stop' = "timedout"
    /\ UNCHANGED <<job, jobChan, chanClosed, quitClosed, running, worker, process>>

\* main closes its other resources and returns.
Exit ==
    /\ stop \in {"clean", "timedout"}
    /\ process' = "exited"
    /\ UNCHANGED <<job, jobChan, driver, worker>>

-----------------------------------------------------------------------------
DispatchStep(j) ==
    \/ DispatchDelayed(j) \/ TimerFires(j) \/ TimerCancelled(j)
    \/ DispatchAccepted(j) \/ DispatchDropped(j) \/ DispatchPanics(j)

WorkerStep(w) ==
    \/ Receive(w) \/ HandlerReturns(w) \/ ReceiveClosed(w)
    \/ QuitSeen(w) \/ DrainEmpty(w)

\* Nothing happens in a process that has ended.
Ended == process # "up" /\ UNCHANGED vars

Next ==
    \/ /\ process = "up"
       /\ \/ \E j \in Jobs : DispatchStep(j)
          \/ \E w \in Workers : WorkerStep(w) \/ HandlerPanics(w)
          \/ Start \/ StopQuit \/ StopClose \/ StopDone \/ StopTimeout \/ Exit
    \/ Ended

Spec == Init /\ [][Next]_vars

\* The scheduler runs the workers and the goroutine in Stop; handlers return.
\* Nobody has to dispatch or to stop the driver.
Fairness ==
    /\ \A w \in Workers : WF_vars(process = "up" /\ WorkerStep(w))
    /\ WF_vars(process = "up" /\ Start)
    /\ WF_vars(process = "up" /\ StopClose)
    /\ WF_vars(process = "up" /\ StopDone)

FairSpec == Spec /\ Fairness

-----------------------------------------------------------------------------
(* Properties. *)

\* The state is well-formed, the channel holds each buffered job once, and each
\* running job has one worker.
TypeOK ==
    /\ job \in [Jobs -> {"new", "delayed", "due", "cancelled", "buffered",
                         "dropped", "panicked", "running", "done"}]
    /\ jobChan \in Seq(Jobs) /\ Len(jobChan) =< QueueSize
    /\ chanClosed \in BOOLEAN /\ quitClosed \in BOOLEAN /\ running \in BOOLEAN
    /\ stop \in {"none", "locked", "waiting", "clean", "timedout"}
    /\ pc \in [Workers -> {"off", "select", "drain"}]
    /\ task \in [Workers -> Jobs \union {NoJob}]
    /\ process \in {"up", "exited", "crashed"}
    /\ \A j \in Jobs : job[j] = "buffered" <=> \E i \in DOMAIN jobChan : jobChan[i] = j
    /\ \A i, k \in DOMAIN jobChan : jobChan[i] = jobChan[k] => i = k

\* When Stop returns nil, every job Dispatch accepted was executed: no job is
\* left in the channel or cut short, although a worker may return from its
\* drain before the channel is closed.
CleanStopDrains ==
    stop = "clean" => \A j \in Jobs : job[j] \notin {"buffered", "running"}

\* "Dispatch queues a job ... for background execution": an accepted job is
\* executed, unless Stop gave up waiting or a panic ended the process.
BufferedIsExecuted ==
    \A j \in Jobs : job[j] = "buffered" ~>
        job[j] = "done" \/ stop = "timedout" \/ process = "crashed"

\* "Stop gracefully stops the worker": once begun it returns.
StopReturns ==
    quitClosed ~> stop \in {"clean", "timedout"} \/ process = "crashed"

\* ErrQueueClosed, "queue has been closed": what a caller of a stopped driver
\* should get instead of a panic.
NoPanicAfterStop == \A j \in Jobs : job[j] # "panicked"

\* The driver keeps the promise of JobLifecycle with a single try.
PhaseOf(j) ==
    CASE job[j] = "buffered" -> "waiting"
      [] job[j] = "running"  -> IF process = "up" THEN "running" ELSE "lost"
      [] job[j] = "done"     -> "done"
      [] OTHER               -> "unborn"

Lifecycle == INSTANCE JobLifecycle WITH
    MaxTries <- 1,
    phase    <- [j \in Jobs |-> PhaseOf(j)],
    tries    <- [j \in Jobs |-> IF job[j] = "running" THEN 1 ELSE 0]

ImplementsSingleTry == Lifecycle!Spec

-----------------------------------------------------------------------------
(* Why CleanStopDrains holds: the parts of an inductive invariant.            *)

\* The flags say where Stop is, and before Stop the workers start together.
StageInv ==
    /\ quitClosed <=> stop # "none"
    /\ chanClosed <=> stop \in {"waiting", "clean", "timedout"}
    /\ running => stop \in {"none", "clean"}
    /\ stop = "none" => \A w \in Workers : pc[w] = IF running THEN "select" ELSE "off"

\* A running job has one worker, which has not returned.
TaskInv ==
    /\ \A w \in Workers :
          task[w] # NoJob => pc[w] # "off" /\ job[task[w]] = "running"
    /\ \A v, w \in Workers : task[v] = task[w] => v = w \/ task[v] = NoJob
    /\ \A j \in Jobs : job[j] = "running" => \E w \in Workers : task[w] = j

\* Once Stop has begun, a worker returns only from an empty channel, and the
\* mutex, then the closed channel, keep it empty.
DrainInv ==
    /\ quitClosed /\ (\E w \in Workers : pc[w] = "off") => jobChan = <<>>
    /\ stop = "clean" => jobChan = <<>> /\ \A w \in Workers : task[w] = NoJob

DriverInv == StageInv /\ TaskInv /\ DrainInv

\* Nothing of the memory driver restarts it.
StartedOnce == running => stop = "none"
=============================================================================
