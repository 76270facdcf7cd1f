------------------------------ MODULE WorkerPool ------------------------------
(***************************************************************************)
(* The legacy pool of pkg/worker (worker.go). Its workers, their drain and *)
(* the two closes of Stop are those of the memory driver, line by line;    *)
(* what differs is that Dispatch looks at "running" first, under the same  *)
(* mutex, that nothing is delayed, and that the model lets the owner call  *)
(* Start again after a Stop that returned.                                 *)
(***************************************************************************)
EXTENDS MemoryQueue

\* The pool was started again: running, with both channels closed for good.
Restarted == running /\ quitClosed

-----------------------------------------------------------------------------
(* Dispatch holds the mutex from the test of running to the end of its        *)
(* non-blocking send.                                                         *)

PoolDispatchRefused(j) ==
    /\ job[j] = "new" /\ MutexFree
    /\ ~running \/ (~chanClosed /\ Len(jobChan) = QueueSize)
    /\ Set(j, "dropped")
    /\ UNCHANGED <<jobChan, driver, worker, process>>

PoolDispatchAccepted(j) ==
    /\ job[j] = "new" /\ MutexFree
    /\ running /\ ~chanClosed /\ Len(jobChan) < QueueSize
    /\ jobChan' = Append(jobChan, j)
    /\ Set(j, "buffered")
    /\ UNCHANGED <<driver, worker, process>>

\* [mutant of PoolDispatchPanics] Dispatch does not look at running.
PoolDispatchPanicsStopped(j) ==
    /\ job[j] = "new" /\ MutexFree /\ chanClosed
    /\ Set(j, "panicked")
    /\ UNCHANGED <<jobChan, driver, worker, process>>

\* The send on the closed channel panics in the caller; the deferred unlock
\* releases the mutex.
PoolDispatchPanics(j) ==
    /\ job[j] = "new" /\ MutexFree
    /\ running /\ chanClosed
    /\ Set(j, "panicked")
    /\ UNCHANGED <<jobChan, driver, worker, process>>

-----------------------------------------------------------------------------
(* Start and Stop. The owner starts the pool again only when Stop has seen    *)
(* its workers return.                                                        *)

PoolStart ==
    /\ MutexFree /\ ~running /\ stop \in {"none", "clean"}
    /\ running' = TRUE
    /\ pc' = [w \in Workers |-> "select"]
    /\ UNCHANGED <<job, jobChan, chanClosed, quitClosed, stop, task, process>>

PoolStop == ~quitClosed /\ StopQuit

\* close(p.quit) of a closed channel panics in the goroutine of main.
PoolStopAgain ==
    /\ running /\ MutexFree /\ quitClosed
    /\ process' = "crashed"
    /\ UNCHANGED <<job, jobChan, driver, worker>>

-----------------------------------------------------------------------------
PoolNext ==
    \/ /\ process = "up"
       /\ \/ \E j \in Jobs : \/ PoolDispatchRefused(j) \/ PoolDispatchAccepted(j)
                             \/ PoolDispatchPanics(j)
          \/ \E w \in Workers : WorkerStep(w) \/ HandlerPanics(w)
          \/ PoolStart \/ PoolStop \/ PoolStopAgain
          \/ StopClose \/ StopDone \/ StopTimeout \/ Exit
    \/ Ended

PoolSpec == Init /\ [][PoolNext]_vars

-----------------------------------------------------------------------------
\* "Attempted to dispatch job to stopped worker pool" is what a late caller
\* gets: Dispatch races with Stop on the closed channel only after somebody
\* started the stopped pool again.
PanicsOnlyRestarted == (\E j \in Jobs : job[j] = "panicked") => Restarted
=============================================================================
