----------------------------- MODULE MCInProcess -----------------------------
(* Small instances of the two queues that live in one process: more jobs than *)
(* the channel holds, some delayed, and two workers. A behaviour is one of    *)
(* the memory driver or one of the legacy pool.                               *)
EXTENDS WorkerPool

CONSTANTS j1, j2, j3, j4

MCJobs == {j1, j2, j3, j4}
MCDelayedJobs == {j3, j4}

VARIABLE kind       \* whose behaviour it is

mcvars == <<vars, kind>>

MCInit == Init /\ kind \in {"driver", "pool"}

MCNext ==
    /\ \/ kind = "driver" /\ Next
       \/ kind = "pool" /\ PoolNext
    /\ UNCHANGED kind

\* MemoryQueue!Fairness, for both kinds: they start in different ways.
MCFairness ==
    /\ \A w \in Workers : WF_mcvars(process = "up" /\ WorkerStep(w) /\ UNCHANGED kind)
    /\ WF_mcvars(kind = "driver" /\ process = "up" /\ Start /\ UNCHANGED kind)
    /\ WF_mcvars(process = "up" /\ StopClose /\ UNCHANGED kind)
    /\ WF_mcvars(process = "up" /\ StopDone /\ UNCHANGED kind)

MCSpec == MCInit /\ [][MCNext]_mcvars /\ MCFairness

\* The legacy pool never panics in a caller of Dispatch, unless restarted.
PoolPanicsOnlyRestarted == kind = "pool" => PanicsOnlyRestarted

\* NoPanicAfterStop, of the memory driver alone.
NoCallerPanics == kind = "driver" => NoPanicAfterStop
=============================================================================
