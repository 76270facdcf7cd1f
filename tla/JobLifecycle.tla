----------------------------- MODULE JobLifecycle -----------------------------
(***************************************************************************)
(* What a durable queue driver of pkg/queue promises about a job,          *)
(* whatever table, lock or clock it uses to keep the promise: at most one  *)
(* execution at a time, a retry only while attempts are left, failure only *)
(* when they are not, another delivery only after a lost one, and no way   *)
(* back from done or dead.                                                 *)
(***************************************************************************)
EXTENDS Naturals

CONSTANTS Jobs, MaxTries

VARIABLES
    phase,  \* where each job is in its life
    tries   \* deliveries of a job that is neither unborn nor done

vars == <<phase, tries>>

Phases == {"unborn", "waiting", "running", "lost", "done", "dead"}

Init ==
    /\ phase = [j \in Jobs |-> "unborn"]
    /\ tries = [j \in Jobs |-> 0]

Move(j, from, to) ==
    /\ phase[j] = from
    /\ phase' = [phase EXCEPT ![j] = to]

\* Dispatch accepts the job.
Submit(j) == Move(j, "unborn", "waiting") /\ UNCHANGED tries

\* A worker takes a waiting job: one more delivery, within the limit.
Begin(j) ==
    /\ Move(j, "waiting", "running")
    /\ tries[j] < MaxTries
    /\ tries' = [tries EXCEPT ![j] = @ + 1]

\* The handler succeeded, and the record of the job is dropped.
Complete(j) ==
    /\ Move(j, "running", "done")
    /\ tries' = [tries EXCEPT ![j] = 0]

\* The handler failed: once more later, or never again.
Postpone(j) ==
    /\ Move(j, "running", "waiting")
    /\ tries[j] < MaxTries
    /\ UNCHANGED tries

GiveUp(j) ==
    /\ Move(j, "running", "dead")
    /\ tries[j] >= MaxTries
    /\ UNCHANGED tries

\* Executions end without an outcome, all those of a process at once.
Lose ==
    \E S \in SUBSET Jobs :
        /\ \A j \in S : phase[j] = "running"
        /\ phase' = [j \in Jobs |-> IF j \in S THEN "lost" ELSE phase[j]]
        /\ UNCHANGED tries

\* A lost job is delivered again, beyond the limit if need be.
Redeliver(j) ==
    /\ Move(j, "lost", "running")
    /\ tries' = [tries EXCEPT ![j] = @ + 1]

Next ==
    \/ \E j \in Jobs : \/ Submit(j) \/ Begin(j) \/ Complete(j) \/ Postpone(j)
                       \/ GiveUp(j) \/ Redeliver(j)
    \/ Lose

Spec == Init /\ [][Next]_vars
=============================================================================
