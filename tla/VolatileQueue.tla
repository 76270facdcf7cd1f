---------------------------- MODULE VolatileQueue ----------------------------
(***************************************************************************)
(* What a driver promises that keeps jobs on their way in the memory of    *)
(* the processes: one execution of a job at a time, an outcome that stays, *)
(* and no job lost or copied until something disturbed the system. A copy  *)
(* has a life of its own, so its job is executed twice. It promises        *)
(* neither an end to the retries of a job that keeps failing, because it   *)
(* forgets how often it was tried, nor another delivery of a lost one.     *)
(***************************************************************************)

CONSTANTS
    Jobs,
    OneAttempt  \* whether some process allows one attempt only

VARIABLES
    phase,      \* where each job is in its life
    disturbed   \* whether a process was stopped or anything has failed

vars == <<phase, disturbed>>

Init ==
    /\ phase = [j \in Jobs |-> "new"]
    /\ disturbed = FALSE

Move(j, from, to) ==
    /\ phase[j] = from
    /\ phase' = [phase EXCEPT ![j] = to]
    /\ UNCHANGED disturbed

Submit(j)   == Move(j, "new", "waiting")
Begin(j)    == Move(j, "waiting", "running")
Complete(j) == Move(j, "running", "done")

\* The handler failed: again later, however often that was, unless one attempt
\* is all there is.
Retry(j)  == Move(j, "running", "waiting")
GiveUp(j) == OneAttempt /\ Move(j, "running", "dead")

\* A disturbance, and later its consequences: jobs on their way are lost, all
\* those of a process at once, or none.
Lose ==
    \E S \in SUBSET {j \in Jobs : phase[j] \in {"waiting", "running"}} :
        /\ phase' = [j \in Jobs |-> IF j \in S THEN "lost" ELSE phase[j]]
        /\ disturbed' = TRUE

\* A disturbance makes a copy of a job, as the new job k.
Repeat(j, k) ==
    /\ phase[j] = "waiting" /\ phase[k] = "new"
    /\ phase' = [phase EXCEPT ![k] = "waiting"]
    /\ disturbed' = TRUE

Next ==
    \/ \E j \in Jobs : \/ Submit(j) \/ Begin(j) \/ Complete(j)
                       \/ Retry(j) \/ GiveUp(j)
    \/ \E j, k \in Jobs : Repeat(j, k)
    \/ Lose

Spec == Init /\ [][Next]_vars
=============================================================================
