----------------------------- MODULE MCWeakQueue -----------------------------
(* DatabaseQueue under each of the two assumptions that its theorems make and *)
(* that the surroundings may break: claims that overlap (PostgreSQL, MySQL),  *)
(* and handlers that outlive the ten minutes of a reservation.                *)
EXTENDS DatabaseQueue, TLC

CONSTANTS api, worker, w1, w2

MCProcOf == w1 :> api @@ w2 :> worker
MCNoDelay == {0}

\* The instance at hand has overlapping claims and timely workers; this one has
\* it the other way round.
Overrun == INSTANCE DatabaseQueue WITH IsolatedClaims <- TRUE, TimelyWorkers <- FALSE

VARIABLE mode       \* which of the two the state belongs to

MCInit == Init /\ mode \in {"overlapping", "overrun"}

\* A single disruption is enough beside an overrun, which is one itself.
MCNext ==
    /\ \/ mode = "overlapping" /\ Next
       \/ mode = "overrun" /\ Overrun!Next /\ disruptions' =< 1
    /\ UNCHANGED mode

mcvars == <<vars, mode>>

\* The fairness of either instance, for its own states. Only the actions that
\* look at an assumption differ.
MCFairness ==
    /\ \A w \in Workers :
          /\ WF_mcvars(mode = "overlapping" /\ WorkerStep(w) /\ UNCHANGED mode)
          /\ WF_mcvars(mode = "overrun" /\ Overrun!WorkerStep(w) /\ UNCHANGED mode)
    /\ \A p \in Procs :
          /\ WF_mcvars(Boot(p) /\ UNCHANGED mode)
          /\ WF_mcvars(StopDone(p) /\ UNCHANGED mode)
    /\ WF_mcvars(mode = "overlapping" /\ Tick /\ UNCHANGED mode)
    /\ WF_mcvars(mode = "overrun" /\ Overrun!Tick /\ UNCHANGED mode)

MCSpec == MCInit /\ [][MCNext]_mcvars /\ MCFairness
=============================================================================
