--------------------------- MODULE MCDatabaseQueue ---------------------------
(* Small instances of DatabaseQueue: an API server and a worker container,    *)
(* each with one goroutine, as in docker-compose.yml with concurrency 1.      *)
EXTENDS DatabaseQueue, TLC

CONSTANTS api, worker, w1, w2

MCProcOf == w1 :> api @@ w2 :> worker
MCDelays == {0, 1}
MCNoDelay == {0}

-----------------------------------------------------------------------------
(* Two scenarios in one run: two jobs that compete for the SELECT with little *)
(* trouble, and one job, immediate or delayed, with much of it.               *)

VARIABLE scenario

Scenarios == {[jobs |-> 2, disruptions |-> 1, delays |-> {0}],
              [jobs |-> 1, disruptions |-> MaxDisruptions, delays |-> Delays]}

MCInit == Init /\ scenario \in Scenarios

\* The step stays within the bounds of the scenario.
Within ==
    /\ nextId' =< scenario.jobs + 1
    /\ nextId' > nextId => jobs'[nextId].availableAt - now \in scenario.delays
    /\ disruptions' =< scenario.disruptions

MCNext == Next /\ Within /\ UNCHANGED scenario

\* The bounds restrict Dispatch and the disruptions only, which are not fair.
MCSpec == MCInit /\ [][MCNext]_<<vars, scenario>> /\ Fairness
=============================================================================
