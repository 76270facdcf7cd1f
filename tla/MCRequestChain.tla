--------------------------- MODULE MCRequestChain ---------------------------
(* Small instances of RequestChain: two requests that race for the limiter    *)
(* and the cleanup over several intervals, or one goroutine with requests of  *)
(* every kind while a token lives and expires.                                *)
EXTENDS RequestChain, FiniteSets

CONSTANTS r1, r2

VARIABLE scenario

mcvars == <<chainvars, scenario>>

MCInit ==
    /\ ChainInit
    /\ scenario \in {"racing", "mixed"}
    /\ scenario = "racing" => config.limited /\ ~config.all /\ ~config.credentials

\* Steps outside the limiter touch their own request only: letting one request
\* at a time make them loses no order that matters.
Outside == {r \in Requests : phase[r] \notin {"idle", "done"} /\ ~On(r, "RateLimiter")}

\* What the scenario leaves out.
Within ==
    \/ /\ scenario = "racing"
       /\ \A r, q \in Outside' : r = q
       /\ <<now', since'>> # <<now, since>> => Outside = {}
       /\ \A r \in Requests : req'[r] = req[r] /\ phase'[r] # "panic" /\ status'[r] # 503
    \/ /\ scenario = "mixed"
       /\ phase'[r2] = "idle"
       /\ now' =< TokenLife + 1
       /\ since' = 0 /\ Cardinality(issued') =< 2
       /\ config.limited \/ config.all \/ config.credentials \/ req'[r1].origin # None
              => req'[r1].route \in {"preflight", "health"}

MCNext == ChainNext /\ Within /\ UNCHANGED scenario

\* Strong where RequestChain needs weak fairness: without Within, a step that a
\* request can take stays possible until it takes it.
MCSpec == MCInit /\ [][MCNext]_mcvars
              /\ \A r \in Requests : SF_mcvars(Serve(r) /\ Within /\ UNCHANGED scenario)
=============================================================================
