---------------------------- MODULE MCServerLife ----------------------------
(* The two containers of docker-compose.yml, with a database that serialises  *)
(* claims or with its PostgreSQL, which does not: one registration among      *)
(* several disruptions, or two registrations and at most one of them.         *)
EXTENDS ServerLife

CONSTANTS api, worker, q1, q2

VARIABLE scenario

mcvars == <<lifevars, scenario>>

\* Only registrations that are mailed, over claims that are serialised, need the
\* many ways to boot.
Simple == scenario = "two" \/ ~isolated \/ transport = "log"

MCInit ==
    /\ Init
    /\ scenario \in {"one", "two"}
    /\ ~isolated => Durable /\ scenario = "one"
    /\ Simple => migrates = {Api} /\ schema
    /\ scenario = "two" => transport = "smtp"

\* The bounds of the scenario.
Within ==
    /\ scenario = "one" => request'[q2] = "none"
    /\ Simple => /\ disruptions' =< 1
                 /\ disruptions' > disruptions => \A p \in Procs : "queue" \in open[p]

MCNext == Next /\ Within /\ UNCHANGED scenario

\* Within keeps registrations and disruptions away, which are not fair.
MCSpec ==
    /\ MCInit /\ [][MCNext]_mcvars
    /\ \A p \in Procs :
          /\ WF_mcvars(Boot(p) /\ Within /\ UNCHANGED scenario)
          /\ WF_mcvars(Shutdown(p) /\ Within /\ UNCHANGED scenario)
          /\ WF_mcvars(Settle(p) /\ Within /\ UNCHANGED scenario)
          /\ WF_mcvars((\E r \in Requests : Take(p, r)) /\ Within /\ UNCHANGED scenario)
    /\ \A r \in Requests :
          /\ WF_mcvars(Handle(r) /\ Within /\ UNCHANGED scenario)
          /\ WF_mcvars(GoStale(r) /\ Within /\ UNCHANGED scenario)
    /\ \A s \in Senders :
          WF_mcvars((\E r \in Requests : Send(s, r)) /\ Within /\ UNCHANGED scenario)
    /\ WF_mcvars(Recover /\ Within /\ UNCHANGED scenario)
=============================================================================
