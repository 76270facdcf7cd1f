-------------------------- MODULE ServerLifeProofs --------------------------
(***************************************************************************)
(* Proofs about ServerLife, for every set of processes and registrations   *)
(* and every number of disruptions: its types, that the shutdown of        *)
(* cmd/api and cmd/worker closes nothing that is in use, when two workers  *)
(* may execute one job, and that each mail is accounted for.               *)
(***************************************************************************)
EXTENDS ServerLife, FiniteSetTheorems, TLAPS

USE LifeAssumption

\* The parts of TypeOK as facts about single variables.
LEMMA TypeFacts ==
    ASSUME TypeOK
    PROVE  /\ stage \in [Procs -> {"down", "database", "migrating", "redis", "queue",
                                   "listening", "up", "draining", "stopping",
                                   "redis closed", "closed"}]
           /\ open \in [Procs -> SUBSET {"db", "redis", "queue", "http"}]
           /\ overdue \subseteq Procs
           /\ request \in [Requests -> {"none", "inserting", "dispatching", "sending",
                                        "created", "failed", "killed"}]
           /\ phase \in [Requests -> {"unborn", "waiting", "running", "stale", "done",
                                      "dead", "gone"}]
           /\ tries \in [Requests -> Nat] /\ repeats \in [Requests -> Nat]
           /\ claim \in [Procs -> Requests \union {Nothing}] /\ held \in [Procs -> Nat]
           /\ work \in [Procs -> Requests \union {Nothing}] /\ overrun \subseteq Requests
           /\ isolated \in BOOLEAN /\ driver \in {"database", "memory", "sync"}
           /\ transport \in {"smtp", "log"} /\ session \in [Senders -> Sessions]
           /\ silent \subseteq Senders
           /\ delivered \in [Senders -> BOOLEAN] /\ accepted \in [Requests -> Nat]
           /\ schema \in BOOLEAN /\ reachable \subseteq {"db", "redis"}
           /\ migrates \subseteq Procs
BY DEF TypeOK, MailTypeOK, Phases

-----------------------------------------------------------------------------
(* Types.                                                                     *)

\* The end of a process keeps the types.
LEMMA VanishTypes ==
    ASSUME TypeOK, NEW p \in Procs, Vanish(p)
    PROVE  TypeOK'
<1>1. /\ stage' \in [Procs -> {"down", "database", "migrating", "redis", "queue",
                               "listening", "up", "draining", "stopping",
                               "redis closed", "closed"}]
      /\ open' \in [Procs -> SUBSET {"db", "redis", "queue", "http"}]
      /\ overdue' \subseteq Procs
      /\ work' \in [Procs -> Requests \union {Nothing}]
      /\ claim' \in [Procs -> Requests \union {Nothing}] /\ held' \in [Procs -> Nat]
      /\ silent' \subseteq Senders
  BY TypeFacts DEF Vanish
<1>2. phase' \in [Requests -> {"unborn", "waiting", "running", "stale", "done",
                               "dead", "gone"}]
  BY TypeFacts DEF Vanish, PhaseAfter
<1>3. request' \in [Requests -> {"none", "inserting", "dispatching", "sending",
                                 "created", "failed", "killed"}]
  BY TypeFacts DEF Vanish
<1>4. repeats' \in [Requests -> Nat]
  <2> DEFINE more(r) == Died(p, r) /\ delivered[SenderOf(p, r)]
  <2>1. repeats' = [r \in Requests |-> IF more(r) THEN repeats[r] + 1 ELSE repeats[r]]
    BY DEF Vanish
  <2>0. repeats \in [Requests -> Nat]
    BY TypeFacts
  <2>2. \A r \in Requests : repeats[r] \in Nat /\ repeats[r] + 1 \in Nat
    BY <2>0
  <2> HIDE DEF more
  <2> QED
    BY <2>1, <2>2
<1>5. session' \in [Senders -> Sessions]
  <2>1. \A s \in Senders : session[s] \in Sessions
    BY TypeFacts
  <2> QED
    BY <2>1 DEF Vanish, Sessions
<1>6. delivered' \in [Senders -> BOOLEAN]
  <2> DEFINE gone == {p} \union (IF p = Api THEN Requests ELSE {})
  <2>1. delivered' = [s \in Senders |-> s \notin gone /\ delivered[s]]
    BY DEF Vanish
  <2>2. \A s \in Senders : (s \notin gone /\ delivered[s]) \in BOOLEAN
    OBVIOUS
  <2> QED
    BY <2>1, <2>2
<1>7. UNCHANGED <<setup, server, tries, overrun, transport, accepted>>
  BY DEF Vanish
<1>8. MailTypeOK'
  BY <1>1, <1>5, <1>6, <1>7 DEF TypeOK, MailTypeOK
<1>9. phase' \in [Requests -> Phases]
  BY <1>2 DEF Phases
<1> QED
  BY <1>1, <1>3, <1>4, <1>7, <1>8, <1>9 DEF TypeOK, setup, server

\* A stage of main keeps the types, whichever way it leads.
LEMMA StageTypes ==
    ASSUME TypeOK, NEW p \in Procs,
           NEW to \in {"database", "migrating", "redis", "queue", "listening", "up",
                       "draining", "stopping", "redis closed", "closed"},
           NEW having \in SUBSET {"db", "redis", "queue", "http"},
           stage' = [stage EXCEPT ![p] = to],
           open' = [open EXCEPT ![p] = having],
           overdue' \subseteq overdue \union {p}, schema' \in BOOLEAN,
           UNCHANGED <<setup, reachable, request, jobs, mailvars>>
    PROVE  TypeOK'
<1>1. /\ stage' \in [Procs -> {"down", "database", "migrating", "redis", "queue",
                               "listening", "up", "draining", "stopping",
                               "redis closed", "closed"}]
      /\ open' \in [Procs -> SUBSET {"db", "redis", "queue", "http"}]
      /\ overdue' \subseteq Procs
  BY TypeFacts
<1> QED
  BY <1>1, TypeFacts DEF TypeOK, MailTypeOK, Phases, setup, jobs, copies, mailvars

\* A step of the boot keeps the types.
LEMMA ReachTypes ==
    ASSUME TypeOK, NEW p \in Procs,
           NEW to \in {"database", "migrating", "redis", "queue", "listening", "up"},
           NEW opened \in SUBSET {"db", "redis", "queue", "http"},
           Reach(p, to, opened), schema' \in BOOLEAN
    PROVE  TypeOK'
<1>1. open[p] \union opened \in SUBSET {"db", "redis", "queue", "http"}
  BY TypeFacts
<1>2. open' = [open EXCEPT ![p] = open[p] \union opened]
  BY DEF Reach
<1> QED
  BY <1>1, <1>2, StageTypes DEF Reach

\* A step of the shutdown keeps the types.
LEMMA CloseTypes ==
    ASSUME TypeOK, NEW p \in Procs, NEW to \in {"stopping", "redis closed", "closed"},
           NEW closed, Close(p, to, closed), overdue' \subseteq overdue \union {p}
    PROVE  TypeOK'
<1>1. open[p] \ closed \in SUBSET {"db", "redis", "queue", "http"}
  BY TypeFacts
<1>2. open' = [open EXCEPT ![p] = open[p] \ closed]
  BY DEF Close
<1>3. schema' \in BOOLEAN /\ reachable' = reachable
  BY TypeFacts DEF Close, server
<1> QED
  BY <1>1, <1>2, <1>3, StageTypes DEF Close

\* The boot of a process.
LEMMA BootTypes ==
    ASSUME TypeOK, NEW p \in Procs, Boot(p)
    PROVE  TypeOK'
<1>0. schema \in BOOLEAN
  BY TypeFacts
<1>1. CASE Launch(p)
  BY <1>0, <1>1, ReachTypes DEF Launch
<1>2. CASE InitDB(p)
  BY <1>0, <1>2, ReachTypes, VanishTypes DEF InitDB, Fail
<1>3. CASE AutoMigrate(p)
  BY <1>0, <1>3, ReachTypes, VanishTypes DEF AutoMigrate, Fail
<1>4. CASE InitRedis(p)
  BY <1>0, <1>4, ReachTypes, VanishTypes DEF InitRedis, Fail
<1>5. CASE StartQueue(p)
  BY <1>0, <1>5, ReachTypes DEF StartQueue
<1>6. CASE p = Api /\ Listen
  BY <1>0, <1>6, ReachTypes, VanishTypes DEF Listen, Fail
<1> QED
  BY <1>1, <1>2, <1>3, <1>4, <1>5, <1>6 DEF Boot

\* A signal, and what main does about it.
LEMMA ShutdownTypes ==
    ASSUME TypeOK, NEW p \in Procs, Shutdown(p) \/ Terminate(p) \/ Crash(p)
    PROVE  TypeOK'
<1>1. CASE p = Api /\ (Drained \/ DrainTimeout)
  BY <1>1, CloseTypes DEF Drained, DrainTimeout
<1>2. CASE Stopped(p) \/ StopTimeout(p)
  BY <1>2, CloseTypes DEF Stopped, StopTimeout
<1>3. CASE CloseDB(p)
  BY <1>3, CloseTypes DEF CloseDB
<1>4. CASE Exit(p) \/ Crash(p)
  BY <1>4, VanishTypes DEF Exit, Crash
<1>5. CASE Terminate(p)
  <2>1. CASE stage[p] # "up"
    BY <1>5, <2>1, VanishTypes DEF Terminate
  <2>2. CASE stage[p] = "up"
    <3> DEFINE to == IF p = Api THEN "draining" ELSE "stopping"
               having == open[p] \ (IF p = Api THEN {"http"} ELSE {"queue"})
    <3>1. /\ stage' = [stage EXCEPT ![p] = to]
          /\ open' = [open EXCEPT ![p] = having]
          /\ UNCHANGED <<setup, server, overdue, request, jobs, mailvars>>
      BY <1>5, <2>2 DEF Terminate
    <3>2. having \in SUBSET {"db", "redis", "queue", "http"} /\ schema' \in BOOLEAN
      BY <3>1, TypeFacts DEF server
    <3>3. to \in {"database", "migrating", "redis", "queue", "listening", "up",
                  "draining", "stopping", "redis closed", "closed"}
      OBVIOUS
    <3>4. reachable' = reachable /\ overdue' \subseteq overdue \union {p}
      BY <3>1 DEF server
    <3> HIDE DEF to, having
    <3> QED
      BY <3>1, <3>2, <3>3, <3>4, StageTypes
  <2> QED
    BY <2>1, <2>2
<1> QED
  BY <1>1, <1>2, <1>3, <1>4, <1>5 DEF Shutdown

\* What Send does in a goroutine keeps the types of the mailer.
LEMMA MailTypes ==
    ASSUME TypeOK, NEW s \in Senders, NEW m \in Requests,
           Compose(s) \/ SendStep(s, m) \/ Hang(s) \/ Wake(s)
    PROVE  MailTypeOK'
<1>1. session' \in [Senders -> Sessions]
  <2>1. \E step \in Sessions : session' = session \/ session' = [session EXCEPT ![s] = step]
    BY DEF Compose, SendStep, Converse, EndText, Quit, Hang, Wake, Goes, Sessions
  <2>2. session \in [Senders -> Sessions]
    BY TypeFacts
  <2> QED
    BY <2>1, <2>2
<1>0. silent' \subseteq Senders
  BY TypeFacts DEF Compose, SendStep, Hang, Wake
<1>2. delivered' \in [Senders -> BOOLEAN] /\ accepted' \in [Requests -> Nat]
  <2>1. delivered \in [Senders -> BOOLEAN] /\ accepted \in [Requests -> Nat]
    BY TypeFacts
  <2>2. \/ UNCHANGED <<delivered, accepted>>
        \/ /\ delivered' = [delivered EXCEPT ![s] = TRUE]
           /\ accepted' = [accepted EXCEPT ![m] = accepted[m] + 1]
    BY DEF Compose, SendStep, Converse, EndText, Quit, Hang, Wake
  <2>3. delivered' \in [Senders -> BOOLEAN]
    BY <2>1, <2>2
  <2>4. accepted' \in [Requests -> Nat]
    BY <2>1, <2>2
  <2> QED
    BY <2>3, <2>4
<1>3. transport' = transport
  BY DEF Compose, SendStep, Converse, EndText, Quit, Hang, Wake
<1> QED
  BY <1>0, <1>1, <1>2, <1>3, TypeFacts DEF MailTypeOK

\* Send has returned: the types of the mailer and of the history.
LEMMA ReturnedTypes ==
    ASSUME TypeOK, NEW s \in Senders, NEW r \in Requests, NEW counts,
           Returned(s, r, counts)
    PROVE  MailTypeOK' /\ repeats' \in [Requests -> Nat]
<1>1. session' \in [Senders -> Sessions] /\ delivered' \in [Senders -> BOOLEAN]
  BY TypeFacts DEF Returned, Goes, Sessions
<1>2. repeats \in [Requests -> Nat]
  BY TypeFacts
<1>3. repeats' = repeats \/ repeats' = [repeats EXCEPT ![r] = repeats[r] + 1]
  BY DEF Returned
<1>4. repeats' \in [Requests -> Nat]
  BY <1>2, <1>3
<1> QED
  BY <1>1, <1>4, TypeFacts DEF Returned, MailTypeOK

\* A registration, from its arrival to its answer.
LEMMA RequestTypes ==
    ASSUME TypeOK, NEW r \in Requests, Arrive(r) \/ Handle(r)
    PROVE  TypeOK'
<1>0. r \in Senders
  OBVIOUS
<1>1. CASE Arrive(r) \/ Insert(r)
  <2>1. request' \in [Requests -> {"none", "inserting", "dispatching", "sending",
                                   "created", "failed", "killed"}]
    <3>1. \E how \in {"inserting", "dispatching", "failed"} :
              request' = [request EXCEPT ![r] = how]
      BY <1>1 DEF Arrive, Insert, Answers
    <3> QED
      BY <3>1, TypeFacts
  <2>2. UNCHANGED <<setup, server, life, jobs, mailvars>>
    BY <1>1 DEF Arrive, Insert
  <2> QED
    BY <2>1, <2>2
       DEF TypeOK, MailTypeOK, Phases, setup, server, life, jobs, copies, mailvars
<1>2. CASE Dispatch(r)
  <2>1. request' \in [Requests -> {"none", "inserting", "dispatching", "sending",
                                   "created", "failed", "killed"}]
    <3>1. \E how \in {"created", "failed", "sending"} :
              request' = [request EXCEPT ![r] = how]
      BY <1>2 DEF Dispatch, Answers
    <3> QED
      BY <3>1, TypeFacts
  <2>2. phase' \in [Requests -> Phases]
    <3>1. \E to \in Phases : phase' = phase \/ phase' = [phase EXCEPT ![r] = to]
      BY <1>2 DEF Dispatch, Move, Phases
    <3>2. phase \in [Requests -> Phases]
      BY DEF TypeOK
    <3> QED
      BY <3>1, <3>2
  <2>3. MailTypeOK'
    <3>2. CASE Compose(r)
      BY <1>0, <3>2, MailTypes
    <3>3. CASE UNCHANGED mailvars
      BY <3>3, TypeFacts DEF mailvars, MailTypeOK
    <3> QED
      BY <1>2, <3>2, <3>3 DEF Dispatch
  <2>4. UNCHANGED <<setup, server, life, tries, copies, overrun, repeats>>
    BY <1>2 DEF Dispatch
  <2> QED
    BY <2>1, <2>2, <2>3, <2>4, TypeFacts DEF TypeOK, setup, server, life, copies
<1>3. CASE Dispatched(r)
  <2>1. request' \in [Requests -> {"none", "inserting", "dispatching", "sending",
                                   "created", "failed", "killed"}]
    BY <1>3, TypeFacts DEF Dispatched, Answers
  <2>2. phase' \in [Requests -> Phases]
    BY <1>3, TypeFacts DEF Dispatched, Move, Phases
  <2>3. MailTypeOK' /\ repeats' \in [Requests -> Nat]
    BY <1>0, <1>3, ReturnedTypes DEF Dispatched
  <2>4. UNCHANGED <<setup, server, life, tries, copies, overrun>>
    BY <1>3 DEF Dispatched
  <2> QED
    BY <2>1, <2>2, <2>3, <2>4, TypeFacts DEF TypeOK, setup, server, life, copies
<1> QED
  BY <1>1, <1>2, <1>3 DEF Handle

\* A worker finds a job and begins with it.
LEMMA TakeTypes ==
    ASSUME TypeOK, NEW p \in Procs, NEW r \in Requests, Take(p, r)
    PROVE  TypeOK'
<1>1. CASE Receive(p, r)
  <2>1. phase' \in [Requests -> Phases] /\ work' \in [Procs -> Requests \union {Nothing}]
    BY <1>1, TypeFacts DEF Receive, Move, Phases
  <2>2. MailTypeOK'
    BY <1>1, MailTypes DEF Receive
  <2>3. UNCHANGED <<setup, server, life, request, tries, claim, held, overrun, repeats>>
    BY <1>1 DEF Receive
  <2> QED
    BY <2>1, <2>2, <2>3, TypeFacts DEF TypeOK, setup, server, life
<1>2. CASE Select(p, r) \/ ClaimError(p)
  <2>1. /\ claim \in [Procs -> Requests \union {Nothing}]
        /\ held \in [Procs -> Nat] /\ tries \in [Requests -> Nat]
    BY TypeFacts
  <2>2. /\ claim' \in [Procs -> Requests \union {Nothing}]
        /\ held' \in [Procs -> Nat]
    <3>1. PICK n \in Nat, c \in Requests \union {Nothing} :
              held' = [held EXCEPT ![p] = n] /\ claim' = [claim EXCEPT ![p] = c]
      BY <1>2, <2>1 DEF Select, ClaimError
    <3> QED
      BY <2>1, <3>1
  <2>3. UNCHANGED <<setup, server, life, request, phase, tries, work, overrun, repeats,
                    mailvars>>
    BY <1>2 DEF Select, ClaimError
  <2> QED
    BY <2>2, <2>3, TypeFacts DEF TypeOK, MailTypeOK, Phases, setup, server, life, mailvars
<1>3. CASE claim[p] = r /\ SaveClaim(p)
  <2>1. /\ phase' \in [Requests -> Phases]
        /\ claim' \in [Procs -> Requests \union {Nothing}]
        /\ work' \in [Procs -> Requests \union {Nothing}]
    BY <1>3, TypeFacts DEF SaveClaim, Phases
  <2>2. tries' \in [Requests -> Nat]
    BY <1>3, TypeFacts DEF SaveClaim
  <2>3. repeats' \in [Requests -> Nat]
    <3>1. repeats' = repeats \/ repeats' = [repeats EXCEPT ![r] = repeats[r] + 1]
      BY <1>3 DEF SaveClaim
    <3>2. repeats \in [Requests -> Nat]
      BY TypeFacts
    <3> QED
      BY <3>1, <3>2
  <2>4. MailTypeOK'
    BY <1>3, MailTypes DEF SaveClaim
  <2>5. UNCHANGED <<setup, server, life, request, held, overrun>>
    BY <1>3 DEF SaveClaim
  <2> QED
    BY <2>1, <2>2, <2>3, <2>4, <2>5, TypeFacts DEF TypeOK, setup, server, life
<1> QED
  BY <1>1, <1>2, <1>3 DEF Take

\* What becomes of a job, or of its reservation.
LEMMA SettleTypes ==
    ASSUME TypeOK, NEW p \in Procs, NEW r \in Requests,
           (Settle(p) /\ work[p] = r) \/ GoStale(r)
    PROVE  TypeOK'
<1>1. CASE Settle(p) /\ work[p] = r
  <2>1. /\ work' \in [Procs -> Requests \union {Nothing}] /\ held' \in [Procs -> Nat]
    BY <1>1, TypeFacts DEF Settle
  <2>2. phase' \in [Requests -> Phases] /\ tries' \in [Requests -> Nat]
    <3>1. \/ phase' = phase
          \/ \E to \in Phases : phase' = [phase EXCEPT ![r] = to]
      BY <1>1 DEF Settle, SettleRow, Phases
    <3>2. tries' = tries \/ tries' = [tries EXCEPT ![r] = 0]
      BY <1>1 DEF Settle, SettleRow
    <3>3. phase \in [Requests -> Phases] /\ tries \in [Requests -> Nat]
      BY DEF TypeOK
    <3> QED
      BY <3>1, <3>2, <3>3
  <2>3. MailTypeOK' /\ repeats' \in [Requests -> Nat]
    BY <1>1, ReturnedTypes DEF Settle
  <2>4. UNCHANGED <<setup, server, life, request, claim, overrun>>
    BY <1>1 DEF Settle
  <2> QED
    BY <2>1, <2>2, <2>3, <2>4, TypeFacts DEF TypeOK, setup, server, life
<1>2. CASE GoStale(r)
  <2>1. phase' \in [Requests -> Phases] /\ overrun' \subseteq Requests
    BY <1>2, TypeFacts DEF GoStale, Move, Phases
  <2>2. UNCHANGED <<setup, server, life, request, tries, copies, repeats, mailvars>>
    BY <1>2 DEF GoStale
  <2> QED
    BY <2>1, <2>2, TypeFacts
       DEF TypeOK, MailTypeOK, setup, server, life, copies, mailvars
<1> QED
  BY <1>1, <1>2

\* The steps of Send, and the servers that come and go.
LEMMA SurroundingsTypes ==
    ASSUME TypeOK,
           \/ Outage \/ Recover
           \/ \E s \in Senders, r \in Requests : Send(s, r) \/ Interrupt(s, r)
    PROVE  TypeOK'
<1>1. ASSUME NEW s \in Senders, NEW r \in Requests, Send(s, r) \/ Interrupt(s, r)
      PROVE  TypeOK'
  <2>1. MailTypeOK'
    BY <1>1, MailTypes DEF Send, Interrupt
  <2>2. UNCHANGED <<setup, server, life, request, jobs>>
    BY <1>1 DEF Send, Interrupt
  <2> QED
    BY <2>1, <2>2, TypeFacts DEF TypeOK, Phases, setup, server, life, jobs, copies
<1>2. CASE Outage \/ Recover
  <2>1. reachable' \subseteq {"db", "redis"}
    BY <1>2, TypeFacts DEF Outage, Recover
  <2>2. UNCHANGED <<setup, schema, life, request, jobs, mailvars>>
    BY <1>2 DEF Outage, Recover
  <2> QED
    BY <2>1, <2>2, TypeFacts
       DEF TypeOK, MailTypeOK, Phases, setup, life, jobs, copies, mailvars
<1> QED
  BY <1>1, <1>2

\* Every action keeps the state well-formed.
LEMMA TypeStep == TypeOK /\ [Next]_lifevars => TypeOK'
<1> SUFFICES ASSUME TypeOK, [Next]_lifevars PROVE TypeOK'
  OBVIOUS
<1>1. CASE UNCHANGED lifevars
  BY <1>1, TypeFacts
     DEF TypeOK, MailTypeOK, Phases, lifevars, setup, server, life, jobs, copies, mailvars
<1>2. ASSUME NEW p \in Procs, Settle(p) PROVE TypeOK'
  <2>1. work[p] \in Requests
    BY <1>2, TypeFacts DEF Settle
  <2> QED
    BY <1>2, <2>1, SettleTypes
<1>3. ASSUME NEW r \in Requests, GoStale(r) PROVE TypeOK'
  BY <1>3, SettleTypes
<1> QED
  BY <1>1, <1>2, <1>3, BootTypes, ShutdownTypes, TakeTypes, RequestTypes,
     SurroundingsTypes DEF Next

\* Whatever the processes, the registrations and the disruptions, the state is
\* well-formed.
THEOREM TypeCorrect == Spec => []TypeOK
<1>1. Init => TypeOK
  <2> SUFFICES ASSUME Init PROVE TypeOK
    OBVIOUS
  <2>1. MailTypeOK
    BY DEF Init, MailInit, MailTypeOK, Sessions, NewMailer
  <2> QED
    BY <2>1 DEF Init, TypeOK, Phases, InitQueue
<1> QED
  BY <1>1, TypeStep, PTL DEF Spec

-----------------------------------------------------------------------------
(* The order of shutdown. The inductive invariant is LifeInv: what is open    *)
(* follows from where main is, and work is only where something is open.      *)

\* main of one process goes to another stage and leaves requests and jobs alone.
LEMMA StageStep ==
    ASSUME TypeOK, LifeInv, NEW p \in Procs, NEW to,
           stage' = [stage EXCEPT ![p] = to],
           \A q \in Procs \ {p} : open'[q] = open[q],
           open'[p] = OpenAt(p)',
           overdue \subseteq overdue', overdue' \subseteq overdue \union {p},
           p \in overdue' => to \in Late,
           to \in {"listening", "draining"} => p = Api,
           p = Api /\ Api \notin overdue' =>
               /\ (\E r \in Requests : Active(r)) => to \in {"up", "draining"}
               /\ to \in {"redis closed", "closed"} => ~Buffered,
           ~Idle(p) /\ p \notin overdue'
               => to \in {"listening", "up", "draining", "stopping"},
           UNCHANGED <<driver, isolated, request, phase, claim, work, overrun>>
    PROVE  LifeInv'
<1>1. stage \in [Procs -> {"down", "database", "migrating", "redis", "queue",
                           "listening", "up", "draining", "stopping",
                           "redis closed", "closed"}]
  BY TypeFacts
<1>2. stage'[p] = to /\ \A q \in Procs \ {p} : stage'[q] = stage[q]
  BY <1>1
<1>3. \A q \in Procs \ {p} : OpenAt(q)' = OpenAt(q)
  BY <1>2 DEF OpenAt
<1>4. OpenAsStaged'
  BY <1>2, <1>3 DEF LifeInv, OpenAsStaged
<1>5. /\ \A r \in Requests : Active(r)' <=> Active(r)
      /\ Buffered' <=> Buffered
      /\ \A q \in Procs : Idle(q)' <=> Idle(q)
  BY DEF Active, Buffered, Idle
<1>6. WorkWhileServed'
  BY <1>2, <1>5 DEF LifeInv, WorkWhileServed
<1>7. DriverKeepsJobs' /\ ClaimsAgree'
  BY DEF LifeInv, DriverKeepsJobs, ClaimsAgree, Durable
<1> QED
  BY <1>4, <1>6, <1>7 DEF LifeInv

\* main stays where it is in every process, while requests and jobs go on.
LEMMA WorkStep ==
    ASSUME LifeInv, UNCHANGED <<driver, life>>,
           Api \notin overdue =>
               /\ \A r \in Requests :
                     Active(r)' => Active(r) \/ stage[Api] \in {"up", "draining"}
               /\ stage[Api] \in {"redis closed", "closed"} /\ Buffered' => Buffered,
           \A p \in Procs : ~Idle(p)' /\ Idle(p) =>
               p \in overdue \/ stage[p] \in {"listening", "up", "draining", "stopping"},
           DriverKeepsJobs', ClaimsAgree'
    PROVE  LifeInv'
<1>1. /\ UNCHANGED <<stage, open, overdue>>
      /\ \A p \in Procs : OpenAt(p)' = OpenAt(p)
  BY DEF life, OpenAt
<1>2. OpenAsStaged'
  BY <1>1 DEF LifeInv, OpenAsStaged
<1>3. WorkWhileServed'
  BY <1>1 DEF LifeInv, WorkWhileServed
<1> QED
  BY <1>2, <1>3 DEF LifeInv

\* A process ends: its jobs and requests end with it, those of others do not.
LEMMA VanishStep ==
    ASSUME TypeOK, LifeInv, NEW p \in Procs, Vanish(p)
    PROVE  LifeInv'
<1>f. /\ stage \in [Procs -> {"down", "database", "migrating", "redis", "queue",
                              "listening", "up", "draining", "stopping",
                              "redis closed", "closed"}]
      /\ open \in [Procs -> SUBSET {"db", "redis", "queue", "http"}]
      /\ claim \in [Procs -> Requests \union {Nothing}]
      /\ work \in [Procs -> Requests \union {Nothing}]
  BY TypeFacts
<1>1. /\ stage'[p] = "down" /\ open'[p] = {}
      /\ \A q \in Procs \ {p} : stage'[q] = stage[q] /\ open'[q] = open[q]
      /\ overdue' = overdue \ {p} /\ UNCHANGED <<driver, isolated, overrun>>
  BY <1>f DEF Vanish, setup
<1>w. /\ claim'[p] = Nothing /\ work'[p] = Nothing
      /\ \A q \in Procs \ {p} : claim'[q] = claim[q] /\ work'[q] = work[q]
  BY <1>f DEF Vanish
<1>2. OpenAsStaged'
  <2>1. \A q \in Procs \ {p} : OpenAt(q)' = OpenAt(q)
    BY <1>1 DEF OpenAt
  <2>2. OpenAt(p)' = {}
    BY <1>1 DEF OpenAt
  <2> QED
    BY <1>1, <2>1, <2>2 DEF LifeInv, OpenAsStaged
<1>3. \A r \in Requests :
          /\ request'[r] = IF p = Api /\ Active(r) THEN "killed" ELSE request[r]
          /\ phase'[r] = PhaseAfter(p, r)
  BY DEF Vanish
<1>4. DriverKeepsJobs'
  BY <1>1, <1>w, <1>3 DEF LifeInv, DriverKeepsJobs, Durable
<1>5. ClaimsAgree'
  <2> SUFFICES ASSUME Durable, isolated PROVE ClaimsAgree'
    BY <1>1 DEF ClaimsAgree, Durable
  <2>1. \A r \in Requests : phase'[r] = phase[r]
    BY <1>3 DEF PhaseAfter
  <2>2. \A q \in Procs : claim[q] # Nothing => claim[q] \in Requests
    BY <1>f
  <2> QED
    BY <1>1, <1>w, <2>1, <2>2 DEF LifeInv, ClaimsAgree
<1>6. WorkWhileServed'
  <2>1. CASE p = Api
    <3>1. \A r \in Requests : ~Active(r)'
      BY <1>3, <2>1 DEF Active
    <3> QED
      BY <1>1, <1>w, <2>1, <3>1 DEF LifeInv, WorkWhileServed, Idle
  <2>2. CASE p # Api
    <3>1. \A r \in Requests : Active(r)' <=> Active(r)
      BY <1>3, <2>2 DEF Active
    <3>2. Buffered' => Buffered
      BY <1>1, <1>3, <2>2 DEF Buffered, PhaseAfter, Durable
    <3>3. stage'[Api] = stage[Api] /\ (Api \in overdue' <=> Api \in overdue)
      BY <1>1, <2>2
    <3>4. \A q \in Procs \ overdue' : ~Idle(q)' =>
              q \notin overdue /\ ~Idle(q) /\ stage'[q] = stage[q]
      BY <1>1, <1>w DEF Idle
    <3> QED
      BY <3>1, <3>2, <3>3, <3>4 DEF LifeInv, WorkWhileServed
  <2> QED
    BY <2>1, <2>2
<1> QED
  BY <1>2, <1>4, <1>5, <1>6 DEF LifeInv

\* On its way up main opens one thing after the other, or fails altogether.
LEMMA BootStep ==
    ASSUME TypeOK, LifeInv, NEW p \in Procs, Boot(p)
    PROVE  LifeInv'
<1>f. /\ stage \in [Procs -> {"down", "database", "migrating", "redis", "queue",
                              "listening", "up", "draining", "stopping",
                              "redis closed", "closed"}]
      /\ open \in [Procs -> SUBSET {"db", "redis", "queue", "http"}]
  BY TypeFacts
<1>i. open[p] = OpenAt(p) /\ (p \in overdue => stage[p] \in Late)
  BY DEF LifeInv, OpenAsStaged
<1>r. ASSUME NEW to \in {"database", "migrating", "redis", "queue", "listening", "up"},
             NEW opened, Reach(p, to, opened),
             stage[p] \in {"down", "database", "migrating", "redis", "queue", "listening"},
             OpenAt(p)' = OpenAt(p) \union opened,
             to = "listening" => p = Api, stage[p] = "listening" => to = "up"
      PROVE  LifeInv'
  <2>1. p \notin overdue /\ overdue' = overdue
    BY <1>i, <1>r DEF Late, Reach
  <2>2. /\ stage' = [stage EXCEPT ![p] = to]
        /\ open'[p] = OpenAt(p)'
        /\ \A q \in Procs \ {p} : open'[q] = open[q]
    BY <1>f, <1>i, <1>r DEF Reach
  <2>3. p = Api => \A r \in Requests : ~Active(r)
    BY <1>r, <2>1 DEF LifeInv, WorkWhileServed
  <2>4. ~Idle(p) => to = "up"
    BY <1>r, <2>1 DEF LifeInv, WorkWhileServed
  <2>5. UNCHANGED <<driver, isolated, request, phase, claim, work, overrun>>
    BY <1>r DEF Reach, setup, jobs, copies
  <2> QED
    BY <2>1, <2>2, <2>3, <2>4, <2>5, <1>r, StageStep
<1>s. ASSUME NEW to, stage' = [stage EXCEPT ![p] = to] PROVE stage'[p] = to
  BY <1>f, <1>s
<1>1. CASE Launch(p)
  BY <1>1, <1>r, <1>s DEF Launch, Reach, OpenAt
<1>2. CASE InitDB(p)
  BY <1>2, <1>r, <1>s, VanishStep DEF InitDB, Fail, Reach, OpenAt
<1>3. CASE AutoMigrate(p)
  BY <1>3, <1>r, <1>s, VanishStep DEF AutoMigrate, Fail, Reach, OpenAt
<1>4. CASE InitRedis(p)
  BY <1>4, <1>r, <1>s, VanishStep DEF InitRedis, Fail, Reach, OpenAt
<1>5. CASE StartQueue(p)
  BY <1>5, <1>r, <1>s DEF StartQueue, Reach, OpenAt
<1>6. CASE p = Api /\ Listen
  BY <1>6, <1>r, <1>s, VanishStep DEF Listen, Fail, Reach, OpenAt
<1> QED
  BY <1>1, <1>2, <1>3, <1>4, <1>5, <1>6 DEF Boot

\* On its way down it closes what nobody uses any more, unless it ran out of time.
LEMMA ShutdownStep ==
    ASSUME TypeOK, LifeInv, NEW p \in Procs, Shutdown(p) \/ Terminate(p) \/ Crash(p)
    PROVE  LifeInv'
<1>f. /\ stage \in [Procs -> {"down", "database", "migrating", "redis", "queue",
                              "listening", "up", "draining", "stopping",
                              "redis closed", "closed"}]
      /\ open \in [Procs -> SUBSET {"db", "redis", "queue", "http"}]
      /\ overdue \subseteq Procs
  BY TypeFacts
<1>i. open[p] = OpenAt(p) /\ (p \in overdue => stage[p] \in Late)
  BY DEF LifeInv, OpenAsStaged
<1>s. ASSUME NEW to, stage' = [stage EXCEPT ![p] = to] PROVE stage'[p] = to
  BY <1>f, <1>s
<1>c. ASSUME NEW to \in Late, NEW closed, Close(p, to, closed),
             OpenAt(p)' = OpenAt(p) \ closed,
             overdue' = overdue \/ overdue' = overdue \union {p},
             p = Api /\ Api \notin overdue' =>
                 /\ \A r \in Requests : ~Active(r)
                 /\ to \in {"redis closed", "closed"} => ~Buffered,
             ~Idle(p) /\ p \notin overdue' => to = "stopping"
      PROVE  LifeInv'
  <2>1. /\ stage' = [stage EXCEPT ![p] = to]
        /\ open'[p] = OpenAt(p)'
        /\ \A q \in Procs \ {p} : open'[q] = open[q]
    BY <1>f, <1>i, <1>c DEF Close
  <2>2. UNCHANGED <<driver, isolated, request, phase, claim, work, overrun>>
    BY <1>c DEF Close, setup, jobs, copies
  <2>3. to \notin {"listening", "draining"}
    BY DEF Late
  <2> QED
    BY <2>1, <2>2, <2>3, <1>c, StageStep
<1>1. CASE p = Api /\ (Drained \/ DrainTimeout)
  <2>1. /\ stage[p] = "draining" /\ Close(p, "stopping", {"queue"})
        /\ \/ overdue' = overdue /\ \A r \in Requests : ~Active(r)
           \/ overdue' = overdue \union {p}
    BY <1>1 DEF Drained, DrainTimeout
  <2>2. OpenAt(p)' = OpenAt(p) \ {"queue"}
    BY <2>1, <1>s DEF Close, OpenAt
  <2> QED
    BY <1>1, <2>1, <2>2, <1>c DEF Late
<1>2. CASE Stopped(p) \/ StopTimeout(p)
  <2>1. /\ stage[p] = "stopping" /\ Close(p, "redis closed", {"redis"})
        /\ \/ overdue' = overdue /\ Idle(p) /\ ~(p = Api /\ Buffered)
           \/ overdue' = overdue \union {p}
    BY <1>2 DEF Stopped, StopTimeout
  <2>2. OpenAt(p)' = OpenAt(p) \ {"redis"}
    BY <2>1, <1>s DEF Close, OpenAt
  <2>3. p = Api /\ Api \notin overdue => \A r \in Requests : ~Active(r)
    BY <2>1 DEF LifeInv, WorkWhileServed
  <2> QED
    BY <2>1, <2>2, <2>3, <1>c DEF Late
<1>3. CASE CloseDB(p)
  <2>1. stage[p] = "redis closed" /\ Close(p, "closed", {"db"}) /\ overdue' = overdue
    BY <1>3 DEF CloseDB
  <2>2. OpenAt(p)' = OpenAt(p) \ {"db"}
    BY <2>1, <1>s DEF Close, OpenAt
  <2>3. p \notin overdue =>
            Idle(p) /\ (p = Api => ~Buffered /\ \A r \in Requests : ~Active(r))
    BY <2>1 DEF LifeInv, WorkWhileServed
  <2> QED
    BY <2>1, <2>2, <2>3, <1>c DEF Late
<1>4. CASE Exit(p) \/ Crash(p)
  BY <1>4, VanishStep DEF Exit, Crash
<1>5. CASE Terminate(p)
  <2>1. CASE stage[p] # "up"
    BY <1>5, <2>1, VanishStep DEF Terminate
  <2>2. CASE stage[p] = "up"
    <3> DEFINE to == IF p = Api THEN "draining" ELSE "stopping"
    <3>1. /\ stage' = [stage EXCEPT ![p] = to]
          /\ open' = [open EXCEPT ![p] = open[p] \ (IF p = Api THEN {"http"} ELSE {"queue"})]
          /\ UNCHANGED <<setup, server, overdue, request, jobs, mailvars>>
      BY <1>5, <2>2 DEF Terminate
    <3>2. open'[p] = OpenAt(p)' /\ \A q \in Procs \ {p} : open'[q] = open[q]
      BY <1>f, <1>i, <1>s, <2>2, <3>1 DEF OpenAt
    <3>3. p \notin overdue' /\ overdue' = overdue
      BY <1>i, <2>2, <3>1 DEF Late
    <3>4. UNCHANGED <<driver, isolated, request, phase, claim, work, overrun>>
      BY <3>1 DEF setup, jobs, copies
    <3> QED
      BY <2>2, <3>1, <3>2, <3>3, <3>4, StageStep
  <2> QED
    BY <2>1, <2>2
<1> QED
  BY <1>1, <1>2, <1>3, <1>4, <1>5 DEF Shutdown

\* A registration begins, and its job is queued, only while the API serves.
LEMMA RequestStep ==
    ASSUME TypeOK, LifeInv, NEW r \in Requests, Arrive(r) \/ Handle(r)
    PROVE  LifeInv'
<1>f. /\ request \in [Requests -> {"none", "inserting", "dispatching", "sending",
                                   "created", "failed", "killed"}]
      /\ phase \in [Requests -> {"unborn", "waiting", "running", "stale", "done",
                                 "dead", "gone"}]
      /\ driver \in {"database", "memory", "sync"}
      /\ claim \in [Procs -> Requests \union {Nothing}]
      /\ work \in [Procs -> Requests \union {Nothing}]
  BY TypeFacts
<1>a. UNCHANGED <<driver, isolated, life, claim, work, overrun>>
  BY DEF Arrive, Handle, Insert, Dispatch, Dispatched, setup, jobs, copies
<1>o. ASSUME NEW s \in Requests \ {r} PROVE request'[s] = request[s]
  BY <1>f DEF Arrive, Handle, Insert, Dispatch, Dispatched, Answers
<1>1. DriverKeepsJobs'
  <2>1. request'[r] = "sending" => driver = "sync"
    BY <1>f DEF Arrive, Handle, Insert, Dispatch, Dispatched, Answers
  <2> QED
    BY <1>a, <1>o, <2>1 DEF LifeInv, DriverKeepsJobs, Durable
<1>2. ClaimsAgree'
  <2> SUFFICES ASSUME Durable, isolated PROVE ClaimsAgree'
    BY <1>a DEF ClaimsAgree, Durable
  <2>1. \/ phase' = phase
        \/ phase[r] = "unborn" /\ phase' = [phase EXCEPT ![r] = "waiting"]
    BY DEF Arrive, Handle, Insert, Dispatch, Dispatched, Move, jobs, LifeInv,
           DriverKeepsJobs, Durable
  <2>2. \A s \in Requests : phase[s] # "unborn" => phase'[s] = phase[s]
    BY <1>f, <2>1
  <2>3. \A q \in Procs : claim[q] # Nothing => claim[q] \in Requests
    BY <1>f
  <2> QED
    BY <1>a, <2>2, <2>3 DEF LifeInv, ClaimsAgree
<1>3. ASSUME Api \notin overdue
      PROVE  /\ \A s \in Requests :
                   Active(s)' => Active(s) \/ stage[Api] \in {"up", "draining"}
             /\ stage[Api] \in {"redis closed", "closed"} /\ Buffered' => Buffered
  <2>1. CASE Arrive(r)
    <3>1. "http" \in OpenAt(Api)
      BY <2>1 DEF Arrive, LifeInv, OpenAsStaged
    <3>2. stage[Api] = "up"
      BY <3>1 DEF OpenAt
    <3> QED
      BY <2>1, <3>2 DEF Arrive, Buffered, jobs, setup
  <2>2. CASE Handle(r)
    <3>1. Active(r)
      BY <2>2 DEF Handle, Insert, Dispatch, Dispatched, Active
    <3>2. stage[Api] \in {"up", "draining"}
      BY <1>3, <3>1 DEF LifeInv, WorkWhileServed
    <3> QED
      BY <3>2
  <2> QED
    BY <2>1, <2>2
<1>4. \A p \in Procs : Idle(p)' <=> Idle(p)
  BY <1>a DEF Idle
<1> QED
  BY <1>1, <1>2, <1>3, <1>4, <1>a, WorkStep

\* A worker finds a job only where its queue runs, and where claims are serialised
\* nobody else has it, unless its reservation expired under a worker that hangs.
LEMMA TakeStep ==
    ASSUME TypeOK, LifeInv, NEW p \in Procs, NEW r \in Requests, Take(p, r)
    PROVE  LifeInv'
<1>f. /\ work \in [Procs -> Requests \union {Nothing}]
      /\ claim \in [Procs -> Requests \union {Nothing}]
      /\ phase \in [Requests -> {"unborn", "waiting", "running", "stale", "done",
                                 "dead", "gone"}]
      /\ driver \in {"database", "memory", "sync"}
  BY TypeFacts
<1>n. r # Nothing
  OBVIOUS
<1>1. CASE Receive(p, r)
  <2>1. /\ UNCHANGED <<driver, life, request, claim>> /\ Receives(p)
        /\ work' = [work EXCEPT ![p] = r]
        /\ phase[r] = "waiting" /\ phase' = [phase EXCEPT ![r] = "running"]
    BY <1>1 DEF Receive, setup, Move
  <2>2. DriverKeepsJobs' /\ ClaimsAgree'
    BY <2>1, <1>f DEF LifeInv, DriverKeepsJobs, ClaimsAgree, Receives, Durable
  <2>3. \A q \in Procs : ~Idle(q)' /\ Idle(q) => q = p
    BY <2>1, <1>f DEF Idle
  <2>4. p \in overdue \/ stage[p] \in {"listening", "up", "draining", "stopping"}
    <3>1. CASE "queue" \in open[p]
      <4>1. "queue" \in OpenAt(p)
        BY <3>1 DEF LifeInv, OpenAsStaged
      <4>2. stage[p] \in {"down", "database", "migrating", "redis", "queue", "listening",
                          "up", "draining", "stopping", "redis closed", "closed"}
        BY TypeFacts
      <4> QED
        BY <4>1, <4>2 DEF OpenAt
    <3>2. CASE stage[p] \in Late
      <4>1. Buffered /\ p = Api
        BY <2>1 DEF Receives, Buffered
      <4> QED
        BY <3>2, <4>1 DEF Late, LifeInv, WorkWhileServed
    <3> QED
      BY <2>1, <3>1, <3>2 DEF Receives
  <2>5. /\ \A s \in Requests : Active(s)' => Active(s)
        /\ Buffered' => Buffered
    BY <2>1, <1>f DEF Active, Buffered
  <2> QED
    BY <2>1, <2>2, <2>3, <2>4, <2>5, WorkStep
<1>2. CASE Select(p, r)
  <2>1. /\ UNCHANGED <<driver, isolated, life, request, phase, work, overrun>>
        /\ Durable /\ "queue" \in open[p] /\ Idle(p) /\ TableFree
        /\ phase[r] \in {"waiting", "stale"}
        /\ claim' = [claim EXCEPT ![p] = r]
    BY <1>2 DEF Select, setup
  <2>2. DriverKeepsJobs'
    BY <2>1, <1>f DEF LifeInv, DriverKeepsJobs, Durable
  <2>3. ClaimsAgree'
    <3>1. claim'[p] = r /\ \A q \in Procs \ {p} : claim'[q] = claim[q]
      BY <2>1, <1>f
    <3> QED
      BY <2>1, <3>1 DEF LifeInv, ClaimsAgree, TableFree, Durable
  <2>4. \A q \in Procs : ~Idle(q)' /\ Idle(q) => q = p
    BY <2>1, <1>f DEF Idle
  <2>5. stage[p] \in {"listening", "up", "draining", "stopping"}
    <3>1. "queue" \in OpenAt(p)
      BY <2>1 DEF LifeInv, OpenAsStaged
    <3>2. stage[p] \in {"down", "database", "migrating", "redis", "queue", "listening",
                        "up", "draining", "stopping", "redis closed", "closed"}
      BY TypeFacts
    <3> QED
      BY <3>1, <3>2 DEF OpenAt
  <2>6. /\ \A s \in Requests : Active(s)' <=> Active(s)
        /\ Buffered' <=> Buffered
    BY <2>1 DEF Active, Buffered
  <2> QED
    BY <2>1, <2>2, <2>3, <2>4, <2>5, <2>6, WorkStep
<1>3. CASE claim[p] = r /\ SaveClaim(p)
  <2>1. /\ UNCHANGED <<driver, isolated, life, request, overrun>>
        /\ phase' = [phase EXCEPT ![r] = "running"]
        /\ claim' = [claim EXCEPT ![p] = Nothing]
        /\ work' = [work EXCEPT ![p] = r]
    BY <1>3 DEF SaveClaim, setup
  <2>2. Durable
    BY <1>3, <1>n DEF LifeInv, DriverKeepsJobs
  <2>3. DriverKeepsJobs'
    BY <2>1, <2>2, <1>f DEF LifeInv, DriverKeepsJobs, Durable
  <2>4. ClaimsAgree'
    <3> SUFFICES ASSUME isolated PROVE ClaimsAgree'
      BY <2>1 DEF ClaimsAgree
    <3>1. /\ claim'[p] = Nothing /\ \A q \in Procs \ {p} : claim'[q] = claim[q]
          /\ work'[p] = r /\ \A q \in Procs \ {p} : work'[q] = work[q]
          /\ phase'[r] = "running" /\ \A s \in Requests \ {r} : phase'[s] = phase[s]
      BY <2>1, <1>f
    <3>2. \A q \in Procs : claim'[q] = Nothing
      BY <1>3, <1>n, <2>2, <3>1 DEF LifeInv, ClaimsAgree
    <3>3. phase[r] \in {"waiting", "stale"}
      BY <1>3, <1>n, <2>2 DEF LifeInv, ClaimsAgree
    <3>4. r \notin overrun => \A q \in Procs : work[q] # r
      BY <2>2, <3>3 DEF LifeInv, ClaimsAgree
    <3>5. ASSUME NEW q \in Procs, work'[q] \in Requests \ overrun
          PROVE  /\ phase'[work'[q]] = "running"
                 /\ \A q2 \in Procs : work'[q2] = work'[q] => q = q2
      <4>1. CASE q = p
        BY <2>1, <3>1, <3>4, <3>5, <4>1
      <4>2. CASE q # p
        <5>1. work'[q] = work[q] /\ work[q] \in Requests \ overrun
          BY <2>1, <3>1, <3>5, <4>2
        <5>2. /\ phase[work[q]] = "running"
              /\ \A q2 \in Procs : work[q2] = work[q] => q = q2
          BY <2>2, <5>1 DEF LifeInv, ClaimsAgree
        <5>3. work[q] # r
          BY <3>3, <5>2
        <5> QED
          BY <3>1, <5>1, <5>2, <5>3
      <4> QED
        BY <4>1, <4>2
    <3> QED
      BY <2>1, <3>2, <3>5 DEF ClaimsAgree
  <2>5. \A q \in Procs : ~Idle(q)' => ~Idle(q)
    BY <2>1, <1>3, <1>f, <1>n DEF Idle
  <2>6. /\ \A s \in Requests : Active(s)' <=> Active(s)
        /\ ~Buffered'
    BY <2>1, <2>2 DEF Active, Buffered, Durable
  <2> QED
    BY <2>1, <2>3, <2>4, <2>5, <2>6, WorkStep
<1>4. CASE ClaimError(p)
  <2>1. /\ UNCHANGED <<driver, isolated, life, request, phase, work, overrun>>
        /\ claim' = [claim EXCEPT ![p] = Nothing]
    BY <1>4 DEF ClaimError, setup
  <2>2. claim'[p] = Nothing /\ \A q \in Procs \ {p} : claim'[q] = claim[q]
    BY <2>1, <1>f
  <2>3. DriverKeepsJobs' /\ ClaimsAgree'
    BY <2>1, <2>2 DEF LifeInv, DriverKeepsJobs, ClaimsAgree, Durable
  <2>4. \A q \in Procs : ~Idle(q)' => ~Idle(q)
    BY <2>1, <2>2 DEF Idle
  <2>5. /\ \A s \in Requests : Active(s)' <=> Active(s)
        /\ Buffered' <=> Buffered
    BY <2>1 DEF Active, Buffered
  <2> QED
    BY <2>1, <2>3, <2>4, <2>5, WorkStep
<1> QED
  BY <1>1, <1>2, <1>3, <1>4 DEF Take

\* A worker is done with its job: where claims are serialised nobody has selected
\* its row meanwhile.
LEMMA SettleStep ==
    ASSUME TypeOK, LifeInv, NEW p \in Procs, Settle(p)
    PROVE  LifeInv'
<1>f. /\ work \in [Procs -> Requests \union {Nothing}]
      /\ claim \in [Procs -> Requests \union {Nothing}]
      /\ phase \in [Requests -> {"unborn", "waiting", "running", "stale", "done",
                                 "dead", "gone"}]
  BY TypeFacts
<1> DEFINE r == work[p]
<1>1. /\ r \in Requests /\ UNCHANGED <<driver, isolated, life, request, claim, overrun>>
      /\ work' = [work EXCEPT ![p] = Nothing]
  BY <1>f DEF Settle, setup
<1>2. \/ phase' = phase
      \/ /\ \E to \in {"waiting", "done", "dead"} :
                phase' = [phase EXCEPT ![r] = to] /\ (to = "waiting" => Durable)
         /\ Durable => TableFree
  BY DEF Settle, SettleRow
<1>3. DriverKeepsJobs'
  BY <1>1, <1>f DEF LifeInv, DriverKeepsJobs, Durable
<1>4. ClaimsAgree'
  <2> SUFFICES ASSUME Durable, isolated PROVE ClaimsAgree'
    BY <1>1 DEF ClaimsAgree, Durable
  <2>1. work'[p] = Nothing /\ \A q \in Procs \ {p} : work'[q] = work[q]
    BY <1>1, <1>f
  <2>2. \A s \in Requests \ {r} : phase'[s] = phase[s]
    BY <1>2, <1>f
  <2>3. ASSUME NEW q \in Procs, claim'[q] # Nothing
        PROVE  phase'[claim'[q]] \in {"waiting", "stale"}
    <3>1. phase' = phase
      BY <1>1, <1>2, <2>3 DEF TableFree
    <3> QED
      BY <1>1, <2>3, <3>1 DEF LifeInv, ClaimsAgree
  <2>4. ASSUME NEW q \in Procs, work'[q] \in Requests \ overrun
        PROVE  /\ phase'[work'[q]] = "running"
               /\ \A q2 \in Procs : work'[q2] = work'[q] => q = q2
    <3>1. q # p /\ work'[q] = work[q] /\ work[q] \in Requests \ overrun
      BY <2>1, <2>4
    <3>2. phase[work[q]] = "running" /\ \A q2 \in Procs : work[q2] = work[q] => q = q2
      BY <3>1 DEF LifeInv, ClaimsAgree
    <3>3. work[q] # r
      BY <3>1, <3>2
    <3> QED
      BY <2>1, <2>2, <3>1, <3>2, <3>3
  <2> QED
    BY <1>1, <2>3, <2>4 DEF LifeInv, ClaimsAgree
<1>5. /\ \A s \in Requests : Active(s)' => Active(s)
      /\ Buffered' => Buffered
  <2>1. \A s \in Requests : Active(s)' => Active(s)
    BY <1>1 DEF Active
  <2>2. ASSUME Buffered' PROVE Buffered
    <3>1. driver = "memory"
      BY <1>1, <2>2 DEF Buffered
    <3>2. PICK s \in Requests : phase'[s] = "waiting"
      BY <2>2 DEF Buffered
    <3> QED
      BY <1>2, <1>f, <3>1, <3>2 DEF Buffered, Durable
  <2> QED
    BY <2>1, <2>2
<1>6. \A q \in Procs : ~Idle(q)' => ~Idle(q)
  BY <1>1, <1>f DEF Idle
<1> QED
  BY <1>1, <1>3, <1>4, <1>5, <1>6, WorkStep

\* A reservation expires: whoever still has the job is remembered to.
LEMMA StaleStep ==
    ASSUME TypeOK, LifeInv, NEW r \in Requests, GoStale(r)
    PROVE  LifeInv'
<1>f. /\ phase \in [Requests -> {"unborn", "waiting", "running", "stale", "done",
                                 "dead", "gone"}]
      /\ claim \in [Procs -> Requests \union {Nothing}]
  BY TypeFacts
<1>1. /\ UNCHANGED <<driver, isolated, life, request, claim, work>>
      /\ Durable /\ phase[r] = "running" /\ phase' = [phase EXCEPT ![r] = "stale"]
      /\ overrun' = IF Holders(r) = {} THEN overrun ELSE overrun \union {r}
  BY DEF GoStale, Move, setup, copies
<1>2. DriverKeepsJobs'
  BY <1>1 DEF LifeInv, DriverKeepsJobs, Durable
<1>3. ClaimsAgree'
  <2>1. \A q \in Procs : work[q] = r => r \in overrun'
    BY <1>1 DEF Holders
  <2>2. phase'[r] = "stale" /\ \A s \in Requests \ {r} : phase'[s] = phase[s]
    BY <1>1, <1>f
  <2>3. overrun \subseteq overrun'
    BY <1>1
  <2>4. \A q \in Procs : claim[q] # Nothing => claim[q] \in Requests
    BY <1>f
  <2> QED
    BY <1>1, <2>1, <2>2, <2>3, <2>4 DEF LifeInv, ClaimsAgree, Durable
<1>4. /\ \A s \in Requests : Active(s)' <=> Active(s)
      /\ ~Buffered'
      /\ \A q \in Procs : Idle(q)' <=> Idle(q)
  BY <1>1 DEF Active, Buffered, Durable, Idle
<1> QED
  BY <1>1, <1>2, <1>3, <1>4, WorkStep

\* Every step keeps the order.
LEMMA LifeStep == TypeOK /\ LifeInv /\ [Next]_lifevars => LifeInv'
<1> SUFFICES ASSUME TypeOK, LifeInv, [Next]_lifevars PROVE LifeInv'
  OBVIOUS
<1>1. CASE UNCHANGED <<driver, isolated, life, request, phase, claim, work, overrun>>
  BY <1>1, WorkStep
     DEF LifeInv, DriverKeepsJobs, ClaimsAgree, Durable, Active, Buffered, Idle
<1>2. CASE Outage \/ Recover
  BY <1>1, <1>2 DEF Outage, Recover, setup, jobs, copies
<1>3. ASSUME NEW s \in Senders, NEW r \in Requests, Send(s, r) \/ Interrupt(s, r)
      PROVE  LifeInv'
  BY <1>1, <1>3 DEF Send, Interrupt, setup, jobs, copies
<1>4. CASE UNCHANGED lifevars
  BY <1>1, <1>4 DEF lifevars, setup, jobs, copies
<1> QED
  BY <1>2, <1>3, <1>4, BootStep, ShutdownStep, TakeStep, SettleStep, StaleStep,
     RequestStep DEF Next

\* Work is only where what it needs is open, whatever comes up, is shut down,
\* times out, crashes or is restarted.
THEOREM LifeInvariant == Spec => []LifeInv
<1>1. Init => LifeInv
  <2> SUFFICES ASSUME Init PROVE LifeInv
    OBVIOUS
  <2>1. \A p \in Procs : /\ stage[p] = "down" /\ open[p] = {}
                          /\ claim[p] = Nothing /\ work[p] = Nothing
    BY DEF Init
  <2>2. overdue = {} /\ \A r \in Requests : request[r] = "none"
    BY DEF Init
  <2>3. OpenAsStaged
    BY <2>1, <2>2 DEF OpenAsStaged, OpenAt
  <2> QED
    BY <2>1, <2>2, <2>3
       DEF LifeInv, WorkWhileServed, DriverKeepsJobs, ClaimsAgree, Active, Idle
<1> QED
  BY <1>1, LifeStep, TypeCorrect, PTL DEF Spec

\* While no timeout is hit, neither process closes a connection under a worker
\* that has a job, nor the API the queue or a connection under a request.
THEOREM ShutdownIsGraceful == Spec => []ShutdownInOrder
<1>1. LifeInv => ShutdownInOrder
  <2> SUFFICES ASSUME LifeInv PROVE ShutdownInOrder
    OBVIOUS
  <2>1. \A p \in Procs : stage[p] \in {"listening", "up", "draining", "stopping"}
                            => {"db", "redis"} \subseteq open[p]
    BY DEF LifeInv, OpenAsStaged, OpenAt
  <2>2. stage[Api] \in {"up", "draining"} => {"db", "redis", "queue"} \subseteq open[Api]
    BY DEF LifeInv, OpenAsStaged, OpenAt
  <2> QED
    BY <2>1, <2>2 DEF LifeInv, WorkWhileServed, ShutdownInOrder
<1> QED
  BY <1>1, LifeInvariant, PTL

\* A process whose shutdown hit no timeout ends without a job in a worker, a
\* request on its way or a job in the channel of the memory driver.
THEOREM CleanExit == Spec => []CleanExitLosesNothing
<1>1. LifeInv => CleanExitLosesNothing
  BY DEF LifeInv, WorkWhileServed, CleanExitLosesNothing
<1> QED
  BY <1>1, LifeInvariant, PTL

\* With the memory driver no job is with two workers, and with a database that
\* serialises claims only one whose reservation expired under a worker that hangs.
\* Nothing is said of a database that does not.
THEOREM OneWorkerAtATime == Spec => []OneWorkerPerJob
<1>1. TypeOK /\ LifeInv => OneWorkerPerJob
  <2> SUFFICES ASSUME TypeOK, LifeInv, NEW p \in Procs, NEW q \in Procs, p # q,
                      work[p] # Nothing, work[p] = work[q]
               PROVE  Durable /\ (isolated => work[p] \in overrun)
    BY DEF OneWorkerPerJob
  <2>1. work[p] \in Requests
    BY TypeFacts
  <2>2. Durable
    BY DEF LifeInv, DriverKeepsJobs
  <2> QED
    BY <2>1, <2>2 DEF LifeInv, ClaimsAgree
<1> QED
  BY <1>1, LifeInvariant, TypeCorrect, PTL

-----------------------------------------------------------------------------
(* The mails. The inductive invariant is MailInv: who sends the mail of a job *)
(* knows whether it was taken, and the mails of each job balance.             *)

\* A job is mailed by the workers that have it, or by its request.
LEMMA MailingFinite ==
    ASSUME NEW r \in Requests, NEW S \in SUBSET (Procs \union {r})
    PROVE  IsFiniteSet(S)
<1>1. IsFiniteSet({r})
  BY FS_Singleton
<1>2. IsFiniteSet(Procs \union {r})
  BY <1>1, FS_Union
<1> QED
  BY <1>2, FS_Subset

LEMMA MailingOf ==
    ASSUME NEW r \in Requests
    PROVE  /\ Mailing(r) \subseteq Procs \union {r}
           /\ Mailing(r)' \subseteq Procs \union {r}
BY DEF Mailing, Carries

\* A job is touched by nothing that concerns its mails.
LEMMA StaysBalanced ==
    ASSUME NEW r \in Requests, Balanced(r), Mailing(r)' = Mailing(r),
           UNCHANGED <<accepted[r], repeats[r], transport>>,
           phase'[r] = "done" <=> phase[r] = "done"
    PROVE  Balanced(r)'
BY DEF Balanced

\* A goroutine whose mail was taken leaves its job: the mail ends the job, or is to
\* be repeated.
LEMMA MailLeaves ==
    ASSUME TypeOK, NEW r \in Requests, Balanced(r), NEW s \in Mailing(r),
           Mailing(r)' = Mailing(r) \ {s}, transport = "smtp",
           UNCHANGED <<accepted[r], transport>>,
           \/ /\ repeats'[r] = repeats[r] + 1
              /\ phase'[r] = "done" <=> phase[r] = "done"
           \/ /\ repeats'[r] = repeats[r]
              /\ phase[r] # "done" /\ phase'[r] = "done"
    PROVE  Balanced(r)'
<1>1. IsFiniteSet(Mailing(r))
  BY MailingFinite, MailingOf
<1>2. /\ Cardinality(Mailing(r)') = Cardinality(Mailing(r)) - 1
      /\ Cardinality(Mailing(r)) \in Nat
  BY <1>1, FS_RemoveElement, FS_CardinalityType
<1>3. repeats[r] \in Nat /\ accepted[r] \in Nat
  BY TypeFacts
<1> QED
  BY <1>2, <1>3 DEF Balanced

\* What main does on its way up and down is nothing to the mails.
LEMMA MailFrame ==
    ASSUME MailInv,
           UNCHANGED <<driver, phase, request, work, repeats, transport, session,
                       delivered, accepted>>
    PROVE  MailInv'
<1>1. \A r \in Requests : Mailing(r)' = Mailing(r)
  BY DEF Mailing, Carries
<1>2. DoneMeansDelivered'
  BY <1>1 DEF MailInv, DoneMeansDelivered, Balanced
<1>3. SendersAgree'
  BY DEF MailInv, SendersAgree, SenderAgrees, Durable
<1> QED
  BY <1>2, <1>3 DEF MailInv

\* The end of a process: what its senders had delivered is to be repeated.
LEMMA MailVanish ==
    ASSUME TypeOK, LifeInv, MailInv, NEW p \in Procs, Vanish(p)
    PROVE  MailInv'
<1>f. /\ work \in [Procs -> Requests \union {Nothing}]
      /\ repeats \in [Requests -> Nat] /\ accepted \in [Requests -> Nat]
      /\ delivered \in [Senders -> BOOLEAN] /\ transport \in {"smtp", "log"}
  BY TypeFacts
<1>i. SendersAgree /\ DoneMeansDelivered
  BY DEF MailInv
<1> DEFINE gone == {p} \union (IF p = Api THEN Requests ELSE {})
<1>1. /\ \A s \in Senders : session'[s] = IF s \in gone THEN "idle" ELSE session[s]
      /\ \A s \in Senders : delivered'[s] <=> s \notin gone /\ delivered[s]
      /\ UNCHANGED <<accepted, transport, driver>>
  BY DEF Vanish, setup
<1>2. \A r \in Requests :
          /\ request'[r] = IF p = Api /\ Active(r) THEN "killed" ELSE request[r]
          /\ phase'[r] = PhaseAfter(p, r)
          /\ repeats'[r] = IF Died(p, r) /\ delivered[SenderOf(p, r)]
                           THEN repeats[r] + 1 ELSE repeats[r]
  BY DEF Vanish
<1>4. work'[p] = Nothing /\ \A q \in Procs \ {p} : work'[q] = work[q]
  BY <1>f DEF Vanish
<1>5. ASSUME NEW r \in Requests
      PROVE  Mailing(r)' = Mailing(r) \ gone
  <2>1. \A s \in Senders : Carries(s, r)' <=> Carries(s, r) /\ s \notin gone
    BY <1>2, <1>4 DEF Carries, Active
  <2> QED
    BY <1>1, <2>1 DEF Mailing
<1>6. ASSUME NEW r \in Requests PROVE phase'[r] = "done" <=> phase[r] = "done"
  BY <1>2 DEF PhaseAfter
<1>7. ASSUME NEW r \in Requests PROVE Balanced(r)'
  <2>1. Balanced(r)
    BY <1>i DEF DoneMeansDelivered
  <2>2. ASSUME NEW s \in Senders
        PROVE  s \in Mailing(r) /\ s \in gone
                  <=> Died(p, r) /\ s = SenderOf(p, r) /\ delivered[s]
    <3>1. ~(work[p] = r /\ request[r] = "sending")
      BY DEF LifeInv, DriverKeepsJobs, Durable
    <3> QED
      BY <3>1 DEF Mailing, Carries, Died, SenderOf
  <2>3. CASE Died(p, r) /\ delivered[SenderOf(p, r)]
    <3>1. PICK s \in Senders : s = SenderOf(p, r)
      BY DEF SenderOf
    <3>2. s \in Mailing(r) /\ Mailing(r)' = Mailing(r) \ {s}
      <4>1. \A u \in Mailing(r) : u \in Senders
        BY DEF Mailing
      <4> QED
        BY <1>5, <2>2, <2>3, <3>1, <4>1
    <3>3. transport = "smtp"
      BY <1>i, <2>3, <3>1 DEF SendersAgree, SenderAgrees
    <3>4. repeats'[r] = repeats[r] + 1
      BY <1>2, <2>3
    <3> QED
      BY <1>1, <1>6, <2>1, <3>2, <3>3, <3>4, MailLeaves
  <2>4. CASE ~(Died(p, r) /\ delivered[SenderOf(p, r)])
    <3>1. Mailing(r)' = Mailing(r)
      <4>1. ASSUME NEW u \in Mailing(r) PROVE u \notin gone
        <5>1. u \in Senders /\ delivered[u]
          BY DEF Mailing
        <5>2. u \in gone => Died(p, r) /\ u = SenderOf(p, r)
          BY <2>2, <5>1
        <5> QED
          BY <2>4, <5>1, <5>2
      <4> HIDE DEF gone
      <4> QED
        BY <1>5, <4>1
    <3>2. repeats'[r] = repeats[r]
      BY <1>2, <2>4
    <3> QED
      BY <1>1, <1>6, <2>1, <3>1, <3>2, StaysBalanced
  <2> QED
    BY <2>3, <2>4
<1>8. SendersAgree'
  <2>1. ASSUME NEW s \in Senders
        PROVE  SenderAgrees(s)'
    BY <1>i, <1>1 DEF SendersAgree, SenderAgrees
  <2>2. ASSUME NEW r \in Requests, request'[r] = "sending" PROVE phase'[r] = "running"
    <3>1. request[r] = "sending" /\ p # Api
      BY <1>2, <2>2 DEF Active
    <3> QED
      BY <1>i, <1>2, <3>1 DEF SendersAgree, SenderAgrees, PhaseAfter
  <2>3. ASSUME ~Durable', NEW q \in Procs, work'[q] # Nothing
        PROVE  phase'[work'[q]] = "running"
    <3>1. ~Durable /\ q # p /\ work'[q] = work[q]
      BY <1>1, <1>4, <2>3 DEF Durable
    <3>2. q = Api /\ work[q] \in Requests /\ phase[work[q]] = "running"
      BY <1>f, <1>i, <2>3, <3>1 DEF LifeInv, DriverKeepsJobs, SendersAgree, SenderAgrees
    <3> QED
      BY <1>2, <3>1, <3>2 DEF PhaseAfter
  <2> QED
    BY <2>1, <2>2, <2>3 DEF SendersAgree, SenderAgrees
<1> QED
  BY <1>7, <1>8 DEF MailInv, DoneMeansDelivered

\* Booting and shutting down end a process or leave the mails alone.
LEMMA MailStage ==
    ASSUME TypeOK, LifeInv, MailInv, NEW p \in Procs,
           Boot(p) \/ Shutdown(p) \/ Terminate(p) \/ Crash(p)
    PROVE  MailInv'
<1>1. CASE Vanish(p)
  BY <1>1, MailVanish
<1>2. CASE UNCHANGED <<setup, request, jobs, mailvars>>
  BY <1>2, MailFrame DEF setup, jobs, copies, mailvars
<1>3. CASE Boot(p)
  BY <1>1, <1>2, <1>3
     DEF Boot, Launch, InitDB, AutoMigrate, InitRedis, StartQueue, Listen, Reach, Fail
<1>4. CASE Shutdown(p) \/ Terminate(p) \/ Crash(p)
  BY <1>1, <1>2, <1>4
     DEF Shutdown, Drained, DrainTimeout, Stopped, StopTimeout, CloseDB, Exit, Close,
         Terminate, Crash
<1> QED
  BY <1>3, <1>4

\* Send has returned to s: its mail, if it was taken, ends job r or is to be repeated.
LEMMA MailReturns ==
    ASSUME TypeOK, MailInv, NEW s \in Senders, NEW r \in Requests, NEW counts \in BOOLEAN,
           Returned(s, r, counts), Carries(s, r),
           \A u \in Senders, m \in Requests :
               u # s \/ m # r => (Carries(u, m)' <=> Carries(u, m)),
           \A m \in Requests : Carries(s, m) => m = r,
           ~Carries(s, r)',
           counts => session[s] = "sent" /\ phase[r] # "done" /\ phase'[r] = "done",
           ~counts => (phase'[r] = "done" <=> phase[r] = "done"),
           \A m \in Requests \ {r} : phase'[m] = phase[m]
    PROVE  /\ DoneMeansDelivered'
           /\ \A u \in Senders : SenderAgrees(u)'
<1>f. /\ session \in [Senders -> Sessions] /\ delivered \in [Senders -> BOOLEAN]
      /\ repeats \in [Requests -> Nat] /\ transport \in {"smtp", "log"}
  BY TypeFacts
<1>i. SendersAgree /\ DoneMeansDelivered
  BY DEF MailInv
<1>1. /\ session'[s] = "idle" /\ \A u \in Senders \ {s} : session'[u] = session[u]
      /\ ~delivered'[s] /\ \A u \in Senders \ {s} : delivered'[u] = delivered[u]
      /\ repeats' = IF delivered[s] /\ ~counts
                    THEN [repeats EXCEPT ![r] = repeats[r] + 1] ELSE repeats
      /\ UNCHANGED <<transport, accepted>>
  BY <1>f DEF Returned, Goes
<1>2. ASSUME NEW m \in Requests PROVE Balanced(m)'
  <2>0. Balanced(m)
    BY <1>i DEF DoneMeansDelivered
  <2>1. CASE m # r
    <3>1. Mailing(m)' = Mailing(m)
      <4>1. \A u \in Senders : Carries(u, m)' /\ delivered'[u] <=> Carries(u, m) /\ delivered[u]
        BY <1>1, <2>1
      <4> QED
        BY <4>1 DEF Mailing
    <3>2. repeats'[m] = repeats[m] /\ phase'[m] = phase[m]
      BY <1>f, <1>1, <2>1
    <3> QED
      BY <1>1, <2>0, <3>1, <3>2, StaysBalanced
  <2>2. CASE m = r /\ delivered[s]
    <3>1. s \in Mailing(r) /\ Mailing(r)' = Mailing(r) \ {s}
      <4>1. \A u \in Senders :
                Carries(u, r)' /\ delivered'[u] <=> u # s /\ Carries(u, r) /\ delivered[u]
        BY <1>1
      <4> QED
        BY <2>2, <4>1 DEF Mailing
    <3>2. transport = "smtp"
      BY <1>i, <2>2 DEF SendersAgree, SenderAgrees
    <3>3. \/ repeats'[r] = repeats[r] + 1 /\ (phase'[r] = "done" <=> phase[r] = "done")
          \/ repeats'[r] = repeats[r] /\ phase[r] # "done" /\ phase'[r] = "done"
      BY <1>f, <1>1, <2>2
    <3> QED
      BY <1>1, <2>0, <2>2, <3>1, <3>2, <3>3, MailLeaves
  <2>3. CASE m = r /\ ~delivered[s]
    <3>1. Mailing(r)' = Mailing(r)
      <4>1. \A u \in Senders : Carries(u, r)' /\ delivered'[u] <=> Carries(u, r) /\ delivered[u]
        BY <1>1, <2>3
      <4> QED
        BY <4>1 DEF Mailing
    <3>2. transport = "smtp" => (phase'[r] = "done" <=> phase[r] = "done")
      BY <1>i, <2>3 DEF SendersAgree, SenderAgrees
    <3>3. repeats'[r] = repeats[r]
      BY <1>1, <2>3
    <3> QED
      BY <1>1, <2>0, <2>3, <3>1, <3>2, <3>3 DEF Balanced
  <2> QED
    BY <2>1, <2>2, <2>3
<1>3. DoneMeansDelivered'
  BY <1>2 DEF DoneMeansDelivered
<1> QED
  BY <1>i, <1>1, <1>3 DEF SendersAgree, SenderAgrees

\* A goroutine that begins to send has delivered nothing yet.
LEMMA MailBegins ==
    ASSUME TypeOK, MailInv, NEW s \in Senders, NEW r \in Requests, Compose(s),
           \A u \in Senders \ {s}, m \in Requests : Carries(u, m)' <=> Carries(u, m)
    PROVE  /\ \A m \in Requests : Mailing(m)' = Mailing(m)
           /\ \A u \in Senders : SenderAgrees(u)'
<1>f. session \in [Senders -> Sessions] /\ transport \in {"smtp", "log"}
  BY TypeFacts
<1>i. SendersAgree
  BY DEF MailInv
<1>1. /\ session[s] = "idle" /\ \A u \in Senders \ {s} : session'[u] = session[u]
      /\ session'[s] \in {"error", IF transport = "log" THEN "sent" ELSE "open"}
      /\ UNCHANGED <<transport, delivered>>
  BY <1>f DEF Compose, At, Goes
<1>2. ~delivered[s]
  BY <1>i, <1>1 DEF SendersAgree, SenderAgrees
<1>3. \A m \in Requests : Mailing(m)' = Mailing(m)
  BY <1>1, <1>2 DEF Mailing
<1> QED
  BY <1>i, <1>f, <1>1, <1>2, <1>3 DEF SendersAgree, SenderAgrees

\* A registration sends its mail itself only with the sync driver.
LEMMA MailRequest ==
    ASSUME TypeOK, LifeInv, MailInv, NEW r \in Requests, Arrive(r) \/ Handle(r)
    PROVE  MailInv'
<1>f. /\ request \in [Requests -> {"none", "inserting", "dispatching", "sending",
                                   "created", "failed", "killed"}]
      /\ phase \in [Requests -> {"unborn", "waiting", "running", "stale", "done",
                                 "dead", "gone"}]
      /\ work \in [Procs -> Requests \union {Nothing}]
  BY TypeFacts
<1>i. SendersAgree /\ DoneMeansDelivered
  BY DEF MailInv
<1>0. r \in Senders /\ r \notin Procs /\ r # Nothing
  OBVIOUS
<1>d. UNCHANGED <<driver, work>>
  BY DEF Arrive, Handle, Insert, Dispatch, Dispatched, setup, jobs, copies
<1>1. CASE Arrive(r) \/ Insert(r) \/ (Dispatch(r) /\ driver # "sync")
  <2>1. /\ request[r] # "sending" /\ request'[r] # "sending"
        /\ \A m \in Requests \ {r} : request'[m] = request[m]
        /\ UNCHANGED <<repeats, transport, session, delivered, accepted>>
    BY <1>1, <1>f DEF Arrive, Insert, Dispatch, Answers, jobs, mailvars
  <2>2. phase' = phase \/ (phase[r] = "unborn" /\ phase' = [phase EXCEPT ![r] = "waiting"])
    BY <1>1 DEF Arrive, Insert, Dispatch, Move, jobs
  <2>3. \A m \in Requests : Mailing(m)' = Mailing(m)
    BY <1>d, <2>1 DEF Mailing, Carries
  <2>4. ASSUME NEW m \in Requests PROVE Balanced(m)'
    <3>1. phase'[m] = "done" <=> phase[m] = "done"
      BY <1>f, <2>2
    <3>2. Balanced(m)
      BY <1>i DEF DoneMeansDelivered
    <3> QED
      BY <2>1, <2>3, <3>1, <3>2, StaysBalanced
  <2>5. SendersAgree'
    <3>1. \A m \in Requests : phase[m] = "running" => phase'[m] = "running"
      BY <1>f, <2>2
    <3>2. \A q \in Procs : work[q] # Nothing => work[q] \in Requests
      BY <1>f
    <3> QED
      BY <1>i, <1>d, <2>1, <3>1, <3>2 DEF SendersAgree, SenderAgrees, Durable
  <2> QED
    BY <2>4, <2>5 DEF MailInv, DoneMeansDelivered
<1>2. CASE Dispatch(r) /\ driver = "sync"
  <2>1. /\ request[r] = "dispatching" /\ request'[r] = "sending"
        /\ \A m \in Requests \ {r} : request'[m] = request[m] /\ phase'[m] = phase[m]
        /\ phase[r] = "unborn" /\ phase'[r] = "running"
        /\ Compose(r) /\ repeats' = repeats
    BY <1>2, <1>f DEF Dispatch, Answers, Move
  <2>2. \A u \in Senders \ {r}, m \in Requests : Carries(u, m)' <=> Carries(u, m)
    BY <1>d, <2>1 DEF Carries
  <2>3. ASSUME NEW m \in Requests PROVE Balanced(m)'
    <3>1. phase'[m] = "done" <=> phase[m] = "done"
      BY <2>1
    <3>2. Balanced(m) /\ Mailing(m)' = Mailing(m)
      BY <1>i, <1>0, <2>1, <2>2, MailBegins DEF DoneMeansDelivered
    <3>3. UNCHANGED <<accepted, transport>>
      BY <2>1 DEF Compose
    <3> QED
      BY <2>1, <3>1, <3>2, <3>3, StaysBalanced
  <2>4. SendersAgree'
    <3>1. \A q \in Procs : work[q] = Nothing
      BY <1>2 DEF LifeInv, DriverKeepsJobs, Durable
    <3>2. \A u \in Senders : SenderAgrees(u)'
      BY <1>0, <2>1, <2>2, MailBegins
    <3> QED
      BY <1>i, <1>d, <2>1, <3>1, <3>2 DEF SendersAgree, SenderAgrees
  <2> QED
    BY <2>3, <2>4 DEF MailInv, DoneMeansDelivered
<1>3. CASE Dispatched(r)
  <2>1. /\ request[r] = "sending" /\ request'[r] = "created"
        /\ \A m \in Requests \ {r} : request'[m] = request[m] /\ phase'[m] = phase[m]
        /\ phase[r] = "running"
        /\ phase'[r] = (IF session[r] = "sent" THEN "done" ELSE "dead")
        /\ Returned(r, r, session[r] = "sent")
    BY <1>3, <1>f DEF Dispatched, Answers, Move, At
  <2>2. \A q \in Procs : work[q] = Nothing
    BY <2>1 DEF LifeInv, DriverKeepsJobs, Durable
  <2>3. PICK counts \in BOOLEAN : counts = (session[r] = "sent")
    OBVIOUS
  <2>4. /\ DoneMeansDelivered'
        /\ \A u \in Senders : SenderAgrees(u)'
    <3>1. Carries(r, r) /\ ~Carries(r, r)'
      BY <1>0, <2>1 DEF Carries
    <3>2. \A u \in Senders, m \in Requests :
              u # r \/ m # r => (Carries(u, m)' <=> Carries(u, m))
      BY <1>d, <2>1, <2>2 DEF Carries
    <3>3. \A m \in Requests : Carries(r, m) => m = r
      BY <1>0 DEF Carries
    <3>4. Returned(r, r, counts)
      BY <2>1, <2>3
    <3>5. /\ counts => session[r] = "sent" /\ phase[r] # "done" /\ phase'[r] = "done"
          /\ ~counts => (phase'[r] = "done" <=> phase[r] = "done")
      BY <2>1, <2>3
    <3> QED
      BY <1>0, <2>1, <3>1, <3>2, <3>3, <3>4, <3>5, MailReturns
  <2>5. SendersAgree'
    BY <1>i, <1>d, <2>1, <2>2, <2>4 DEF SendersAgree, SenderAgrees
  <2> QED
    BY <2>4, <2>5 DEF MailInv
<1> QED
  BY <1>1, <1>2, <1>3 DEF Handle

\* A worker that takes a job mails it anew. Where its claim writes back a row that
\* was deleted, the mail of the deleted one is a repetition.
LEMMA MailTake ==
    ASSUME TypeOK, LifeInv, MailInv, NEW p \in Procs, NEW r \in Requests, Take(p, r)
    PROVE  MailInv'
<1>f. /\ work \in [Procs -> Requests \union {Nothing}]
      /\ phase \in [Requests -> {"unborn", "waiting", "running", "stale", "done",
                                 "dead", "gone"}]
      /\ repeats \in [Requests -> Nat] /\ accepted \in [Requests -> Nat]
      /\ transport \in {"smtp", "log"}
  BY TypeFacts
<1>i. SendersAgree /\ DoneMeansDelivered
  BY DEF MailInv
<1>0. p \in Senders /\ p \notin Requests /\ r # Nothing
  OBVIOUS
<1>1. CASE Select(p, r) \/ ClaimError(p)
  BY <1>1, MailFrame DEF Select, ClaimError, setup, mailvars
<1>2. CASE Receive(p, r) \/ (claim[p] = r /\ SaveClaim(p))
  <2>1. /\ UNCHANGED <<driver, request>> /\ Compose(p)
        /\ work'[p] = r /\ \A q \in Procs \ {p} : work'[q] = work[q]
        /\ phase'[r] = "running" /\ \A m \in Requests \ {r} : phase'[m] = phase[m]
    BY <1>2, <1>f DEF Receive, SaveClaim, Move, setup
  <2>2. repeats' = IF phase[r] = "done" /\ transport = "smtp"
                   THEN [repeats EXCEPT ![r] = repeats[r] + 1] ELSE repeats
    BY <1>2 DEF Receive, SaveClaim, Move
  <2>3. \A u \in Senders \ {p}, m \in Requests : Carries(u, m)' <=> Carries(u, m)
    BY <1>0, <2>1 DEF Carries
  <2>4. UNCHANGED <<accepted, transport>>
    BY <2>1 DEF Compose
  <2>5. \A m \in Requests : Mailing(m)' = Mailing(m) /\ Balanced(m)
    BY <1>i, <1>0, <2>1, <2>3, MailBegins DEF DoneMeansDelivered
  <2>6. ASSUME NEW m \in Requests PROVE Balanced(m)'
    <3>1. CASE m = r
      <4>1. Cardinality(Mailing(r)) \in Nat
        BY MailingFinite, MailingOf, FS_CardinalityType
      <4>2. repeats'[r] = repeats[r] + (IF phase[r] = "done" /\ transport = "smtp" THEN 1 ELSE 0)
        BY <1>f, <2>2
      <4>3. phase'[r] # "done"
        BY <2>1
      <4> QED
        BY <1>f, <2>4, <2>5, <3>1, <4>1, <4>2, <4>3 DEF Balanced
    <3>2. CASE m # r
      <4>1. repeats'[m] = repeats[m] /\ phase'[m] = phase[m]
        BY <1>f, <2>1, <2>2, <3>2
      <4> QED
        BY <2>4, <2>5, <4>1, StaysBalanced
    <3> QED
      BY <3>1, <3>2
  <2>7. SendersAgree'
    <3>1. \A u \in Senders : SenderAgrees(u)'
      BY <1>0, <2>1, <2>3, MailBegins
    <3>2. \A m \in Requests : request'[m] = "sending" => phase'[m] = "running"
      BY <1>i, <2>1 DEF SendersAgree, SenderAgrees
    <3>3. ASSUME ~Durable', NEW q \in Procs, work'[q] # Nothing
          PROVE  phase'[work'[q]] = "running"
      <4>1. CASE q = p
        BY <2>1, <4>1
      <4>2. CASE q # p
        <5>1. ~Durable /\ work'[q] = work[q] /\ work[q] \in Requests
          BY <1>f, <2>1, <3>3, <4>2 DEF Durable
        <5> QED
          BY <1>i, <2>1, <3>3, <5>1 DEF SendersAgree, SenderAgrees
      <4> QED
        BY <4>1, <4>2
    <3> QED
      BY <3>1, <3>2, <3>3 DEF SendersAgree, SenderAgrees
  <2> QED
    BY <2>6, <2>7 DEF MailInv, DoneMeansDelivered
<1> QED
  BY <1>1, <1>2 DEF Take

\* A worker is done with a job: a mail that was taken ends the job, or is to be
\* repeated, or was one too many.
LEMMA MailSettle ==
    ASSUME TypeOK, LifeInv, MailInv, NEW p \in Procs, NEW r \in Requests,
           work[p] = r, Settle(p)
    PROVE  MailInv'
<1>f. /\ work \in [Procs -> Requests \union {Nothing}]
      /\ phase \in [Requests -> {"unborn", "waiting", "running", "stale", "done",
                                 "dead", "gone"}]
  BY TypeFacts
<1>i. SendersAgree /\ DoneMeansDelivered
  BY DEF MailInv
<1>0. p \in Senders /\ p \notin Requests /\ r # Nothing
  OBVIOUS
<1>1. /\ UNCHANGED <<driver, request>>
      /\ work'[p] = Nothing /\ \A q \in Procs \ {p} : work'[q] = work[q]
      /\ Returned(p, r, phase[r] # "done" /\ phase'[r] = "done")
  BY <1>f DEF Settle, setup
<1>2. \A m \in Requests \ {r} : phase'[m] = phase[m]
  BY <1>f DEF Settle, SettleRow
<1>3. PICK counts \in BOOLEAN : counts = (phase[r] # "done" /\ phase'[r] = "done")
  OBVIOUS
<1>4. /\ counts => session[p] = "sent"
      /\ phase[r] = "done" => phase'[r] = "done"
  <2>1. ~Durable => phase[r] = "running"
    BY <1>i, <1>0 DEF SendersAgree, SenderAgrees
  <2> QED
    BY <1>f, <1>3, <2>1 DEF Settle, SettleRow, At
<1>5. /\ DoneMeansDelivered'
      /\ \A u \in Senders : SenderAgrees(u)'
  <2>1. Carries(p, r) /\ ~Carries(p, r)'
    BY <1>0, <1>1 DEF Carries
  <2>2. \A u \in Senders, m \in Requests :
            u # p \/ m # r => (Carries(u, m)' <=> Carries(u, m))
    <3>1. \A m \in Requests : m # Nothing /\ m # p
      OBVIOUS
    <3> QED
      BY <1>1, <3>1 DEF Carries
  <2>3. \A m \in Requests : Carries(p, m) => m = r
    BY <1>0 DEF Carries
  <2>4. Returned(p, r, counts)
    BY <1>1, <1>3
  <2>5. /\ counts => session[p] = "sent" /\ phase[r] # "done" /\ phase'[r] = "done"
        /\ ~counts => (phase'[r] = "done" <=> phase[r] = "done")
    BY <1>3, <1>4
  <2> QED
    BY <1>0, <1>2, <2>1, <2>2, <2>3, <2>4, <2>5, MailReturns
<1>6. SendersAgree'
  <2>1. \A m \in Requests : request'[m] # "sending"
    BY <1>0, <1>1 DEF LifeInv, DriverKeepsJobs, Durable
  <2>2. ASSUME ~Durable', NEW q \in Procs, work'[q] # Nothing PROVE FALSE
    <3>1. ~Durable /\ q # p /\ work[q] # Nothing
      BY <1>1, <2>2 DEF Durable
    <3> QED
      BY <1>0, <3>1 DEF LifeInv, DriverKeepsJobs
  <2> QED
    BY <1>5, <2>1, <2>2 DEF SendersAgree, SenderAgrees
<1> QED
  BY <1>5, <1>6 DEF MailInv

\* An expired reservation is nothing to the mails.
LEMMA MailStale ==
    ASSUME TypeOK, LifeInv, MailInv, NEW r \in Requests, GoStale(r)
    PROVE  MailInv'
<1>1. /\ UNCHANGED <<driver, request, work, repeats, transport, session, delivered, accepted>>
      /\ Durable /\ phase[r] = "running" /\ phase' = [phase EXCEPT ![r] = "stale"]
  BY DEF GoStale, Move, setup, copies, mailvars
<1>2. \A m \in Requests : Mailing(m)' = Mailing(m)
  BY <1>1 DEF Mailing, Carries
<1>3. \A m \in Requests : phase'[m] = "done" <=> phase[m] = "done"
  BY <1>1, TypeFacts
<1>4. \A m \in Requests : Balanced(m)'
  BY <1>1, <1>2, <1>3, StaysBalanced DEF MailInv, DoneMeansDelivered
<1>5. \A m \in Requests : request[m] # "sending"
  BY <1>1 DEF LifeInv, DriverKeepsJobs, Durable
<1>6. SendersAgree'
  BY <1>1, <1>5 DEF MailInv, SendersAgree, SenderAgrees, Durable
<1> QED
  BY <1>4, <1>6 DEF MailInv, DoneMeansDelivered

\* A step of Send: the server takes a message once in a session.
LEMMA MailSend ==
    ASSUME TypeOK, LifeInv, MailInv, NEW s \in Senders, NEW r \in Requests, Send(s, r)
    PROVE  MailInv'
<1>f. /\ session \in [Senders -> Sessions] /\ delivered \in [Senders -> BOOLEAN]
      /\ repeats \in [Requests -> Nat] /\ accepted \in [Requests -> Nat]
      /\ transport \in {"smtp", "log"}
  BY TypeFacts
<1>i. SendersAgree /\ DoneMeansDelivered
  BY DEF MailInv
<1>1. Carries(s, r) /\ UNCHANGED <<driver, request, phase, work, repeats, transport>>
  BY DEF Send, SendStep, setup, jobs, copies
<1>2. \A u \in Senders, m \in Requests : Carries(u, m)' <=> Carries(u, m)
  BY <1>1 DEF Carries
<1>3. \A m \in Requests : Carries(s, m) => m = r
  BY <1>1 DEF Carries
<1>4. \A u \in Senders \ {s} : session'[u] = session[u] /\ delivered'[u] = delivered[u]
  BY <1>f DEF Send, SendStep, Converse, EndText, Quit, Goes
<1>5. CASE delivered' = delivered /\ accepted' = accepted
  <2>1. \/ session[s] = "open" /\ session'[s] \in {"sending", "error"}
        \/ session[s] = "sending" /\ session'[s] = "error"
        \/ session[s] = "taken" /\ session'[s] \in {"sent", "error"}
    <3>1. ASSUME EndText(s, r), session'[s] # "error" PROVE FALSE
      <4>1. accepted[r] \in Nat /\ accepted'[r] = accepted[r] + 1
        BY <1>f, <3>1 DEF EndText, Goes
      <4> QED
        BY <1>5, <4>1
    <3> QED
      BY <1>f, <3>1 DEF Send, SendStep, Converse, EndText, Quit, At, Goes
  <2>2. \A m \in Requests : Mailing(m)' = Mailing(m)
    BY <1>2, <1>5 DEF Mailing
  <2>3. DoneMeansDelivered'
    BY <1>i, <1>1, <1>5, <2>2 DEF DoneMeansDelivered, Balanced
  <2>4. SendersAgree'
    <3>1. ASSUME NEW u \in Senders
          PROVE  SenderAgrees(u)'
      BY <1>i, <1>1, <1>4, <1>5, <2>1 DEF SendersAgree, SenderAgrees
    <3> QED
      BY <1>i, <1>1, <3>1 DEF SendersAgree, SenderAgrees, Durable
  <2> QED
    BY <2>3, <2>4 DEF MailInv
<1>6. CASE /\ session[s] = "sending" /\ session'[s] = "taken"
           /\ delivered' = [delivered EXCEPT ![s] = TRUE]
           /\ accepted' = [accepted EXCEPT ![r] = accepted[r] + 1]
  <2>1. ~delivered[s] /\ delivered'[s] /\ transport = "smtp"
    BY <1>f, <1>i, <1>6 DEF SendersAgree, SenderAgrees
  <2>2. Mailing(r)' = Mailing(r) \union {s} /\ s \notin Mailing(r)
    BY <1>1, <1>2, <1>4, <2>1 DEF Mailing
  <2>3. Balanced(r)'
    <3>1. IsFiniteSet(Mailing(r))
      BY MailingFinite, MailingOf
    <3>2. /\ Cardinality(Mailing(r)') = Cardinality(Mailing(r)) + 1
          /\ Cardinality(Mailing(r)) \in Nat
      BY <2>2, <3>1, FS_AddElement, FS_CardinalityType
    <3>3. Balanced(r) /\ accepted'[r] = accepted[r] + 1
      BY <1>f, <1>i, <1>6 DEF DoneMeansDelivered
    <3> QED
      BY <1>f, <1>1, <3>2, <3>3 DEF Balanced
  <2>4. ASSUME NEW m \in Requests \ {r} PROVE Balanced(m)'
    <3>1. Mailing(m)' = Mailing(m)
      BY <1>2, <1>3, <1>4, <2>4 DEF Mailing
    <3>2. Balanced(m) /\ accepted'[m] = accepted[m]
      BY <1>f, <1>i, <1>6, <2>4 DEF DoneMeansDelivered
    <3> QED
      BY <1>1, <2>4, <3>1, <3>2, StaysBalanced
  <2>5. SendersAgree'
    <3>1. ASSUME NEW u \in Senders PROVE SenderAgrees(u)'
      BY <1>i, <1>1, <1>4, <1>6, <2>1 DEF SendersAgree, SenderAgrees
    <3> QED
      BY <1>i, <1>1, <3>1 DEF SendersAgree, SenderAgrees, Durable
  <2> QED
    BY <2>3, <2>4, <2>5 DEF MailInv, DoneMeansDelivered
<1> QED
  BY <1>f, <1>5, <1>6 DEF Send, SendStep, Converse, EndText, Quit, At, Goes

\* Every step keeps the account of the mails.
LEMMA MailStep == TypeOK /\ LifeInv /\ MailInv /\ [Next]_lifevars => MailInv'
<1> SUFFICES ASSUME TypeOK, LifeInv, MailInv, [Next]_lifevars PROVE MailInv'
  OBVIOUS
<1>1. CASE Outage \/ Recover \/ UNCHANGED lifevars
  BY <1>1, MailFrame DEF Outage, Recover, lifevars, setup, jobs, copies, mailvars
<1>2. ASSUME NEW s \in Senders, NEW r \in Requests, Interrupt(s, r) PROVE MailInv'
  BY <1>2, MailFrame DEF Interrupt, Hang, Wake, setup, jobs, copies
<1>3. ASSUME NEW p \in Procs, Settle(p) PROVE MailInv'
  <2>1. PICK r \in Requests : work[p] = r
    BY <1>3, TypeFacts DEF Settle
  <2> QED
    BY <1>3, <2>1, MailSettle
<1> QED
  BY <1>1, <1>2, <1>3, MailStage, MailRequest, MailTake, MailStale, MailSend DEF Next

\* However often a mail is sent, through hangs, outages, crashes, late settlements
\* and claims that overlap: a done job was mailed, and each further mail is due to
\* an execution whose outcome was lost or overwritten.
THEOREM DoneIsDelivered == Spec => []DoneMeansDelivered
<1>1. Init => MailInv
  <2> SUFFICES ASSUME Init PROVE MailInv
    OBVIOUS
  <2>1. /\ \A r \in Requests : /\ request[r] = "none" /\ phase[r] = "unborn"
                                /\ repeats[r] = 0 /\ accepted[r] = 0
        /\ \A p \in Procs : work[p] = Nothing
        /\ \A s \in Senders : session[s] = "idle" /\ ~delivered[s]
    BY DEF Init, MailInit
  <2>2. \A r \in Requests : Mailing(r) = {}
    BY <2>1 DEF Mailing
  <2>3. \A r \in Requests : Balanced(r)
    BY <2>1, <2>2, FS_EmptySet DEF Balanced
  <2> QED
    BY <2>1, <2>3 DEF MailInv, SendersAgree, SenderAgrees, DoneMeansDelivered
<1>2. MailInv => DoneMeansDelivered
  BY DEF MailInv
<1> QED
  BY <1>1, <1>2, MailStep, LifeInvariant, TypeCorrect, PTL DEF Spec
=============================================================================
