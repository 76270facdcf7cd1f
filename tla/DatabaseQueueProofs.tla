------------------------ MODULE DatabaseQueueProofs ------------------------
(***************************************************************************)
(* Theorems about DatabaseQueue, for every number of workers, processes,   *)
(* jobs and attempts, every delay and every sequence of failures.          *)
(***************************************************************************)
EXTENDS DatabaseQueue, TLAPS

\* The delay before a retry is a number of ticks.
LEMMA BackoffType ==
    \A a \in 0..MaxAttempts : Backoff(a) \in Nat
BY PowersAssumption, BoundsAssumption DEF Backoff

\* TypeOK holds in every reachable state of the driver, in every mode.
THEOREM TypeCorrect == Spec => []TypeOK
<1> USE DEF JobIds, JobRecord, Claim, NoRow, NoClaim, Selecting, Holding
<1>1. Init => TypeOK
  BY BoundsAssumption DEF Init, TypeOK
<1>2. TypeOK /\ [Next]_vars => TypeOK'
  <2> SUFFICES ASSUME TypeOK, [Next]_vars PROVE TypeOK'
    OBVIOUS
  <2> USE DEF TypeOK, table, history, GoTo, Release, Disrupt
  <2>1. ASSUME NEW delay \in Delays, Dispatch(delay) PROVE TypeOK'
    <3>1. delay \in Nat /\ MaxJobs \in Nat
      BY BoundsAssumption
    <3>2. nextId \in JobIds /\ nextId' \in 1..(MaxJobs + 1)
      BY <2>1, <3>1 DEF Dispatch
    <3>3. jobs' \in [JobIds -> JobRecord]
      BY <2>1, <3>1, <3>2 DEF Dispatch
    <3> QED
      BY <2>1, <3>2, <3>3 DEF Dispatch
  <2>2. ASSUME NEW w \in Workers, WorkerStep(w) PROVE TypeOK'
    <3>1. CASE LoopTop(w)
      <4>1. /\ pc' \in [Workers -> {"off", "loop", "fetch", "selected", "running",
                                    "succeeded", "errored", "waiting"}]
            /\ pc'[w] \in {"off", "fetch"} /\ pc[w] = "loop"
            /\ \A v \in Workers \ {w} : pc'[v] = pc[v]
            /\ proc[ProcOf[w]] = "down" => pc'[w] = "off"
        BY <3>1 DEF LoopTop
      <4>2. /\ now' = now /\ jobs' = jobs /\ nextId' = nextId /\ claim' = claim
            /\ proc' = proc /\ disruptions' = disruptions
            /\ successes' = successes /\ abandoned' = abandoned
        BY <3>1 DEF LoopTop
      <4>3. \A v \in Workers : claim'[v].id \in JobIds <=> Selecting(v)' \/ Holding(v)'
        <5>1. \A v \in Workers : claim[v].id \in JobIds <=> Selecting(v) \/ Holding(v)
          OBVIOUS
        <5>2. \A v \in Workers : /\ Selecting(v)' <=> Selecting(v)
                                 /\ Holding(v)' <=> Holding(v)
          BY <4>1, Zenon DEF Selecting, Holding
        <5> HIDE DEF TypeOK
        <5> QED
          BY <4>2, <5>1, <5>2, Zenon
      <4>4. \A v \in Workers : proc'[ProcOf[v]] = "down" => pc'[v] = "off"
        <5>1. \A v \in Workers : proc[ProcOf[v]] = "down" => pc[v] = "off"
          OBVIOUS
        <5> HIDE DEF TypeOK
        <5> QED
          BY <4>1, <4>2, <5>1, Zenon
      <4>5. /\ now' \in Nat /\ disruptions' \in Nat
            /\ jobs' \in [JobIds -> JobRecord]
            /\ \A j \in JobIds :
                  jobs'[j].status \in {"none", "pending"} => jobs'[j].reservedAt = 0
            /\ nextId' \in 1..(MaxJobs + 1)
            /\ claim' \in [Workers -> Claim]
            /\ proc' \in [Procs -> {"down", "up", "stopping"}]
            /\ successes' \in [JobIds -> Nat] /\ abandoned' \in [JobIds -> Nat]
        BY <4>2
      <4> QED
        BY <4>1, <4>3, <4>4, <4>5, Zenon
    <3>2. CASE SelectJob(w)
      <4>1. PICK j \in JobIds : claim' = [claim EXCEPT ![w] =
                [id |-> j, attempts |-> jobs[j].attempts + 1,
                 availableAt |-> jobs[j].availableAt, reservedAt |-> now]]
        BY <3>2 DEF SelectJob, Eligible
      <4>2. [id |-> j, attempts |-> jobs[j].attempts + 1,
             availableAt |-> jobs[j].availableAt, reservedAt |-> now] \in Claim
        <5>1. jobs[j] \in JobRecord /\ now \in Nat
          BY jobs \in [JobIds -> JobRecord]
        <5> QED
          BY <5>1
      <4>3. claim' \in [Workers -> Claim] /\ claim'[w].id = j
        BY <4>1, <4>2
      <4> QED
        BY <3>2, <4>1, <4>3 DEF SelectJob
    <3>3. CASE NoJob(w)
      BY <3>3 DEF NoJob
    <3>4. CASE SaveClaim(w)
      BY <3>4 DEF SaveClaim, SavedRow
    <3>5. CASE HandlerSucceeds(w)
      BY <3>5 DEF HandlerSucceeds
    <3>6. CASE HandlerFails(w)
      BY <3>6 DEF HandlerFails
    <3>7. CASE DeleteJob(w)
      BY <3>7 DEF DeleteJob
    <3>8. CASE RetryJob(w)
      <4>1. claim[w].attempts \in 0..MaxAttempts
        BY <3>8, BoundsAssumption DEF RetryJob
      <4>2. Backoff(claim[w].attempts) \in Nat
        BY <4>1, BackoffType
      <4>3. jobs' \in [JobIds -> JobRecord]
        BY <3>8, <4>2 DEF RetryJob, UpdateRow
      <4>4. \A j \in JobIds :
                jobs'[j].status \in {"none", "pending"} => jobs'[j].reservedAt = 0
        BY <3>8, <4>2 DEF RetryJob, UpdateRow
      <4> QED
        BY <3>8, <4>3, <4>4, SMTT(30) DEF RetryJob
    <3>9. CASE FailJob(w)
      BY <3>9, SMTT(30) DEF FailJob, UpdateRow
    <3>10. CASE PollTimeout(w)
      BY <3>10 DEF PollTimeout
    <3>11. CASE QuitWhileWaiting(w)
      BY <3>11 DEF QuitWhileWaiting
    <3> QED
      BY <2>2, <3>1, <3>2, <3>3, <3>4, <3>5, <3>6, <3>7, <3>8, <3>9, <3>10,
         <3>11 DEF WorkerStep
  <2>3. ASSUME NEW w \in Workers, ClaimError(w) PROVE TypeOK'
    BY <2>3 DEF ClaimError
  <2>4. ASSUME NEW w \in Workers, SettleLost(w) PROVE TypeOK'
    BY <2>4 DEF SettleLost
  <2>5. ASSUME NEW p \in Procs, Boot(p) PROVE TypeOK'
    BY <2>5, ProcsAssumption DEF Boot
  <2>6. ASSUME NEW p \in Procs, StopBegin(p) PROVE TypeOK'
    BY <2>6 DEF StopBegin
  <2>7. ASSUME NEW p \in Procs, Exit(p), disruptions' \in Nat PROVE TypeOK'
    BY <2>7 DEF Exit
  <2>8. CASE Tick
    BY <2>8 DEF Tick
  <2>9. CASE UNCHANGED vars
    BY <2>9 DEF vars
  <2>10. disruptions \in Nat /\ disruptions + 1 \in Nat
    OBVIOUS
  <2> HIDE DEF TypeOK
  <2> QED
    BY <2>1, <2>2, <2>3, <2>4, <2>5, <2>6, <2>7, <2>8, <2>9, <2>10
       DEF Next, StopDone, StopTimeout, Crash
<1>3. QED
  BY <1>1, <1>2, PTL DEF Spec

-----------------------------------------------------------------------------
\* A dispatched row leaves the table only after a handler returned nil for it,
\* in every mode: whatever the isolation of the claims, however long a handler
\* takes, whatever crashes. DeletionEarned carries the success from the moment
\* the handler returns to the DELETE of processNextJob.
THEOREM NothingLost == Spec => []NoJobLost
<1> DEFINE Inv == DeletionEarned /\ NoJobLost
<1>1. Init => Inv
  BY DEF Init, DeletionEarned, NoJobLost, JobIds
<1>2. TypeOK /\ TypeOK' /\ Inv /\ [Next]_vars => Inv'
  <2> SUFFICES ASSUME TypeOK, TypeOK', Inv, [Next]_vars PROVE Inv'
    OBVIOUS
  <2> USE DEF DeletionEarned, NoJobLost, table, history, GoTo, Release
  <2>0. /\ nextId \in Nat
        /\ jobs \in [JobIds -> JobRecord] /\ claim \in [Workers -> Claim]
        /\ successes \in [JobIds -> Nat]
        /\ pc \in [Workers -> {"off", "loop", "fetch", "selected", "running",
                               "succeeded", "errored", "waiting"}]
        /\ \A w \in Workers : pc[w] \in {"selected", "running", "succeeded",
                                         "errored"} => claim[w].id \in JobIds
    BY DEF TypeOK, Selecting, Holding
  <2>1. ASSUME NEW delay \in Delays, Dispatch(delay) PROVE Inv'
    BY <2>0, <2>1 DEF Dispatch, JobIds
  <2>2. ASSUME NEW w \in Workers, WorkerStep(w) PROVE Inv'
    <3>1. CASE LoopTop(w)
      BY <2>0, <3>1 DEF LoopTop
    <3>2. CASE SelectJob(w)
      BY <2>0, <3>2 DEF SelectJob
    <3>3. CASE NoJob(w)
      BY <2>0, <3>3 DEF NoJob
    <3>4. CASE SaveClaim(w)
      BY <2>0, <3>4 DEF SaveClaim, SavedRow
    <3>5. CASE HandlerSucceeds(w)
      BY <2>0, <3>5 DEF HandlerSucceeds
    <3>6. CASE HandlerFails(w)
      BY <2>0, <3>6 DEF HandlerFails
    <3>7. CASE DeleteJob(w)
      BY <2>0, <3>7 DEF DeleteJob
    <3>8. CASE RetryJob(w)
      BY <2>0, <3>8 DEF RetryJob, UpdateRow
    <3>9. CASE FailJob(w)
      BY <2>0, <3>9 DEF FailJob, UpdateRow
    <3>10. CASE PollTimeout(w)
      BY <2>0, <3>10 DEF PollTimeout
    <3>11. CASE QuitWhileWaiting(w)
      BY <2>0, <3>11 DEF QuitWhileWaiting
    <3> QED
      BY <2>2, <3>1, <3>2, <3>3, <3>4, <3>5, <3>6, <3>7, <3>8, <3>9, <3>10,
         <3>11 DEF WorkerStep
  <2>3. ASSUME NEW w \in Workers, ClaimError(w) PROVE Inv'
    BY <2>0, <2>3 DEF ClaimError
  <2>4. ASSUME NEW w \in Workers, SettleLost(w) PROVE Inv'
    BY <2>0, <2>4 DEF SettleLost
  <2>5. ASSUME NEW p \in Procs, Boot(p) PROVE Inv'
    BY <2>0, <2>5 DEF Boot
  <2>6. ASSUME NEW p \in Procs, StopBegin(p) PROVE Inv'
    BY <2>0, <2>6 DEF StopBegin
  <2>7. ASSUME NEW p \in Procs, Exit(p) PROVE Inv'
    BY <2>0, <2>7 DEF Exit
  <2>8. CASE Tick
    BY <2>0, <2>8 DEF Tick
  <2>9. CASE UNCHANGED vars
    BY <2>0, <2>9 DEF vars
  <2> QED
    BY <2>1, <2>2, <2>3, <2>4, <2>5, <2>6, <2>7, <2>8, <2>9
       DEF Next, StopDone, StopTimeout, Crash
<1>3. QED
  BY <1>1, <1>2, TypeCorrect, PTL DEF Spec

-----------------------------------------------------------------------------
(* Serialised and timely claims: SQLite, and handlers that keep to their      *)
(* 60 seconds. The inductive invariant is ReservationInv.                     *)

\* The parts of TypeOK the reservation argument uses, with the labels at which
\* a worker has a local copy of a row.
LEMMA TypeFacts ==
    ASSUME TypeOK
    PROVE  /\ now \in Nat /\ nextId \in Nat /\ nextId > 0
           /\ jobs \in [JobIds -> JobRecord]
           /\ claim \in [Workers -> Claim]
           /\ pc \in [Workers -> {"off", "loop", "fetch", "selected", "running",
                                  "succeeded", "errored", "waiting"}]
           /\ successes \in [JobIds -> Nat] /\ abandoned \in [JobIds -> Nat]
           /\ \A w \in Workers : Selecting(w) \/ Holding(w)
                                     => claim[w].id \in JobIds
BY DEF TypeOK

\* The SELECT never returns a row whose reservation is still held: the row is
\* not pending, and it becomes stale only after its holder is gone.
LEMMA HeldIsNotEligible ==
    ASSUME TypeOK, HolderOwnsReservation, ClaimsAreFresh,
           NEW w \in Workers, Holding(w)
    PROVE  claim[w].id \notin Eligible
<1>1. /\ now \in Nat /\ StaleAfter \in Nat /\ claim[w].reservedAt \in Nat
      /\ claim[w].id \in JobIds
  BY TypeFacts, BoundsAssumption DEF Claim
<1>2. jobs[claim[w].id] = SavedRow(claim[w])
  BY DEF HolderOwnsReservation
<1>3. now =< claim[w].reservedAt + StaleAfter
  BY DEF ClaimsAreFresh
<1> QED
  BY <1>1, <1>2, <1>3 DEF Eligible, Stale, SavedRow

\* A held row is in processing, and its id was handed out.
LEMMA HeldIsProcessing ==
    ASSUME TypeOK, HolderOwnsReservation, UnusedIdsAreFree,
           NEW w \in Workers, Holding(w)
    PROVE  /\ jobs[claim[w].id].status = "processing"
           /\ claim[w].id \in JobIds /\ claim[w].id < nextId
<1>1. claim[w].id \in JobIds /\ claim[w].id \in Nat /\ nextId \in Nat
  BY TypeFacts DEF JobIds
<1>2. jobs[claim[w].id] = SavedRow(claim[w])
  BY DEF HolderOwnsReservation
<1>3. jobs[claim[w].id].status = "processing"
  BY <1>2 DEF SavedRow
<1>4. jobs[claim[w].id] # NoRow
  BY <1>3 DEF NoRow
<1>5. ~(claim[w].id >= nextId)
  BY <1>1, <1>4 DEF UnusedIdsAreFree
<1> QED
  BY <1>1, <1>3, <1>5

\* Rows stay eligible as the clock advances.
LEMMA EligibleStays ==
    ASSUME TypeOK, Tick PROVE Eligible \subseteq Eligible'
<1>1. now \in Nat /\ StaleAfter \in Nat /\ jobs \in [JobIds -> JobRecord]
  BY TypeFacts, BoundsAssumption
<1>2. now' = now + 1 /\ jobs' = jobs
  BY DEF Tick, table
<1>3. \A j \in JobIds : jobs[j].availableAt \in Nat /\ jobs[j].reservedAt \in Nat
  BY <1>1 DEF JobRecord
<1> QED
  BY <1>1, <1>2, <1>3 DEF Eligible, Stale

\* Steps that leave the table and the clock alone, and in which workers only
\* keep or drop their copies, preserve the invariant.
LEMMA FrameStep ==
    ASSUME ReservationInv, UNCHANGED <<now, jobs, nextId>>,
           \A v \in Workers : /\ Holding(v)' => Holding(v)
                              /\ Selecting(v)' => Selecting(v)
                              /\ Holding(v)' \/ Selecting(v)' => claim'[v] = claim[v]
    PROVE  ReservationInv'
<1>1. HolderOwnsReservation'
  BY DEF ReservationInv, HolderOwnsReservation, SavedRow
<1>2. ExclusiveExecution'
  BY DEF ReservationInv, ExclusiveExecution, Holds
<1>3. Eligible' = Eligible
  BY DEF Eligible, Stale
<1>4. OpenClaimIsCurrent'
  BY <1>3 DEF ReservationInv, OpenClaimIsCurrent
<1>5. ClaimsAreFresh'
  BY DEF ReservationInv, ClaimsAreFresh
<1>6. UnusedIdsAreFree'
  BY DEF ReservationInv, UnusedIdsAreFree
<1> QED
  BY <1>1, <1>2, <1>4, <1>5, <1>6 DEF ReservationInv

\* The row of a held job is the reservation of its holder until the holder
\* settles it, and a claim that is being made is the only one and up to date:
\* one inductive invariant, one step per action.
LEMMA ReservationStep ==
    ASSUME IsolatedClaims, TimelyWorkers, TypeOK, TypeOK', ReservationInv,
           [Next]_vars
    PROVE  ReservationInv'
<1>0. /\ now \in Nat /\ nextId \in Nat /\ nextId > 0 /\ StaleAfter \in Nat
      /\ jobs \in [JobIds -> JobRecord]
      /\ claim \in [Workers -> Claim]
      /\ pc \in [Workers -> {"off", "loop", "fetch", "selected", "running",
                             "succeeded", "errored", "waiting"}]
      /\ \A w \in Workers : Selecting(w) \/ Holding(w) => claim[w].id \in JobIds
      /\ JobIds \subseteq Nat
  BY TypeFacts, BoundsAssumption DEF JobIds
<1>i. /\ HolderOwnsReservation /\ ExclusiveExecution /\ OpenClaimIsCurrent
      /\ ClaimsAreFresh /\ UnusedIdsAreFree
  BY DEF ReservationInv
<1>h. \A w \in Workers : Holding(w) => claim[w].id \notin Eligible
  BY <1>i, HeldIsNotEligible
<1>u. \A w \in Workers : Holding(w) =>
          /\ jobs[claim[w].id].status = "processing"
          /\ claim[w].id \in JobIds /\ claim[w].id < nextId
  BY <1>i, HeldIsProcessing
<1> USE DEF GoTo, Release, table, history, Selecting, Holding
<1>1. ASSUME NEW delay \in Delays, Dispatch(delay) PROVE ReservationInv'
  <2>1. \A w \in Workers : ~Selecting(w)
    BY <1>1 DEF Dispatch, TableFree
  <2>2. \A w \in Workers : Holding(w) => claim[w].id # nextId
    BY <1>0, <1>u
  <2>3. UNCHANGED <<now, claim, pc>>
    BY <1>1 DEF Dispatch
  <2>4. HolderOwnsReservation'
    BY <1>0, <1>1, <1>i, <2>2, <2>3 DEF Dispatch, HolderOwnsReservation, SavedRow
  <2>5. ExclusiveExecution' /\ OpenClaimIsCurrent' /\ ClaimsAreFresh'
    BY <1>i, <2>1, <2>3
       DEF ExclusiveExecution, Holds, OpenClaimIsCurrent, ClaimsAreFresh
  <2>6. UnusedIdsAreFree'
    BY <1>0, <1>1, <1>i DEF Dispatch, UnusedIdsAreFree, NoRow
  <2> QED
    BY <2>4, <2>5, <2>6 DEF ReservationInv
<1>2. ASSUME NEW w \in Workers, SelectJob(w) PROVE ReservationInv'
  <2>1. \A v \in Workers : ~Selecting(v)
    BY <1>2 DEF SelectJob, TableFree
  <2>2. PICK j \in Eligible : claim' = [claim EXCEPT ![w] =
            [id |-> j, attempts |-> jobs[j].attempts + 1,
             availableAt |-> jobs[j].availableAt, reservedAt |-> now]]
    BY <1>2 DEF SelectJob
  <2>3. /\ UNCHANGED <<now, jobs, nextId>>
        /\ pc' = [pc EXCEPT ![w] = "selected"]
    BY <1>2 DEF SelectJob
  <2>4. Eligible' = Eligible
    BY <2>3 DEF Eligible, Stale
  <2>5. \A v \in Workers : v # w => claim'[v] = claim[v] /\ pc'[v] = pc[v]
    BY <1>0, <2>2, <2>3
  <2>6. /\ pc'[w] = "selected"
        /\ claim'[w] = [id |-> j, attempts |-> jobs[j].attempts + 1,
                        availableAt |-> jobs[j].availableAt, reservedAt |-> now]
    BY <1>0, <2>2, <2>3
  <2>7. \A v \in Workers : Holding(v)' => Holding(v) /\ v # w
    BY <2>5, <2>6
  <2>8. HolderOwnsReservation' /\ ExclusiveExecution'
    BY <1>i, <2>3, <2>5, <2>7
       DEF HolderOwnsReservation, ExclusiveExecution, Holds, SavedRow
  <2>9. OpenClaimIsCurrent'
    BY <2>1, <2>3, <2>4, <2>5, <2>6 DEF OpenClaimIsCurrent
  <2>10. ClaimsAreFresh'
    <3>1. now =< now + StaleAfter
      BY <1>0
    <3> QED
      BY <1>i, <2>1, <2>3, <2>5, <2>6, <3>1 DEF ClaimsAreFresh
  <2>11. UnusedIdsAreFree'
    BY <1>i, <2>3 DEF UnusedIdsAreFree
  <2> QED
    BY <2>8, <2>9, <2>10, <2>11 DEF ReservationInv
<1>3. ASSUME NEW w \in Workers, SaveClaim(w) PROVE ReservationInv'
  <2>1. Selecting(w) /\ claim[w].id \in Eligible /\ claim[w].id \in JobIds
    BY <1>0, <1>3, <1>i DEF SaveClaim, OpenClaimIsCurrent
  <2>2. \A v \in Workers : /\ Holding(v) => claim[v].id # claim[w].id
                           /\ Selecting(v) => v = w
    BY <1>h, <1>i, <2>1 DEF OpenClaimIsCurrent
  <2>3. /\ UNCHANGED <<now, claim, nextId>>
        /\ jobs' = [jobs EXCEPT ![claim[w].id] = SavedRow(claim[w])]
        /\ pc' = [pc EXCEPT ![w] = "running"]
    BY <1>3 DEF SaveClaim
  <2>4. /\ pc'[w] = "running" /\ jobs'[claim[w].id] = SavedRow(claim[w])
        /\ \A v \in Workers : v # w => pc'[v] = pc[v]
        /\ \A j \in JobIds : j # claim[w].id => jobs'[j] = jobs[j]
    BY <1>0, <2>1, <2>3
  <2>5. HolderOwnsReservation'
    BY <1>0, <1>i, <2>2, <2>3, <2>4 DEF HolderOwnsReservation, SavedRow
  <2>6. ExclusiveExecution'
    BY <1>i, <2>2, <2>3, <2>4 DEF ExclusiveExecution, Holds
  <2>7. OpenClaimIsCurrent'
    BY <2>2, <2>4 DEF OpenClaimIsCurrent
  <2>8. ClaimsAreFresh'
    BY <1>i, <2>1, <2>3, <2>4 DEF ClaimsAreFresh
  <2>9. UnusedIdsAreFree'
    <3>1. jobs[claim[w].id].status # "none"
      BY <2>1 DEF Eligible
    <3>2. ~(claim[w].id >= nextId)
      BY <1>i, <2>1, <3>1 DEF UnusedIdsAreFree, NoRow
    <3> QED
      BY <1>i, <2>3, <2>4, <3>2 DEF UnusedIdsAreFree
  <2> QED
    BY <2>5, <2>6, <2>7, <2>8, <2>9 DEF ReservationInv
<1>4. ASSUME NEW w \in Workers, Holding(w), TableFree,
             UNCHANGED <<now, nextId>>,
             pc' = [pc EXCEPT ![w] = "loop"],
             claim' = [claim EXCEPT ![w] = NoClaim],
             \A j \in JobIds : j # claim[w].id => jobs'[j] = jobs[j]
      PROVE  ReservationInv'
  <2>1. \A v \in Workers : ~Selecting(v)
    BY <1>4 DEF TableFree
  <2>2. \A v \in Workers : v # w /\ Holding(v) => claim[v].id # claim[w].id
    BY <1>0, <1>4, <1>i DEF ExclusiveExecution, Holds
  <2>3. /\ pc'[w] = "loop"
        /\ \A v \in Workers : v # w => claim'[v] = claim[v] /\ pc'[v] = pc[v]
    BY <1>0, <1>4
  <2>4. \A v \in Workers : ~Selecting(v)' /\ (Holding(v)' => v # w /\ Holding(v))
    BY <2>1, <2>3
  <2>5. HolderOwnsReservation'
    <3>1. \A v \in Workers : Holding(v)' =>
              /\ claim'[v] = claim[v] /\ jobs'[claim[v].id] = jobs[claim[v].id]
              /\ Holding(v)
      BY <1>4, <1>u, <2>2, <2>3, <2>4
    <3> QED
      BY <1>i, <3>1 DEF HolderOwnsReservation, SavedRow
  <2>6. ExclusiveExecution' /\ OpenClaimIsCurrent'
    BY <1>i, <2>3, <2>4 DEF ExclusiveExecution, Holds, OpenClaimIsCurrent
  <2>7. ClaimsAreFresh'
    BY <1>4, <1>i, <2>3, <2>4 DEF ClaimsAreFresh
  <2>8. UnusedIdsAreFree'
    <3>1. claim[w].id < nextId /\ claim[w].id \in Nat
      BY <1>0, <1>4, <1>u
    <3>2. \A j \in JobIds : j >= nextId => j # claim[w].id
      BY <1>0, <3>1
    <3> QED
      BY <1>4, <1>i, <3>2 DEF UnusedIdsAreFree
  <2> QED
    BY <2>5, <2>6, <2>7, <2>8 DEF ReservationInv
<1>5. ASSUME NEW w \in Workers, DeleteJob(w) \/ RetryJob(w) \/ FailJob(w)
      PROVE  ReservationInv'
  <2>1. CASE DeleteJob(w)
    BY <1>0, <1>4, <2>1 DEF DeleteJob
  <2>2. CASE RetryJob(w)
    BY <1>0, <1>4, <2>2 DEF RetryJob, UpdateRow
  <2>3. CASE FailJob(w)
    BY <1>0, <1>4, <2>3 DEF FailJob, UpdateRow
  <2> QED
    BY <1>5, <2>1, <2>2, <2>3
<1>6. CASE Tick
  <2>1. now' = now + 1 /\ UNCHANGED <<jobs, nextId, pc, claim>>
    BY <1>6 DEF Tick
  <2>2. Eligible \subseteq Eligible'
    BY <1>6, EligibleStays
  <2>3. HolderOwnsReservation' /\ ExclusiveExecution' /\ UnusedIdsAreFree'
    BY <1>i, <2>1 DEF HolderOwnsReservation, ExclusiveExecution, Holds, SavedRow,
                      UnusedIdsAreFree
  <2>4. OpenClaimIsCurrent'
    BY <1>i, <2>1, <2>2 DEF OpenClaimIsCurrent
  <2>5. ClaimsAreFresh'
    <3>1. \A w \in Workers : claim[w].reservedAt \in Nat
      BY <1>0 DEF Claim
    <3>2. \A w \in Workers : Selecting(w) \/ Holding(w)
                                => now < claim[w].reservedAt + StaleAfter
      BY <1>6 DEF Tick
    <3> QED
      BY <1>0, <2>1, <3>1, <3>2 DEF ClaimsAreFresh
  <2> QED
    BY <2>3, <2>4, <2>5 DEF ReservationInv
<1>7. ASSUME NEW w \in Workers,
             \/ LoopTop(w) \/ NoJob(w) \/ HandlerSucceeds(w) \/ HandlerFails(w)
             \/ PollTimeout(w) \/ QuitWhileWaiting(w)
             \/ ClaimError(w) \/ SettleLost(w)
      PROVE  ReservationInv'
  <2>1. UNCHANGED <<now, jobs, nextId>>
    BY <1>7 DEF LoopTop, NoJob, HandlerSucceeds, HandlerFails, PollTimeout,
                QuitWhileWaiting, ClaimError, SettleLost
  <2>2. \A v \in Workers : v # w => claim'[v] = claim[v] /\ pc'[v] = pc[v]
    BY <1>0, <1>7 DEF LoopTop, NoJob, HandlerSucceeds, HandlerFails, PollTimeout,
                QuitWhileWaiting, ClaimError, SettleLost
  <2>3. /\ pc'[w] \in {"off", "loop", "fetch", "waiting", "succeeded", "errored"}
        /\ pc'[w] \in {"succeeded", "errored"} => Holding(w) /\ claim' = claim
    BY <1>0, <1>7 DEF LoopTop, NoJob, HandlerSucceeds, HandlerFails, PollTimeout,
                QuitWhileWaiting, ClaimError, SettleLost
  <2> QED
    BY <2>1, <2>2, <2>3, FrameStep
<1>8. ASSUME NEW p \in Procs, Boot(p) \/ StopBegin(p) \/ Exit(p)
      PROVE  ReservationInv'
  <2>1. UNCHANGED <<now, jobs, nextId>>
    BY <1>8 DEF Boot, StopBegin, Exit
  <2>2. \A v \in Workers : \/ claim'[v] = claim[v] /\ pc'[v] = pc[v]
                           \/ pc'[v] \in {"off", "loop"}
    BY <1>8 DEF Boot, StopBegin, Exit
  <2> QED
    BY <2>1, <2>2, FrameStep
<1>9. CASE UNCHANGED vars
  BY <1>9, FrameStep DEF vars
<1> QED
  BY <1>1, <1>2, <1>3, <1>5, <1>6, <1>7, <1>8, <1>9
     DEF Next, WorkerStep, StopDone, StopTimeout, Crash

\* No two workers, of whatever processes, execute or settle the same job, when
\* the claim transactions are serialised and a claim is settled before it
\* becomes stale ("processNextJob atomically claims ... the next pending job").
THEOREM Exclusion ==
    ASSUME IsolatedClaims, TimelyWorkers
    PROVE  Spec => [](ExclusiveExecution /\ ReservationInv)
<1>1. Init => ReservationInv
  BY DEF Init, ReservationInv, HolderOwnsReservation, ExclusiveExecution,
         OpenClaimIsCurrent, ClaimsAreFresh, UnusedIdsAreFree, Holds, Holding,
         Selecting
<1>2. TypeOK /\ TypeOK' /\ ReservationInv /\ [Next]_vars => ReservationInv'
  BY ReservationStep
<1>3. ReservationInv => ExclusiveExecution
  BY DEF ReservationInv
<1>4. QED
  BY <1>1, <1>2, <1>3, TypeCorrect, PTL DEF Spec

\* A step changes a row only when it inserts it, claims it from pending or
\* processing, or settles it from processing.
LEMMA SettledRowsStay ==
    ASSUME IsolatedClaims, TypeOK, ReservationInv, [Next]_vars,
           NEW j \in JobIds, j < nextId, jobs[j].status \in {"none", "failed"}
    PROVE  jobs'[j] = jobs[j]
<1>0. /\ nextId \in Nat /\ jobs \in [JobIds -> JobRecord] /\ JobIds \subseteq Nat
  BY TypeFacts DEF JobIds
<1>i. HolderOwnsReservation /\ OpenClaimIsCurrent /\ UnusedIdsAreFree
  BY DEF ReservationInv
<1>1. ASSUME NEW delay \in Delays, Dispatch(delay) PROVE jobs'[j] = jobs[j]
  BY <1>0, <1>1 DEF Dispatch
<1>2. ASSUME NEW w \in Workers, SaveClaim(w) PROVE jobs'[j] = jobs[j]
  <2>1. claim[w].id \in Eligible
    BY <1>2, <1>i DEF SaveClaim, OpenClaimIsCurrent, Selecting
  <2>2. claim[w].id # j
    BY <2>1 DEF Eligible
  <2> QED
    BY <1>0, <1>2, <2>2 DEF SaveClaim
<1>3. ASSUME NEW w \in Workers, DeleteJob(w) \/ RetryJob(w) \/ FailJob(w)
      PROVE  jobs'[j] = jobs[j]
  <2>1. Holding(w)
    BY <1>3 DEF DeleteJob, RetryJob, FailJob, Holding
  <2>2. jobs[claim[w].id].status = "processing"
    BY <1>i, <2>1, HeldIsProcessing
  <2>3. claim[w].id # j
    BY <2>2
  <2> QED
    BY <1>0, <1>3, <2>3 DEF DeleteJob, RetryJob, FailJob, UpdateRow
<1>4. ASSUME NEW w \in Workers, WorkerStep(w) \/ ClaimError(w) \/ SettleLost(w)
      PROVE  jobs'[j] = jobs[j]
  BY <1>2, <1>3, <1>4
     DEF WorkerStep, LoopTop, SelectJob, NoJob, HandlerSucceeds, HandlerFails,
         PollTimeout, QuitWhileWaiting, ClaimError, SettleLost, table
<1>5. ASSUME NEW p \in Procs, Boot(p) \/ StopBegin(p) \/ Exit(p)
      PROVE  jobs'[j] = jobs[j]
  BY <1>5 DEF Boot, StopBegin, Exit, table
<1>6. CASE Tick
  BY <1>6 DEF Tick, table
<1>7. CASE UNCHANGED vars
  BY <1>7 DEF vars
<1> QED
  BY <1>1, <1>4, <1>5, <1>6, <1>7 DEF Next, StopDone, StopTimeout, Crash

\* "mark as permanently failed": once a row is failed nothing touches it again.
\* A row deleted after its job succeeded is not written back by a claim that was
\* made before the deletion, although tx.Save would insert it again.
THEOREM SettledForGood ==
    ASSUME IsolatedClaims, TimelyWorkers
    PROVE  Spec => SettledIsFinal
<1>1. TypeOK /\ ReservationInv /\ [Next]_vars =>
          [\A j \in JobIds : j < nextId /\ jobs[j].status \in {"none", "failed"}
                                => jobs'[j] = jobs[j]]_vars
  BY SettledRowsStay
<1>2. QED
  BY <1>1, TypeCorrect, Exclusion, PTL DEF Spec, SettledIsFinal

-----------------------------------------------------------------------------
(* Attempts and successes: the inductive invariant is AccountingInv.          *)

\* A job whose row, history, holders and id are left alone keeps its accounts.
LEMMA AccountsFrame ==
    ASSUME NEW j \in JobIds, AccountsOf(j), jobs'[j] = jobs[j],
           successes'[j] = successes[j], abandoned'[j] = abandoned[j],
           nextId' \in Nat, nextId \in Nat, nextId' >= nextId, j \in Nat,
           Held(j) => Held(j)', SuccessPending(j) => SuccessPending(j)',
           abandoned[j] \in Nat, successes[j] \in Nat
    PROVE  AccountsOf(j)'
<1>1. j >= nextId' => j >= nextId
  OBVIOUS
<1>2. successes'[j] =< abandoned'[j]
          + (IF jobs'[j].status = "none" \/ SuccessPending(j)' THEN 1 ELSE 0)
  <2>1. CASE jobs[j].status = "none" \/ SuccessPending(j)
    BY <2>1 DEF AccountsOf
  <2>2. CASE ~(jobs[j].status = "none" \/ SuccessPending(j))
    BY <2>2 DEF AccountsOf
  <2> QED
    BY <2>1, <2>2
<1> QED
  BY <1>1, <1>2 DEF AccountsOf

\* The accounts of every job survive every step.
LEMMA AccountingStep ==
    ASSUME IsolatedClaims, TypeOK, TypeOK', ReservationInv, AccountingInv,
           [Next]_vars, NEW j \in JobIds
    PROVE  AccountsOf(j)'
<1>0. /\ nextId \in Nat /\ nextId' \in Nat /\ j \in Nat
      /\ MaxAttempts \in Nat /\ MaxAttempts > 0
      /\ jobs \in [JobIds -> JobRecord] /\ claim \in [Workers -> Claim]
      /\ pc \in [Workers -> {"off", "loop", "fetch", "selected", "running",
                             "succeeded", "errored", "waiting"}]
      /\ successes \in [JobIds -> Nat] /\ abandoned \in [JobIds -> Nat]
  BY TypeFacts, BoundsAssumption DEF JobIds, TypeOK
<1>1. /\ AccountsOf(j)
      /\ jobs[j].attempts \in Nat /\ successes[j] \in Nat /\ abandoned[j] \in Nat
  BY <1>0 DEF AccountingInv, JobRecord
<1>i. /\ HolderOwnsReservation /\ ExclusiveExecution /\ OpenClaimIsCurrent
      /\ ClaimsAreFresh /\ UnusedIdsAreFree
  BY DEF ReservationInv
<1> USE DEF GoTo, Release, table, history
<1>2. ASSUME NEW delay \in Delays, Dispatch(delay) PROVE AccountsOf(j)'
  <2>1. UNCHANGED <<pc, claim, successes, abandoned>> /\ nextId' = nextId + 1
    BY <1>2 DEF Dispatch
  <2>2. (Held(j)' <=> Held(j)) /\ (SuccessPending(j)' <=> SuccessPending(j))
    BY <2>1 DEF Held, Holds, Holding, SuccessPending
  <2>3. CASE j = nextId
    <3>1. jobs'[j].status = "pending" /\ jobs'[j].attempts = 0
      BY <1>0, <1>2, <2>3 DEF Dispatch
    <3> QED
      BY <1>0, <1>1, <2>1, <2>3, <3>1 DEF AccountsOf
  <2>4. CASE j # nextId
    <3>1. jobs'[j] = jobs[j]
      BY <1>0, <1>2, <2>4 DEF Dispatch
    <3> QED
      BY <1>0, <1>1, <2>1, <2>2, <3>1, AccountsFrame
  <2> QED
    BY <2>3, <2>4
<1>3. ASSUME NEW w \in Workers, SaveClaim(w) PROVE AccountsOf(j)'
  <2>1. /\ UNCHANGED <<claim, nextId, successes, abandoned>>
        /\ pc' = [pc EXCEPT ![w] = "running"] /\ pc[w] = "selected"
        /\ jobs' = [jobs EXCEPT ![claim[w].id] = SavedRow(claim[w])]
    BY <1>3 DEF SaveClaim
  <2>2. (Held(j) => Held(j)') /\ (SuccessPending(j)' <=> SuccessPending(j))
    BY <1>0, <2>1 DEF Held, Holds, Holding, SuccessPending
  <2>3. CASE j = claim[w].id
    <3>1. j \in Eligible /\ claim[w].attempts = jobs[j].attempts + 1
      BY <1>i, <2>1, <2>3 DEF OpenClaimIsCurrent, Selecting
    <3>2. ~Held(j)
      BY <1>i, <3>1, HeldIsNotEligible DEF Held, Holds
    <3>3. Held(j)'
      BY <1>0, <2>1, <2>3 DEF Held, Holds, Holding
    <3>4. jobs'[j].status = "processing" /\ jobs'[j].attempts = jobs[j].attempts + 1
      BY <1>0, <2>1, <2>3, <3>1 DEF SavedRow
    <3>5. jobs[j].status \in {"pending", "processing"}
      BY <3>1 DEF Eligible
    <3> QED
      BY <1>0, <1>1, <2>1, <2>2, <3>2, <3>3, <3>4, <3>5 DEF AccountsOf
  <2>4. CASE j # claim[w].id
    <3>1. jobs'[j] = jobs[j]
      BY <1>0, <2>1, <2>4
    <3> QED
      BY <1>0, <1>1, <2>1, <2>2, <3>1, AccountsFrame
  <2> QED
    BY <2>3, <2>4
<1>4. ASSUME NEW w \in Workers, HandlerSucceeds(w) PROVE AccountsOf(j)'
  <2>1. /\ UNCHANGED <<jobs, nextId, claim, abandoned>>
        /\ pc' = [pc EXCEPT ![w] = "succeeded"] /\ pc[w] = "running"
        /\ successes' = [successes EXCEPT ![claim[w].id] = @ + 1]
    BY <1>4 DEF HandlerSucceeds
  <2>2. Held(j)' <=> Held(j)
    BY <1>0, <2>1 DEF Held, Holds, Holding
  <2>3. SuccessPending(j) => SuccessPending(j)'
    BY <1>0, <2>1 DEF SuccessPending
  <2>4. CASE j = claim[w].id
    <3>1. SuccessPending(j)'
      BY <1>0, <2>1, <2>4 DEF SuccessPending
    <3>2. ~SuccessPending(j)
      BY <1>i, <2>1, <2>4 DEF ExclusiveExecution, Holds, Holding, SuccessPending
    <3>3. jobs[j].status = "processing" /\ j < nextId
      BY <1>i, <2>1, <2>4, HeldIsProcessing DEF Holding
    <3>4. successes'[j] = successes[j] + 1
      BY <1>0, <2>1, <2>4
    <3> QED
      BY <1>0, <1>1, <2>1, <2>2, <3>1, <3>2, <3>3, <3>4 DEF AccountsOf
  <2>5. CASE j # claim[w].id
    <3>1. successes'[j] = successes[j]
      BY <1>0, <2>1, <2>5
    <3> QED
      BY <1>0, <1>1, <2>1, <2>2, <2>3, <3>1, AccountsFrame
  <2> QED
    BY <2>4, <2>5
<1>5. ASSUME NEW w \in Workers, DeleteJob(w) \/ RetryJob(w) \/ FailJob(w)
      PROVE  AccountsOf(j)'
  <2>1. /\ UNCHANGED <<nextId, successes, abandoned>>
        /\ pc' = [pc EXCEPT ![w] = "loop"] /\ pc[w] \in {"succeeded", "errored"}
        /\ claim' = [claim EXCEPT ![w] = NoClaim]
    BY <1>5 DEF DeleteJob, RetryJob, FailJob
  <2>2. CASE j = claim[w].id
    <3>1. /\ Holding(w) /\ jobs[j] = SavedRow(claim[w])
          /\ jobs[j].status = "processing" /\ jobs[j].attempts = claim[w].attempts
      BY <1>i, <2>1, <2>2 DEF HolderOwnsReservation, Holding, SavedRow
    <3>2. CASE DeleteJob(w)
      <4>1. jobs'[j] = NoRow
        BY <1>0, <2>2, <3>2 DEF DeleteJob
      <4> QED
        BY <1>0, <1>1, <2>1, <4>1 DEF AccountsOf, NoRow
    <3>3. ASSUME pc[w] = "errored" PROVE ~SuccessPending(j)
      BY <1>i, <2>1, <2>2, <3>3
         DEF ExclusiveExecution, Holds, Holding, SuccessPending
    <3>4. CASE RetryJob(w)
      <4>1. jobs'[j].status = "pending" /\ jobs'[j].attempts = jobs[j].attempts
        BY <1>0, <2>2, <3>1, <3>4 DEF RetryJob, UpdateRow
      <4>2. jobs[j].attempts < MaxAttempts /\ pc[w] = "errored"
        BY <3>1, <3>4 DEF RetryJob
      <4> QED
        BY <1>0, <1>1, <2>1, <3>1, <3>3, <4>1, <4>2 DEF AccountsOf
    <3>5. CASE FailJob(w)
      <4>1. jobs'[j].status = "failed" /\ jobs'[j].attempts = jobs[j].attempts
        BY <1>0, <2>2, <3>1, <3>5 DEF FailJob, UpdateRow
      <4>2. jobs[j].attempts >= MaxAttempts /\ pc[w] = "errored"
        BY <3>1, <3>5 DEF FailJob
      <4> QED
        BY <1>0, <1>1, <2>1, <3>1, <3>3, <4>1, <4>2 DEF AccountsOf
    <3> QED
      BY <1>5, <3>2, <3>4, <3>5
  <2>3. CASE j # claim[w].id
    <3>1. jobs'[j] = jobs[j]
      BY <1>0, <1>5, <2>3 DEF DeleteJob, RetryJob, FailJob, UpdateRow
    <3>2. (Held(j) => Held(j)') /\ (SuccessPending(j) => SuccessPending(j)')
      BY <1>0, <2>1, <2>3 DEF Held, Holds, Holding, SuccessPending
    <3> QED
      BY <1>0, <1>1, <2>1, <3>1, <3>2, AccountsFrame
  <2> QED
    BY <2>2, <2>3
<1>6. ASSUME NEW w \in Workers, SettleLost(w) PROVE AccountsOf(j)'
  <2>1. /\ UNCHANGED <<jobs, nextId, successes>>
        /\ pc' = [pc EXCEPT ![w] = "loop"]
        /\ claim' = [claim EXCEPT ![w] = NoClaim]
        /\ abandoned' = [abandoned EXCEPT ![claim[w].id] = @ + 1]
    BY <1>6 DEF SettleLost
  <2>2. CASE j = claim[w].id
    <3>1. abandoned'[j] = abandoned[j] + 1
      BY <1>0, <2>1, <2>2
    <3> QED
      BY <1>0, <1>1, <2>1, <3>1 DEF AccountsOf
  <2>3. CASE j # claim[w].id
    <3>1. abandoned'[j] = abandoned[j]
      BY <1>0, <2>1, <2>3
    <3>2. (Held(j) => Held(j)') /\ (SuccessPending(j) => SuccessPending(j)')
      BY <1>0, <2>1, <2>3 DEF Held, Holds, Holding, SuccessPending
    <3> QED
      BY <1>0, <1>1, <2>1, <3>1, <3>2, AccountsFrame
  <2> QED
    BY <2>2, <2>3
<1>7. ASSUME NEW p \in Procs, Exit(p) PROVE AccountsOf(j)'
  <2>1. /\ UNCHANGED <<jobs, nextId, successes>>
        /\ \A w \in Workers : w \notin WorkersOf(p) =>
               pc'[w] = pc[w] /\ claim'[w] = claim[w]
    BY <1>7 DEF Exit, WorkersOf
  <2>2. CASE \E w \in WorkersOf(p) : Holds(w, j)
    <3>1. abandoned'[j] = abandoned[j] + 1
      BY <1>7, <2>2 DEF Exit
    <3> QED
      BY <1>0, <1>1, <2>1, <3>1 DEF AccountsOf
  <2>3. CASE ~(\E w \in WorkersOf(p) : Holds(w, j))
    <3>1. abandoned'[j] = abandoned[j]
      BY <1>7, <2>3 DEF Exit
    <3>2. (Held(j) => Held(j)') /\ (SuccessPending(j) => SuccessPending(j)')
      BY <1>0, <2>1, <2>3 DEF Held, Holds, Holding, SuccessPending
    <3> QED
      BY <1>0, <1>1, <2>1, <3>1, <3>2, AccountsFrame
  <2> QED
    BY <2>2, <2>3
<1>8. ASSUME UNCHANGED <<jobs, nextId, successes, abandoned>>,
             \A w \in Workers : Holding(w) =>
                 /\ claim'[w] = claim[w]
                 /\ pc'[w] = pc[w] \/ (pc[w] = "running" /\ pc'[w] = "errored")
      PROVE  AccountsOf(j)'
  <2>1. (Held(j) => Held(j)') /\ (SuccessPending(j) => SuccessPending(j)')
    BY <1>8 DEF Held, Holds, Holding, SuccessPending
  <2> QED
    BY <1>0, <1>1, <1>8, <2>1, AccountsFrame
<1>9. ASSUME NEW w \in Workers,
             \/ LoopTop(w) \/ SelectJob(w) \/ NoJob(w) \/ HandlerFails(w)
             \/ PollTimeout(w) \/ QuitWhileWaiting(w) \/ ClaimError(w)
      PROVE  AccountsOf(j)'
  <2>1. UNCHANGED <<jobs, nextId, successes, abandoned>>
    BY <1>9 DEF LoopTop, SelectJob, NoJob, HandlerFails, PollTimeout,
                QuitWhileWaiting, ClaimError
  <2>2. \A v \in Workers : v # w => pc'[v] = pc[v] /\ claim'[v] = claim[v]
    BY <1>0, <1>9 DEF LoopTop, SelectJob, NoJob, HandlerFails, PollTimeout,
                QuitWhileWaiting, ClaimError
  <2>3. Holding(w) => pc[w] = "running" /\ pc'[w] = "errored" /\ claim' = claim
    BY <1>0, <1>9 DEF Holding, LoopTop, SelectJob, NoJob, HandlerFails,
                PollTimeout, QuitWhileWaiting, ClaimError
  <2> QED
    BY <1>8, <2>1, <2>2, <2>3
<1>10. ASSUME NEW p \in Procs, Boot(p) \/ StopBegin(p) PROVE AccountsOf(j)'
  <2>1. UNCHANGED <<jobs, nextId, successes, abandoned, claim>>
    BY <1>10 DEF Boot, StopBegin
  <2>2. \A w \in Workers : Holding(w) => pc'[w] = pc[w]
    BY <1>10 DEF Boot, StopBegin, Holding, TypeOK
  <2> QED
    BY <1>8, <2>1, <2>2
<1>11. CASE Tick \/ UNCHANGED vars
  <2>1. UNCHANGED <<jobs, nextId, successes, abandoned, claim, pc>>
    BY <1>11 DEF Tick, vars
  <2> QED
    BY <1>8, <2>1
<1> QED
  BY <1>2, <1>3, <1>4, <1>5, <1>6, <1>7, <1>9, <1>10, <1>11
     DEF Next, WorkerStep, StopDone, StopTimeout, Crash

\* A job is executed MaxAttempts times plus once per abandoned execution, takes
\* effect more than once only through an abandoned execution, and is failed
\* only with its attempts exhausted.
THEOREM Accounting ==
    ASSUME IsolatedClaims, TimelyWorkers
    PROVE  Spec => []( /\ AccountingInv /\ AttemptsAccounted
                       /\ DuplicatesAccounted /\ FailedMeansExhausted)
<1>1. Init => AccountingInv
  BY BoundsAssumption DEF Init, AccountingInv, AccountsOf, NoRow, JobIds
<1>2. TypeOK /\ TypeOK' /\ ReservationInv /\ AccountingInv /\ [Next]_vars
         => AccountingInv'
  BY AccountingStep DEF AccountingInv
<1>3. TypeOK /\ AccountingInv =>
          AttemptsAccounted /\ DuplicatesAccounted /\ FailedMeansExhausted
  <2> SUFFICES ASSUME TypeOK, AccountingInv
               PROVE  AttemptsAccounted /\ DuplicatesAccounted /\ FailedMeansExhausted
    OBVIOUS
  <2>1. \A j \in JobIds : AccountsOf(j) /\ abandoned[j] \in Nat /\ successes[j] \in Nat
    BY TypeFacts DEF AccountingInv
  <2> QED
    BY <2>1 DEF AccountsOf, AttemptsAccounted, DuplicatesAccounted,
                FailedMeansExhausted
<1>4. QED
  BY <1>1, <1>2, <1>3, TypeCorrect, Exclusion, PTL DEF Spec

-----------------------------------------------------------------------------
(* The driver implements JobLifecycle.                                        *)

\* A job whose row, holders and id are left alone stays in its phase.
LEMMA PhaseFrame ==
    ASSUME NEW j \in JobIds, jobs'[j] = jobs[j], (j >= nextId') <=> (j >= nextId),
           Held(j)' <=> Held(j)
    PROVE  PhaseOf(j)' = PhaseOf(j) /\ jobs'[j].attempts = jobs[j].attempts
BY DEF PhaseOf

\* Every step of the driver is a step of the lifecycle of one job, a loss of the
\* executions of one process, or no step of the lifecycle at all.
LEMMA LifecycleStep ==
    ASSUME IsolatedClaims, TypeOK, TypeOK', ReservationInv, ReservationInv',
           AccountingInv, [Next]_vars
    PROVE  [Lifecycle!Next]_(Lifecycle!vars)
<1> DEFINE Ph == [j \in JobIds |-> PhaseOf(j)]
           Tr == [j \in JobIds |-> jobs[j].attempts]
<1>0. /\ nextId \in Nat /\ nextId' \in Nat /\ JobIds \subseteq Nat
      /\ jobs \in [JobIds -> JobRecord] /\ claim \in [Workers -> Claim]
      /\ pc \in [Workers -> {"off", "loop", "fetch", "selected", "running",
                             "succeeded", "errored", "waiting"}]
  <2>1. JobIds \subseteq Nat
    BY BoundsAssumption DEF JobIds
  <2>2. nextId' \in Nat
    BY BoundsAssumption DEF TypeOK
  <2>3. QED
    BY <2>1, <2>2, TypeFacts
<1>i. /\ HolderOwnsReservation /\ ExclusiveExecution /\ OpenClaimIsCurrent
      /\ ClaimsAreFresh /\ UnusedIdsAreFree
  BY DEF ReservationInv
<1>p. \A j \in JobIds : Held(j) => PhaseOf(j) = "running"
  BY <1>0, <1>i, HeldIsProcessing DEF Held, Holds, PhaseOf
<1> USE DEF GoTo, Release, table, history
\* the shape of every visible step of one job
<1>m. ASSUME NEW j \in JobIds, NEW to, PhaseOf(j)' = to,
             \A k \in JobIds : k # j =>
                 /\ jobs'[k] = jobs[k] /\ (k >= nextId' <=> k >= nextId)
                 /\ Held(k)' <=> Held(k)
      PROVE  /\ Lifecycle!Move(j, PhaseOf(j), to)
             /\ Tr' = [Tr EXCEPT ![j] = jobs'[j].attempts]
             /\ Ph[j] = PhaseOf(j) /\ Tr[j] = jobs[j].attempts
  <2>1. \A k \in JobIds : k # j => /\ PhaseOf(k)' = PhaseOf(k)
                                   /\ jobs'[k].attempts = jobs[k].attempts
    BY <1>m, PhaseFrame
  <2>2. Ph' = [Ph EXCEPT ![j] = to]
    BY <1>m, <2>1
  <2>3. Tr' = [Tr EXCEPT ![j] = jobs'[j].attempts]
    BY <2>1
  <2> QED
    BY <2>2, <2>3 DEF Lifecycle!Move
<1>s. ASSUME UNCHANGED <<jobs, nextId>>,
             \A w \in Workers : /\ Holding(w)' <=> Holding(w)
                                /\ Holding(w) => claim'[w] = claim[w]
      PROVE  UNCHANGED Lifecycle!vars
  <2>1. \A j \in JobIds : Held(j)' <=> Held(j)
    BY <1>s DEF Held, Holds
  <2>2. \A j \in JobIds : PhaseOf(j)' = PhaseOf(j)
    BY <1>s, <2>1, PhaseFrame
  <2> QED
    BY <1>s, <2>2 DEF Lifecycle!vars
<1>1. ASSUME NEW delay \in Delays, Dispatch(delay) PROVE Lifecycle!Next
  <2>0. PICK j \in JobIds : j = nextId
    BY <1>0, <1>1 DEF Dispatch, JobIds, TypeOK
  <2>1. /\ nextId' = nextId + 1 /\ UNCHANGED <<pc, claim>>
        /\ jobs'[j].status = "pending" /\ jobs'[j].attempts = 0
        /\ \A k \in JobIds : k # j => jobs'[k] = jobs[k]
    BY <1>0, <1>1, <2>0 DEF Dispatch
  <2>2. \A k \in JobIds : Held(k)' <=> Held(k)
    BY <2>1 DEF Held, Holds, Holding
  <2>3. PhaseOf(j) = "unborn" /\ PhaseOf(j)' = "waiting"
    BY <1>0, <2>0, <2>1 DEF PhaseOf
  <2>4. jobs[j].attempts = 0
    BY <1>0, <1>i, <2>0 DEF UnusedIdsAreFree, NoRow
  <2>5. \A k \in JobIds : k # j => (k >= nextId' <=> k >= nextId)
    BY <1>0, <2>0, <2>1
  <2>6. /\ Lifecycle!Move(j, "unborn", "waiting")
        /\ Tr' = [Tr EXCEPT ![j] = 0] /\ Tr[j] = 0
    BY <1>m, <2>1, <2>2, <2>3, <2>4, <2>5
  <2>7. Tr' = Tr
    BY <2>6
  <2>8. Lifecycle!Submit(j)
    BY <2>6, <2>7 DEF Lifecycle!Submit
  <2> QED
    BY <2>8 DEF Lifecycle!Next
<1>2. ASSUME NEW w \in Workers, SaveClaim(w) PROVE Lifecycle!Next
  <2>0. PICK j \in JobIds : j = claim[w].id
    BY <1>2, TypeFacts DEF SaveClaim, Selecting
  <2>1. /\ UNCHANGED <<nextId, claim>> /\ pc' = [pc EXCEPT ![w] = "running"]
        /\ pc[w] = "selected"
        /\ jobs' = [jobs EXCEPT ![j] = SavedRow(claim[w])]
    BY <1>2, <2>0 DEF SaveClaim
  <2>2. j \in Eligible /\ claim[w].attempts = jobs[j].attempts + 1
    BY <1>i, <2>0, <2>1 DEF OpenClaimIsCurrent, Selecting
  <2>3. ~Held(j) /\ Held(j)'
    BY <1>0, <1>i, <2>0, <2>1, <2>2, HeldIsNotEligible DEF Held, Holds, Holding
  <2>4. \A k \in JobIds : k # j =>
            jobs'[k] = jobs[k] /\ (Held(k)' <=> Held(k))
    BY <1>0, <2>0, <2>1 DEF Held, Holds, Holding
  <2>5. /\ jobs'[j].status = "processing"
        /\ jobs'[j].attempts = jobs[j].attempts + 1
    BY <1>0, <2>1, <2>2 DEF SavedRow
  <2>6. jobs[j].status \in {"pending", "processing"}
    BY <2>2 DEF Eligible
  <2>7. ~(j >= nextId)
    BY <1>i, <2>6 DEF UnusedIdsAreFree, NoRow
  <2>8. PhaseOf(j)' = "running"
    BY <2>1, <2>3, <2>5, <2>7 DEF PhaseOf
  <2>9. /\ Lifecycle!Move(j, PhaseOf(j), "running")
        /\ Tr' = [Tr EXCEPT ![j] = jobs[j].attempts + 1]
        /\ Tr[j] = jobs[j].attempts
    BY <1>m, <2>1, <2>4, <2>5, <2>8
  <2>10. Tr' = [Tr EXCEPT ![j] = Tr[j] + 1]
    BY <2>9
  <2>11. CASE jobs[j].status = "pending"
    <3>1. PhaseOf(j) = "waiting"
      BY <2>7, <2>11 DEF PhaseOf
    <3>2. Tr[j] < MaxAttempts
      BY <2>9, <2>11 DEF AccountingInv, AccountsOf
    <3>3. Lifecycle!Begin(j)
      BY <2>9, <2>10, <3>1, <3>2 DEF Lifecycle!Begin
    <3> QED
      BY <3>3 DEF Lifecycle!Next
  <2>12. CASE jobs[j].status = "processing"
    <3>1. PhaseOf(j) = "lost"
      BY <2>3, <2>7, <2>12 DEF PhaseOf
    <3>2. Lifecycle!Redeliver(j)
      BY <2>9, <2>10, <3>1 DEF Lifecycle!Redeliver
    <3> QED
      BY <3>2 DEF Lifecycle!Next
  <2> QED
    BY <2>6, <2>11, <2>12
<1>3. ASSUME NEW w \in Workers, DeleteJob(w) \/ RetryJob(w) \/ FailJob(w)
      PROVE  Lifecycle!Next
  <2>0. PICK j \in JobIds : j = claim[w].id
    BY <1>3, TypeFacts DEF DeleteJob, RetryJob, FailJob, Holding
  <2>1. /\ UNCHANGED nextId /\ Holding(w) /\ pc' = [pc EXCEPT ![w] = "loop"]
        /\ claim' = [claim EXCEPT ![w] = NoClaim]
        /\ \A k \in JobIds : k # j => jobs'[k] = jobs[k]
    BY <1>0, <1>3, <2>0 DEF DeleteJob, RetryJob, FailJob, UpdateRow, Holding
  <2>2. /\ jobs[j].status = "processing" /\ ~(j >= nextId)
        /\ jobs[j].attempts = claim[w].attempts
    <3>1. jobs[j].status = "processing" /\ j < nextId /\ j \in Nat
      BY <1>0, <1>i, <2>0, <2>1, HeldIsProcessing
    <3>2. jobs[j] = SavedRow(claim[w])
      BY <1>i, <2>0, <2>1 DEF HolderOwnsReservation
    <3> QED
      BY <1>0, <3>1, <3>2 DEF SavedRow
  <2>3. PhaseOf(j) = "running"
    BY <1>p, <2>0, <2>1 DEF Held, Holds
  <2>4. \A k \in JobIds : k # j => (Held(k)' <=> Held(k))
    BY <1>0, <2>0, <2>1 DEF Held, Holds, Holding
  <2>5. ASSUME NEW to, PhaseOf(j)' = to
        PROVE  /\ Lifecycle!Move(j, "running", to)
               /\ Tr' = [Tr EXCEPT ![j] = jobs'[j].attempts]
               /\ Tr[j] = jobs[j].attempts
    BY <1>m, <2>1, <2>3, <2>4, <2>5
  <2>6. CASE DeleteJob(w)
    <3>1. jobs'[j] = NoRow
      BY <1>0, <2>0, <2>6 DEF DeleteJob
    <3>2. PhaseOf(j)' = "done" /\ jobs'[j].attempts = 0
      BY <2>1, <2>2, <3>1 DEF PhaseOf, NoRow
    <3>3. Lifecycle!Complete(j)
      BY <2>5, <3>2 DEF Lifecycle!Complete
    <3> QED
      BY <3>3 DEF Lifecycle!Next
  <2>7. CASE RetryJob(w)
    <3>1. jobs'[j].status = "pending" /\ jobs'[j].attempts = jobs[j].attempts
      BY <1>0, <2>0, <2>2, <2>7 DEF RetryJob, UpdateRow
    <3>2. PhaseOf(j)' = "waiting" /\ jobs[j].attempts < MaxAttempts
      BY <2>1, <2>2, <2>7, <3>1 DEF PhaseOf, RetryJob
    <3>3. Lifecycle!Move(j, "running", "waiting") /\ Tr' = Tr /\ Tr[j] < MaxAttempts
      BY <2>5, <3>1, <3>2
    <3>4. Lifecycle!Postpone(j)
      BY <3>3 DEF Lifecycle!Postpone
    <3> QED
      BY <3>4 DEF Lifecycle!Next
  <2>8. CASE FailJob(w)
    <3>1. jobs'[j].status = "failed" /\ jobs'[j].attempts = jobs[j].attempts
      BY <1>0, <2>0, <2>2, <2>8 DEF FailJob, UpdateRow
    <3>2. PhaseOf(j)' = "dead" /\ jobs[j].attempts >= MaxAttempts
      BY <2>1, <2>2, <2>8, <3>1 DEF PhaseOf, FailJob
    <3>3. Lifecycle!Move(j, "running", "dead") /\ Tr' = Tr /\ Tr[j] >= MaxAttempts
      BY <2>5, <3>1, <3>2
    <3>4. Lifecycle!GiveUp(j)
      BY <3>3 DEF Lifecycle!GiveUp
    <3> QED
      BY <3>4 DEF Lifecycle!Next
  <2> QED
    BY <1>3, <2>6, <2>7, <2>8
<1>4. ASSUME NEW S \in SUBSET JobIds, UNCHANGED <<jobs, nextId>>,
             \A k \in S : Held(k) /\ ~Held(k)',
             \A k \in JobIds \ S : Held(k)' <=> Held(k)
      PROVE  Lifecycle!Next
  <2>1. \A k \in S : Ph[k] = "running" /\ PhaseOf(k)' = "lost"
    <3> SUFFICES ASSUME NEW k \in S PROVE PhaseOf(k) = "running" /\ PhaseOf(k)' = "lost"
      OBVIOUS
    <3>1. PhaseOf(k) = "running"
      BY <1>4, <1>p
    <3> QED
      BY <1>4, <3>1 DEF PhaseOf
  <2>2. \A k \in JobIds \ S : PhaseOf(k)' = PhaseOf(k)
    BY <1>4, PhaseFrame
  <2>3. Ph' = [k \in JobIds |-> IF k \in S THEN "lost" ELSE Ph[k]]
    BY <2>1, <2>2
  <2>4. Tr' = Tr
    BY <1>4
  <2> QED
    BY <2>1, <2>3, <2>4 DEF Lifecycle!Next, Lifecycle!Lose
<1>5. ASSUME NEW w \in Workers, SettleLost(w) PROVE Lifecycle!Next
  <2>0. PICK j \in JobIds : j = claim[w].id
    BY <1>5, TypeFacts DEF SettleLost, Holding
  <2>1. /\ UNCHANGED <<jobs, nextId>> /\ Holding(w)
        /\ pc' = [pc EXCEPT ![w] = "loop"]
        /\ claim' = [claim EXCEPT ![w] = NoClaim]
    BY <1>5 DEF SettleLost, Holding
  <2>2. \A v \in Workers : Holding(v)' <=> Holding(v) /\ v # w
    BY <1>0, <2>1 DEF Holding
  <2>3. \A v \in Workers : v # w => claim'[v] = claim[v]
    BY <1>0, <2>1
  <2>4. Held(j) /\ ~Held(j)'
    BY <1>i, <2>0, <2>1, <2>2, <2>3 DEF ExclusiveExecution, Held, Holds
  <2>5. \A k \in JobIds : k # j => (Held(k)' <=> Held(k))
    BY <2>0, <2>2, <2>3 DEF Held, Holds
  <2>6. {j} \in SUBSET JobIds /\ (\A k \in JobIds \ {j} : k # j)
    OBVIOUS
  <2>7. /\ \A k \in {j} : Held(k) /\ ~Held(k)'
        /\ \A k \in JobIds \ {j} : Held(k)' <=> Held(k)
    BY <2>4, <2>5
  <2> QED
    BY <1>4, <2>1, <2>6, <2>7
<1>6. ASSUME NEW p \in Procs, Exit(p) PROVE Lifecycle!Next
  <2> DEFINE S == {k \in JobIds : \E w \in WorkersOf(p) : Holds(w, k)}
  <2>1. UNCHANGED <<jobs, nextId>>
    BY <1>6 DEF Exit
  <2>2. \A v \in Workers : /\ v \in WorkersOf(p) => ~Holding(v)'
                           /\ v \notin WorkersOf(p) =>
                                  pc'[v] = pc[v] /\ claim'[v] = claim[v]
    BY <1>6 DEF Exit, WorkersOf, Holding
  <2>3. \A k \in S : Held(k) /\ ~Held(k)'
    BY <1>i, <2>2 DEF ExclusiveExecution, Held, Holds, Holding, WorkersOf
  <2>4. \A k \in JobIds \ S : Held(k)' <=> Held(k)
    BY <2>2 DEF Held, Holds, Holding, WorkersOf
  <2> HIDE DEF S
  <2>5. S \in SUBSET JobIds
    BY DEF S
  <2> QED
    BY <1>4, <2>1, <2>3, <2>4, <2>5
<1>7. ASSUME NEW w \in Workers,
             \/ LoopTop(w) \/ SelectJob(w) \/ NoJob(w) \/ HandlerSucceeds(w)
             \/ HandlerFails(w) \/ PollTimeout(w) \/ QuitWhileWaiting(w)
             \/ ClaimError(w)
      PROVE  UNCHANGED Lifecycle!vars
  <2>1. UNCHANGED <<jobs, nextId>>
    BY <1>7 DEF LoopTop, SelectJob, NoJob, HandlerSucceeds, HandlerFails,
                PollTimeout, QuitWhileWaiting, ClaimError
  <2>2. \A v \in Workers : v # w => pc'[v] = pc[v] /\ claim'[v] = claim[v]
    BY <1>0, <1>7 DEF LoopTop, SelectJob, NoJob, HandlerSucceeds, HandlerFails,
                PollTimeout, QuitWhileWaiting, ClaimError
  <2>3. (Holding(w)' <=> Holding(w)) /\ (Holding(w) => claim' = claim)
    BY <1>0, <1>7 DEF Holding, LoopTop, SelectJob, NoJob, HandlerSucceeds,
                HandlerFails, PollTimeout, QuitWhileWaiting, ClaimError
  <2> QED
    BY <1>s, <2>1, <2>2, <2>3 DEF Holding
<1>8. ASSUME NEW p \in Procs, Boot(p) \/ StopBegin(p)
      PROVE  UNCHANGED Lifecycle!vars
  <2>1. UNCHANGED <<jobs, nextId, claim>>
    BY <1>8 DEF Boot, StopBegin
  <2>2. \A w \in Workers : Holding(w)' <=> Holding(w)
    BY <1>8 DEF Boot, StopBegin, Holding, TypeOK
  <2> QED
    BY <1>s, <2>1, <2>2
<1>9. CASE Tick \/ UNCHANGED vars
  <2>1. UNCHANGED <<jobs, nextId, claim, pc>>
    BY <1>9 DEF Tick, vars
  <2> QED
    BY <1>9, <1>s, <2>1 DEF Holding
<1> QED
  BY <1>1, <1>2, <1>3, <1>5, <1>6, <1>7, <1>8, <1>9
     DEF Next, WorkerStep, StopDone, StopTimeout, Crash

\* The driver keeps the promise of JobLifecycle: with serialised and timely
\* claims, its table, transactions, stale reservations and crashes are one
\* delivery at a time, retries within the limit and no way back.
THEOREM Refinement ==
    ASSUME IsolatedClaims, TimelyWorkers
    PROVE  Spec => ImplementsLifecycle
<1>1. Init => Lifecycle!Init
  BY DEF Init, Lifecycle!Init, PhaseOf, NoRow, JobIds
<1>2. /\ TypeOK /\ TypeOK' /\ ReservationInv /\ ReservationInv' /\ AccountingInv
      /\ [Next]_vars
      => [Lifecycle!Next]_(Lifecycle!vars)
  BY LifecycleStep
<1>3. QED
  BY <1>1, <1>2, TypeCorrect, Exclusion, Accounting, PTL
     DEF Spec, ImplementsLifecycle, Lifecycle!Spec
=============================================================================
