-------------------------- MODULE RedisQueueProofs --------------------------
(***************************************************************************)
(* Proofs about RedisQueue, for every set of processes, workers and jobs,  *)
(* every limit and any number of shutdowns and faults: its types, that a   *)
(* job is in one place as long as it lives, and that the driver keeps the  *)
(* promise of VolatileQueue.                                               *)
(***************************************************************************)
EXTENDS RedisQueue, SequenceTheorems, TLAPS

USE RedisAssumption

\* What is pushed is a message for the job that was dispatched.
LEMMA NewMessageType ==
    ASSUME NEW p \in Procs, NEW j \in Jobs
    PROVE  NewMessage(p, j) \in Message /\ NewMessage(p, j).job = j
BY DEF NewMessage, Message

\* Counting an attempt changes nothing else of a message.
LEMMA CountedType ==
    ASSUME NEW m \in Message
    PROVE  /\ [m EXCEPT !.attempts = @ + 1] \in Message
           /\ [m EXCEPT !.attempts = @ + 1].job = m.job
           /\ m.job \in Jobs
BY DEF Message

\* A copy differs from the message in the list by its job only.
LEMMA CopyType ==
    ASSUME TypeOK, NEW i \in DOMAIN list, NEW k \in Jobs
    PROVE  LET n == [list[i] EXCEPT !.job = k]
           IN  /\ n \in Message /\ n.job = k
               /\ n.attempts = list[i].attempts /\ n.max = list[i].max
               /\ list[i] \in Message /\ list[i].job \in Jobs
<1>1. list[i] \in Message
  BY DEF TypeOK
<1> QED
  BY <1>1 DEF Message

\* A worker without a message has no job.
LEMMA NoMsgNoJob == NoMsg.job \notin Jobs
BY DEF NoMsg

-----------------------------------------------------------------------------
(* The list.                                                                  *)

\* LPUSH.
LEMMA Push ==
    ASSUME list \in Seq(Message), NEW m \in Message, list' = <<m>> \o list
    PROVE  /\ list' \in Seq(Message)
           /\ \A i \in DOMAIN list' : list'[i] = m \/ \E k \in DOMAIN list : list'[i] = list[k]
           /\ \A j \in Jobs : Queued(j)' <=> j = m.job \/ Queued(j)
           /\ ~Queued(m.job) /\ (\A i, k \in DOMAIN list : list[i].job = list[k].job => i = k)
              => \A i, k \in DOMAIN list' : list'[i].job = list'[k].job => i = k
<1>1. list' \in Seq(Message) /\ Len(list') = Len(list) + 1
  OBVIOUS
<1>2. /\ 1 \in DOMAIN list' /\ list'[1] = m
      /\ \A i \in DOMAIN list : i + 1 \in DOMAIN list' /\ list'[i + 1] = list[i]
      /\ \A i \in DOMAIN list' : i \in Nat /\ (i # 1 => i - 1 \in DOMAIN list
                                                        /\ list'[i] = list[i - 1])
  BY <1>1
<1>3. \A j \in Jobs : Queued(j)' <=> j = m.job \/ Queued(j)
  <2>1. ASSUME NEW j \in Jobs, NEW i \in DOMAIN list, list[i].job = j
        PROVE  \E k \in DOMAIN list' : list'[k].job = j
    BY <1>2, <2>1
  <2>2. ASSUME NEW j \in Jobs, NEW i \in DOMAIN list', list'[i].job = j, j # m.job
        PROVE  \E k \in DOMAIN list : list[k].job = j
    BY <1>2, <2>2
  <2> QED
    BY <1>2, <2>1, <2>2 DEF Queued
<1>4. ASSUME ~Queued(m.job), \A i, k \in DOMAIN list : list[i].job = list[k].job => i = k,
             NEW i \in DOMAIN list', NEW k \in DOMAIN list', list'[i].job = list'[k].job
      PROVE  i = k
  <2>1. CASE i = 1 \/ k = 1
    BY <1>2, <1>4, <2>1 DEF Queued
  <2>2. CASE i # 1 /\ k # 1
    <3>1. i - 1 = k - 1
      BY <1>2, <1>4, <2>2
    <3> QED
      BY <1>2, <3>1
  <2> QED
    BY <2>1, <2>2
<1> QED
  BY <1>1, <1>2, <1>3, <1>4

\* BRPOP.
LEMMA TakeLast ==
    ASSUME list \in Seq(Message), list # <<>>, list' = Rest
    PROVE  /\ list' \in Seq(Message) /\ Last \in Message /\ Queued(Last.job)
           /\ \E i \in DOMAIN list : Last = list[i]
           /\ \A i \in DOMAIN list' : i \in DOMAIN list /\ list'[i] = list[i]
           /\ (\A i, k \in DOMAIN list : list[i].job = list[k].job => i = k)
              => /\ \A i, k \in DOMAIN list' : list'[i].job = list'[k].job => i = k
                 /\ \A j \in Jobs : Queued(j)' <=> Queued(j) /\ j # Last.job
<1>1. Len(list) \in DOMAIN list /\ Len(list) \in Nat /\ Len(list) > 0
  OBVIOUS
<1>2. list' \in Seq(Message) /\ Len(list') = Len(list) - 1
  <2>1. \A i \in 1 .. Len(list) - 1 : list[i] \in Message
    BY <1>1
  <2> DEFINE n == Len(list) - 1
  <2>2. 1 \in Int /\ n \in Int /\ \A i \in 1 .. n : list[i] \in Message
    BY <1>1, <2>1
  <2> HIDE DEF n
  <2>3. /\ SubSeq(list, 1, n) \in Seq(Message)
        /\ Len(SubSeq(list, 1, n)) = IF 1 <= n THEN n - 1 + 1 ELSE 0
    BY <2>2, SubSeqProperties
  <2>4. list' = SubSeq(list, 1, n)
    BY Zenon DEF Rest, n
  <2>9. n \in Nat
    BY <1>1 DEF n
  <2>5. (IF 1 <= n THEN n - 1 + 1 ELSE 0) = n
    BY <2>9
  <2>6. list' \in Seq(Message) /\ Len(list') = n
    BY <2>3, <2>4, <2>5, <2>9, Zenon
  <2> QED
    BY <2>6, Zenon DEF n
<1>3. \A i \in DOMAIN list' : /\ i \in DOMAIN list /\ i # Len(list)
                              /\ list'[i] = list[i]
  BY <1>1, <1>2 DEF Rest
<1>4. \A i \in DOMAIN list : i # Len(list) => i \in DOMAIN list'
  BY <1>1, <1>2
<1>5. Last \in Message /\ Queued(Last.job) /\ \E i \in DOMAIN list : Last = list[i]
  BY <1>1 DEF Last, Queued
<1>6. ASSUME \A i, k \in DOMAIN list : list[i].job = list[k].job => i = k
      PROVE  /\ \A i, k \in DOMAIN list' : list'[i].job = list'[k].job => i = k
             /\ \A j \in Jobs : Queued(j)' <=> Queued(j) /\ j # Last.job
  <2>1. \A i, k \in DOMAIN list' : list'[i].job = list'[k].job => i = k
    BY <1>3, <1>6
  <2>2. ASSUME NEW j \in Jobs, Queued(j)'
        PROVE  Queued(j) /\ j # Last.job
    <3>1. PICK i \in DOMAIN list' : list'[i].job = j
      BY <2>2 DEF Queued
    <3> QED
      BY <1>1, <1>3, <1>6, <3>1 DEF Queued, Last
  <2>3. ASSUME NEW j \in Jobs, Queued(j), j # Last.job
        PROVE  Queued(j)'
    <3>1. PICK i \in DOMAIN list : list[i].job = j
      BY <2>3 DEF Queued
    <3>2. i # Len(list)
      BY <2>3, <3>1 DEF Last
    <3> QED
      BY <1>3, <1>4, <3>1, <3>2 DEF Queued
  <2> QED
    BY <2>1, <2>2, <2>3
<1> QED
  BY <1>2, <1>3, <1>5, <1>6

-----------------------------------------------------------------------------
(* Types.                                                                     *)

\* Every step keeps the state well-formed.
LEMMA TypeStep == TypeOK /\ [Next]_vars => TypeOK'
<1> SUFFICES ASSUME TypeOK, [Next]_vars PROVE TypeOK'
  OBVIOUS
<1> USE DEF TypeOK
<1>1. ASSUME NEW p \in Procs, NEW j \in Jobs, Dispatch(p, j)
      PROVE  TypeOK'
  BY <1>1, NewMessageType, Push DEF Dispatch, Becomes, world
<1>2. ASSUME NEW p \in Procs, NEW j \in Jobs, DispatchDelayed(p, j)
      PROVE  TypeOK'
  BY <1>2, NewMessageType DEF DispatchDelayed, Becomes, world, Up
<1>3. ASSUME NEW p \in Procs, NEW m \in timers[p],
             TimerFires(p, m) \/ TimerCancelled(p, m) \/ TimerPushFails(p, m)
      PROVE  TypeOK'
  <2>0. m \in Message /\ m.job \in Jobs
    BY DEF Message
  <2>1. CASE TimerFires(p, m)
    BY <2>0, <2>1, Push DEF TimerFires, world, history
  <2>2. CASE TimerCancelled(p, m)
    BY <2>0, <2>2 DEF TimerCancelled, Becomes, world
  <2>3. CASE TimerPushFails(p, m)
    BY <2>0, <2>3 DEF TimerPushFails, Becomes, Fault
  <2> QED
    BY <1>3, <2>1, <2>2, <2>3
<1>4. ASSUME NEW w \in Workers, WorkerStep(w) \/ PopError(w)
      PROVE  TypeOK'
  <2>0. pc[w] # "off" => proc[ProcOf[w]] # "down"
    BY DEF WorkersOf
  <2>1. CASE LoopTop(w) \/ PopTimeout(w) \/ WaitOver(w)
    <3>1. PICK label \in {"off", "loop", "popping"} : GoTo(w, label)
      BY <2>1 DEF LoopTop, PopTimeout, WaitOver
    <3>2. pc[w] # "off" /\ pc[w] # "running" /\ UNCHANGED <<list, timers, msg, world, history>>
      BY <2>1 DEF LoopTop, PopTimeout, WaitOver
    <3> QED
      BY <2>0, <3>1, <3>2 DEF GoTo, world, history, WorkersOf
  <2>2. CASE Pop(w)
    <3>1. list' \in Seq(Message) /\ Last \in Message /\ Last.job \in Jobs
      BY <2>2, TakeLast DEF Pop, Message
    <3>2. /\ [Last EXCEPT !.attempts = @ + 1] \in Message
          /\ [Last EXCEPT !.attempts = @ + 1].job = Last.job
      BY <3>1, CountedType
    <3>3. executions' \in [Jobs -> 0..CountTo]
      BY <2>2, <3>1 DEF Pop
    <3>4. /\ msg' \in [Workers -> Message \union {NoMsg}]
          /\ pc' \in [Workers -> {"off", "loop", "popping", "waiting", "running"}]
          /\ \A v \in Workers : msg'[v].job \in Jobs <=> pc'[v] = "running"
      BY <2>2, <3>1, <3>2 DEF Pop, GoTo
    <3>5. \A p \in Procs : proc'[p] = "down" =>
              timers'[p] = {} /\ \A v \in WorkersOf(p) : pc'[v] = "off"
      BY <2>2, <2>0 DEF Pop, GoTo, world, WorkersOf
    <3> QED
      BY <2>2, <3>1, <3>3, <3>4, <3>5 DEF Pop, world, WorkersOf
  <2>3. CASE PopError(w)
    <3>1. list' \in Seq(Message) /\ fate' \in [Jobs -> {"new", "live", "done", "dead", "lost"}]
      <4>1. CASE UNCHANGED <<list, fate>>
        BY <4>1
      <4>2. CASE list # <<>> /\ list' = Rest /\ Becomes(Last.job, "lost")
        <5>1. list' \in Seq(Message)
          BY <4>2, TakeLast
        <5> QED
          BY <4>2, <5>1 DEF Becomes
      <4> QED
        BY <2>3, <4>1, <4>2 DEF PopError
    <3>2. TypeOK'
      <4>1. /\ pc' = [pc EXCEPT ![w] = "waiting"] \/ pc' = pc
            /\ pc[w] = "popping"
            /\ UNCHANGED <<timers, msg, proc, stops, executions>>
            /\ faults' \in 0..MaxFaults
        BY <2>3 DEF PopError, GoTo, Fault
      <4> QED
        BY <2>0, <3>1, <4>1 DEF WorkersOf
    <3> QED
      BY <3>2
  <2>4. CASE HandlerSucceeds(w) \/ HandlerExhausted(w) \/ HandlerRetried(w)
    <3>0. pc[w] = "running" /\ msg[w].job \in Jobs
      BY <2>4 DEF HandlerSucceeds, HandlerExhausted, HandlerRetried
    <3>1. /\ pc' = [pc EXCEPT ![w] = "loop"] /\ msg' = [msg EXCEPT ![w] = NoMsg]
          /\ UNCHANGED <<list, world, executions>>
      BY <2>4 DEF HandlerSucceeds, HandlerExhausted, HandlerRetried, GoTo, Drop, history
    <3>2. /\ fate' \in [Jobs -> {"new", "live", "done", "dead", "lost"}]
          /\ timers' \in [Procs -> SUBSET Message]
          /\ \A p \in Procs : p # ProcOf[w] => timers'[p] = timers[p]
      <4>1. ProcOf[w] \in Procs
        OBVIOUS
      <4>2. CASE HandlerSucceeds(w) \/ HandlerExhausted(w)
        BY <3>0, <4>2 DEF HandlerSucceeds, HandlerExhausted, Becomes
      <4>3. CASE HandlerRetried(w)
        BY <3>0, <4>1, <4>3, NewMessageType DEF HandlerRetried, history
      <4> QED
        BY <2>4, <4>2, <4>3
    <3> QED
      BY <2>0, <3>0, <3>1, <3>2, NoMsgNoJob DEF world, WorkersOf
  <2> QED
    BY <1>4, <2>1, <2>2, <2>3, <2>4 DEF WorkerStep
<1>5. ASSUME NEW p \in Procs, Boot(p)
      PROVE  TypeOK'
  BY <1>5 DEF Boot, history, WorkersOf
<1>6. ASSUME NEW p \in Procs, StopBegin(p)
      PROVE  TypeOK'
  BY <1>6 DEF StopBegin, history, WorkersOf
<1>7. ASSUME NEW p \in Procs, StopDone(p) \/ StopTimeout(p) \/ Crash(p)
      PROVE  TypeOK'
  <2>1. Exit(p) /\ faults' \in 0..MaxFaults
    BY <1>7 DEF StopDone, StopTimeout, Crash, Fault
  <2> QED
    BY <2>1, NoMsgNoJob DEF Exit, WorkersOf
<1>8. CASE UNCHANGED vars
  BY <1>8 DEF vars, world, history, WorkersOf
<1>9. ASSUME NEW i \in DOMAIN list, NEW k \in Jobs, PushedAgain(i, k)
      PROVE  TypeOK'
  <2>1. list' \in Seq(Message)
    BY <1>9, CopyType, Push DEF PushedAgain
  <2> QED
    BY <1>9, <2>1 DEF PushedAgain, Becomes, Fault, WorkersOf
<1> QED
  BY <1>1, <1>2, <1>3, <1>4, <1>5, <1>6, <1>7, <1>8, <1>9 DEF Next, TimerStep

\* The state of the Redis driver is well-formed: a worker has a message exactly
\* while its handler runs, and a process that is down has nothing.
THEOREM TypeCorrect == Spec => []TypeOK
<1>1. Init => TypeOK
  BY NoMsgNoJob DEF Init, TypeOK, WorkersOf
<1> QED
  BY <1>1, TypeStep, PTL DEF Spec

-----------------------------------------------------------------------------
(* One copy. Every job is looked at by itself: where its messages are before  *)
(* and after a step.                                                          *)

\* A live job has a message somewhere, and nothing else has.
LiveSomewhere(j) ==
    fate[j] = "live" <=> \/ Queued(j) \/ \E p \in Procs : Delayed(p, j)
                         \/ \E w \in Workers : Running(w, j)

\* OneCopy job by job, now and after a step.
LEMMA OneCopyParts ==
    /\ OneCopy <=> NeverTwice /\ \A j \in Jobs : InOnePlace(j) /\ LiveSomewhere(j)
    /\ OneCopy' <=> NeverTwice' /\ \A j \in Jobs : InOnePlace(j)' /\ LiveSomewhere(j)'
BY DEF OneCopy, LiveSomewhere

\* A job none of whose messages moved.
LEMMA Unmoved ==
    ASSUME NEW j \in Jobs, InOnePlace(j), LiveSomewhere(j),
           fate'[j] = "live" <=> fate[j] = "live", Queued(j)' <=> Queued(j),
           \A p \in Procs : Delayed(p, j)' <=> Delayed(p, j),
           \A w \in Workers : Running(w, j)' <=> Running(w, j)
    PROVE  InOnePlace(j)' /\ LiveSomewhere(j)'
BY DEF InOnePlace, LiveSomewhere

\* A job whose only message is now in the list, in a timer, or with a worker.
LEMMA OnlyQueued ==
    ASSUME NEW j \in Jobs, fate'[j] = "live", Queued(j)',
           \A p \in Procs : ~Delayed(p, j)', \A w \in Workers : ~Running(w, j)'
    PROVE  InOnePlace(j)' /\ LiveSomewhere(j)'
BY DEF InOnePlace, LiveSomewhere

\* A live job that a single process holds in a timer is in one place.
LEMMA OnlyDelayed ==
    ASSUME NEW j \in Jobs, fate'[j] = "live", ~Queued(j)',
           NEW p \in Procs, \A q \in Procs : Delayed(q, j)' <=> q = p,
           \A w \in Workers : ~Running(w, j)'
    PROVE  InOnePlace(j)' /\ LiveSomewhere(j)'
BY DEF InOnePlace, LiveSomewhere

\* A live job that a single worker executes is in one place.
LEMMA OnlyRunning ==
    ASSUME NEW j \in Jobs, fate'[j] = "live", ~Queued(j)',
           \A q \in Procs : ~Delayed(q, j)',
           NEW w \in Workers, \A v \in Workers : Running(v, j)' <=> v = w
    PROVE  InOnePlace(j)' /\ LiveSomewhere(j)'
BY DEF InOnePlace, LiveSomewhere

\* A job that has no message any more.
LEMMA NoWhere ==
    ASSUME NEW j \in Jobs, fate'[j] # "live", ~Queued(j)',
           \A q \in Procs : ~Delayed(q, j)', \A v \in Workers : ~Running(v, j)'
    PROVE  InOnePlace(j)' /\ LiveSomewhere(j)'
BY DEF InOnePlace, LiveSomewhere

\* The worker that popped a message runs its job, the others what they ran.
LEMMA PopRuns ==
    ASSUME TypeOK, NEW w \in Workers, Pop(w)
    PROVE  /\ list # <<>> /\ list' = Rest /\ Last.job \in Jobs /\ Queued(Last.job)
           /\ \A v \in Workers, k \in Jobs :
                 Running(v, k)' <=> Running(v, k) \/ (v = w /\ k = Last.job)
<1>1. list # <<>> /\ list' = Rest /\ pc[w] = "popping" /\ msg[w].job \notin Jobs
  BY DEF Pop, TypeOK
<1>2. Last \in Message /\ Last.job \in Jobs /\ Queued(Last.job)
  BY <1>1, TakeLast DEF TypeOK, Message
<1>3. msg' = [msg EXCEPT ![w] = [Last EXCEPT !.attempts = @ + 1]]
  BY DEF Pop
<1>4. \A v \in Workers : msg'[v].job = IF v = w THEN Last.job ELSE msg[v].job
  BY <1>2, <1>3, CountedType DEF TypeOK
<1> QED
  BY <1>1, <1>2, <1>4 DEF Running

\* The worker whose handler returned runs nothing, and nobody else ran its job.
LEMMA HandlerEnds ==
    ASSUME TypeOK, OneCopy, NEW w \in Workers,
           HandlerSucceeds(w) \/ HandlerRetried(w) \/ HandlerExhausted(w)
    PROVE  /\ msg[w].job \in Jobs /\ fate[msg[w].job] = "live"
           /\ Running(w, msg[w].job)
           /\ \A v \in Workers, k \in Jobs :
                 Running(v, k)' <=> Running(v, k) /\ k # msg[w].job
<1>1. /\ msg[w].job \in Jobs /\ Running(w, msg[w].job)
      /\ msg' = [msg EXCEPT ![w] = NoMsg]
  BY DEF HandlerSucceeds, HandlerRetried, HandlerExhausted, TypeOK, Running, Drop
<1>2. \A v \in Workers : Running(v, msg[w].job) <=> v = w
  BY <1>1, OneCopyParts DEF InOnePlace
<1>3. fate[msg[w].job] = "live"
  BY <1>1, OneCopyParts DEF LiveSomewhere
<1> QED
  BY <1>1, <1>2, <1>3, NoMsgNoJob DEF Running, TypeOK

\* What runs in other processes goes on.
LEMMA ExitRuns ==
    ASSUME TypeOK, NEW p \in Procs, Exit(p)
    PROVE  /\ \A w \in Workers, k \in Jobs :
                 Running(w, k)' <=> Running(w, k) /\ ProcOf[w] # p
           /\ \A k \in Jobs :
                 k \in Owned(p) <=> \/ Delayed(p, k)
                                    \/ \E w \in Workers : ProcOf[w] = p /\ Running(w, k)
<1>1. \A w \in Workers, k \in Jobs : Running(w, k)' <=> Running(w, k) /\ ProcOf[w] # p
  BY NoMsgNoJob DEF Exit, Running, TypeOK
<1>2. \A k \in Jobs : k \in Owned(p) <=> \/ Delayed(p, k)
                                         \/ \E w \in Workers : ProcOf[w] = p /\ Running(w, k)
  BY DEF Owned, WorkersOf, Delayed, Running, TypeOK
<1> QED
  BY <1>1, <1>2

\* The message of a job that is dispatched now is the only one.
LEMMA DispatchCopies ==
    ASSUME TypeOK, OneCopy, NEW p \in Procs, NEW j \in Jobs,
           Dispatch(p, j) \/ DispatchDelayed(p, j)
    PROVE  OneCopy'
<1> DEFINE m == NewMessage(p, j)
<1>1. m \in Message /\ m.job = j /\ fate[j] = "new"
  BY NewMessageType DEF Dispatch, DispatchDelayed
<1>2. /\ ~Queued(j) /\ \A q \in Procs : ~Delayed(q, j)
      /\ \A w \in Workers : ~Running(w, j)
  BY <1>1, OneCopyParts DEF LiveSomewhere
<1>3. \A k \in Jobs : fate'[k] = IF k = j THEN "live" ELSE fate[k]
  BY DEF Dispatch, DispatchDelayed, Becomes, TypeOK
<1>4. \A w \in Workers, k \in Jobs : Running(w, k)' <=> Running(w, k)
  BY DEF Dispatch, DispatchDelayed, Running
<1> HIDE DEF m
<1>5. CASE Dispatch(p, j)
  <2>1. list' = <<m>> \o list /\ UNCHANGED timers
    BY <1>5 DEF Dispatch, m
  <2>2. /\ \A k \in Jobs : Queued(k)' <=> k = j \/ Queued(k)
        /\ NeverTwice'
    <3>1. list \in Seq(Message) /\ NeverTwice
      BY OneCopyParts DEF TypeOK
    <3>2. /\ \A k \in Jobs : Queued(k)' <=> k = j \/ Queued(k)
          /\ \A i, k \in DOMAIN list' : list'[i].job = list'[k].job => i = k
      BY <1>1, <1>2, <2>1, <3>1, Push DEF NeverTwice
    <3> QED
      BY <2>1, <3>1, <3>2 DEF NeverTwice
  <2>3. \A q \in Procs, k \in Jobs : Delayed(q, k)' <=> Delayed(q, k)
    BY <2>1 DEF Delayed
  <2>4. ASSUME NEW k \in Jobs
        PROVE  InOnePlace(k)' /\ LiveSomewhere(k)'
    <3>1. CASE k = j
      BY <1>2, <1>3, <1>4, <2>2, <2>3, <3>1, OnlyQueued
    <3>2. CASE k # j
      BY <1>3, <1>4, <2>2, <2>3, <3>2, OneCopyParts, Unmoved
    <3> QED
      BY <3>1, <3>2
  <2> QED
    BY <2>2, <2>4, OneCopyParts
<1>6. CASE DispatchDelayed(p, j)
  <2>1. timers' = [timers EXCEPT ![p] = @ \union {m}] /\ UNCHANGED list
    BY <1>6 DEF DispatchDelayed, m
  <2>2. \A q \in Procs, k \in Jobs : Delayed(q, k)' <=> Delayed(q, k) \/ (q = p /\ k = j)
    BY <1>1, <2>1 DEF Delayed, TypeOK
  <2>3. \A k \in Jobs : Queued(k)' <=> Queued(k)
    BY <2>1 DEF Queued
  <2>4. NeverTwice'
    BY <1>1, <1>2, <2>1 DEF NeverTwice, OneCopy, Delayed, TypeOK
  <2>5. ASSUME NEW k \in Jobs
        PROVE  InOnePlace(k)' /\ LiveSomewhere(k)'
    <3>1. CASE k = j
      BY <1>2, <1>3, <1>4, <2>2, <2>3, <3>1, OnlyDelayed
    <3>2. CASE k # j
      BY <1>3, <1>4, <2>2, <2>3, <3>2, OneCopyParts, Unmoved
    <3> QED
      BY <3>1, <3>2
  <2> QED
    BY <2>4, <2>5, OneCopyParts
<1> QED
  BY <1>5, <1>6

\* The copy of a message has a job of its own.
LEMMA AgainCopies ==
    ASSUME TypeOK, OneCopy, NEW i \in DOMAIN list, NEW k \in Jobs, PushedAgain(i, k)
    PROVE  OneCopy'
<1> DEFINE n == [list[i] EXCEPT !.job = k]
<1>1. n \in Message /\ n.job = k
  BY CopyType
<1>2. list' = <<n>> \o list /\ UNCHANGED <<timers, msg>> /\ fate[k] = "new"
  BY DEF PushedAgain
<1> HIDE DEF n
<1>3. /\ ~Queued(k) /\ \A q \in Procs : ~Delayed(q, k)
      /\ \A w \in Workers : ~Running(w, k)
  BY <1>2, OneCopyParts DEF LiveSomewhere
<1>4. \A j \in Jobs : fate'[j] = IF j = k THEN "live" ELSE fate[j]
  BY DEF PushedAgain, Becomes, TypeOK
<1>5. /\ \A j \in Jobs : Queued(j)' <=> j = k \/ Queued(j)
      /\ NeverTwice'
  <2>1. list \in Seq(Message) /\ NeverTwice
    BY OneCopyParts DEF TypeOK
  <2>2. /\ \A j \in Jobs : Queued(j)' <=> j = k \/ Queued(j)
        /\ \A h, l \in DOMAIN list' : list'[h].job = list'[l].job => h = l
    BY <1>1, <1>2, <1>3, <2>1, Push DEF NeverTwice
  <2> QED
    BY <1>2, <2>1, <2>2 DEF NeverTwice
<1>6. /\ \A q \in Procs, j \in Jobs : Delayed(q, j)' <=> Delayed(q, j)
      /\ \A w \in Workers, j \in Jobs : Running(w, j)' <=> Running(w, j)
  BY <1>2 DEF Delayed, Running
<1>7. ASSUME NEW j \in Jobs
      PROVE  InOnePlace(j)' /\ LiveSomewhere(j)'
  <2>1. CASE j = k
    BY <1>3, <1>4, <1>5, <1>6, <2>1, OnlyQueued
  <2>2. CASE j # k
    BY <1>4, <1>5, <1>6, <2>2, OneCopyParts, Unmoved
  <2> QED
    BY <2>1, <2>2
<1> QED
  BY <1>5, <1>7, OneCopyParts

\* A goroutine pushes its message, or loses it.
LEMMA TimerCopies ==
    ASSUME TypeOK, OneCopy, NEW p \in Procs, NEW m \in timers[p],
           TimerFires(p, m) \/ TimerCancelled(p, m) \/ TimerPushFails(p, m)
    PROVE  OneCopy'
<1> DEFINE j == m.job
<1>1. m \in Message /\ j \in Jobs /\ Delayed(p, j)
  BY DEF TypeOK, Message, Delayed
<1>2. /\ ~Queued(j) /\ \A q \in Procs \ {p} : ~Delayed(q, j)
      /\ \A w \in Workers : ~Running(w, j) /\ fate[j] = "live"
  BY <1>1, OneCopyParts DEF InOnePlace, LiveSomewhere
<1>3. timers' = [timers EXCEPT ![p] = @ \ {m}] /\ UNCHANGED msg
  BY DEF TimerFires, TimerCancelled, TimerPushFails
<1>4. \A q \in Procs, k \in Jobs :
          Delayed(q, k)' <=> Delayed(q, k) /\ ~(q = p /\ k = j)
  BY <1>3, OneCopyParts DEF Delayed, TypeOK, NeverTwice
<1>5. \A w \in Workers, k \in Jobs : Running(w, k)' <=> Running(w, k)
  BY <1>3 DEF Running
<1>6. \A q \in Procs : \A n, o \in timers'[q] : n.job = o.job => n = o
  BY <1>3, OneCopyParts DEF NeverTwice, TypeOK
<1>9. fate[j] = "live"
  BY <1>1, OneCopyParts DEF LiveSomewhere
<1> HIDE DEF j
<1>7. CASE TimerFires(p, m)
  <2>1. list' = <<m>> \o list /\ UNCHANGED fate
    BY <1>7 DEF TimerFires, history
  <2>2. /\ \A k \in Jobs : Queued(k)' <=> k = j \/ Queued(k)
        /\ NeverTwice'
    BY <1>1, <1>2, <1>6, <2>1, Push DEF TypeOK, OneCopy, NeverTwice, j
  <2>3. ASSUME NEW k \in Jobs
        PROVE  InOnePlace(k)' /\ LiveSomewhere(k)'
    <3>1. CASE k = j
      BY <1>1, <1>2, <1>4, <1>5, <1>9, <2>1, <2>2, <3>1, OnlyQueued
    <3>2. CASE k # j
      BY <1>4, <1>5, <2>1, <2>2, <3>2, OneCopyParts, Unmoved
    <3> QED
      BY <3>1, <3>2
  <2> QED
    BY <2>2, <2>3, OneCopyParts
<1>8. CASE TimerCancelled(p, m) \/ TimerPushFails(p, m)
  <2>1. fate' = [fate EXCEPT ![j] = "lost"] /\ UNCHANGED list
    BY <1>8 DEF TimerCancelled, TimerPushFails, Becomes, j
  <2>2. \A k \in Jobs : Queued(k)' <=> Queued(k)
    BY <2>1 DEF Queued
  <2>3. \A k \in Jobs : fate'[k] = IF k = j THEN "lost" ELSE fate[k]
    BY <2>1 DEF TypeOK
  <2>4. NeverTwice'
    BY <1>6, <2>1, OneCopyParts DEF NeverTwice
  <2>5. ASSUME NEW k \in Jobs
        PROVE  InOnePlace(k)' /\ LiveSomewhere(k)'
    <3>1. CASE k = j
      BY <1>2, <1>4, <1>5, <2>2, <2>3, <3>1, NoWhere
    <3>2. CASE k # j
      BY <1>4, <1>5, <2>2, <2>3, <3>2, OneCopyParts, Unmoved
    <3> QED
      BY <3>1, <3>2
  <2> QED
    BY <2>4, <2>5, OneCopyParts
<1> QED
  BY <1>7, <1>8

\* The message goes from the list to a worker, or on the way to it is lost.
LEMMA PopCopies ==
    ASSUME TypeOK, OneCopy, NEW w \in Workers,
           Pop(w) \/ (PopError(w) /\ list' = Rest /\ list # <<>> /\ Becomes(Last.job, "lost"))
    PROVE  OneCopy'
<1> DEFINE j == Last.job
<1>1. list # <<>> /\ list' = Rest /\ UNCHANGED timers
  BY DEF Pop, PopError
<1>2. Last \in Message /\ j \in Jobs /\ Queued(j)
  BY <1>1, TakeLast DEF TypeOK, Message
<1>3. /\ \A q \in Procs : ~Delayed(q, j)
      /\ \A v \in Workers : ~Running(v, j)
  BY <1>2, OneCopyParts DEF InOnePlace
<1>4. fate[j] = "live"
  BY <1>2, OneCopyParts DEF LiveSomewhere
<1>5. /\ \A k \in Jobs : Queued(k)' <=> Queued(k) /\ k # j
      /\ NeverTwice'
  BY <1>1, OneCopyParts, TakeLast DEF TypeOK, NeverTwice
<1>6. \A q \in Procs, k \in Jobs : Delayed(q, k)' <=> Delayed(q, k)
  BY <1>1 DEF Delayed
<1> HIDE DEF j
<1>7. CASE Pop(w)
  <2>1. UNCHANGED fate
    BY <1>7 DEF Pop
  <2>2. \A v \in Workers, k \in Jobs : Running(v, k)' <=> Running(v, k) \/ (v = w /\ k = j)
    BY <1>7, PopRuns DEF j
  <2>3. ASSUME NEW k \in Jobs
        PROVE  InOnePlace(k)' /\ LiveSomewhere(k)'
    <3>1. CASE k = j
      BY <1>3, <1>4, <1>5, <1>6, <2>1, <2>2, <3>1, OnlyRunning
    <3>2. CASE k # j
      BY <1>5, <1>6, <2>1, <2>2, <3>2, OneCopyParts, Unmoved
    <3> QED
      BY <3>1, <3>2
  <2> QED
    BY <1>5, <2>3, OneCopyParts
<1>8. CASE PopError(w) /\ Becomes(Last.job, "lost")
  <2>1. \A v \in Workers, k \in Jobs : Running(v, k)' <=> Running(v, k)
    BY <1>8 DEF PopError, Running
  <2>2. \A k \in Jobs : fate'[k] = IF k = j THEN "lost" ELSE fate[k]
    BY <1>8 DEF Becomes, TypeOK, j
  <2>3. ASSUME NEW k \in Jobs
        PROVE  InOnePlace(k)' /\ LiveSomewhere(k)'
    <3>1. CASE k = j
      BY <1>3, <1>5, <1>6, <2>1, <2>2, <3>1, NoWhere
    <3>2. CASE k # j
      BY <1>5, <1>6, <2>1, <2>2, <3>2, OneCopyParts, Unmoved
    <3> QED
      BY <3>1, <3>2
  <2> QED
    BY <1>5, <2>3, OneCopyParts
<1> QED
  BY <1>7, <1>8

\* The handler returns: the message goes back to a goroutine, or the job is over.
LEMMA HandlerCopies ==
    ASSUME TypeOK, OneCopy, NEW w \in Workers,
           HandlerSucceeds(w) \/ HandlerRetried(w) \/ HandlerExhausted(w)
    PROVE  OneCopy'
<1> DEFINE j == msg[w].job
           p == ProcOf[w]
<1>1. /\ j \in Jobs /\ p \in Procs /\ Running(w, j) /\ UNCHANGED list
      /\ msg' = [msg EXCEPT ![w] = NoMsg]
  BY DEF HandlerSucceeds, HandlerRetried, HandlerExhausted, TypeOK, Running, Drop
<1>2. /\ ~Queued(j) /\ \A q \in Procs : ~Delayed(q, j)
      /\ \A v \in Workers : Running(v, j) <=> v = w
  BY <1>1, OneCopyParts DEF InOnePlace
<1>3. fate[j] = "live"
  BY HandlerEnds
<1>4. \A v \in Workers, k \in Jobs : Running(v, k)' <=> Running(v, k) /\ k # j
  BY HandlerEnds
<1>5. \A k \in Jobs : Queued(k)' <=> Queued(k)
  BY <1>1 DEF Queued
<1>6. CASE HandlerRetried(w)
  <2> DEFINE m == NewMessage(p, j)
  <2>1. m \in Message /\ m.job = j
    BY <1>1, NewMessageType
  <2> HIDE DEF m
  <2>2. timers' = [timers EXCEPT ![p] = @ \union {m}] /\ UNCHANGED fate
    BY <1>6 DEF HandlerRetried, history, m
  <2> HIDE DEF j, p
  <2>3. \A q \in Procs, k \in Jobs : Delayed(q, k)' <=> Delayed(q, k) \/ (q = p /\ k = j)
    BY <1>1, <2>1, <2>2 DEF Delayed, TypeOK
  <2>4. NeverTwice'
    BY <1>1, <1>2, <2>1, <2>2 DEF NeverTwice, OneCopy, Delayed, TypeOK
  <2>5. ASSUME NEW k \in Jobs
        PROVE  InOnePlace(k)' /\ LiveSomewhere(k)'
    <3>1. CASE k = j
      BY <1>1, <1>2, <1>3, <1>4, <1>5, <2>2, <2>3, <3>1, OnlyDelayed
    <3>2. CASE k # j
      BY <1>4, <1>5, <2>2, <2>3, <3>2, OneCopyParts, Unmoved
    <3> QED
      BY <3>1, <3>2
  <2> QED
    BY <2>4, <2>5, OneCopyParts
<1>7. CASE HandlerSucceeds(w) \/ HandlerExhausted(w)
  <2>1. /\ UNCHANGED timers
        /\ \A k \in Jobs : IF k = j THEN fate'[k] # "live" ELSE fate'[k] = fate[k]
    BY <1>1, <1>7 DEF HandlerSucceeds, HandlerExhausted, Becomes, TypeOK
  <2> HIDE DEF j
  <2>2. \A q \in Procs, k \in Jobs : Delayed(q, k)' <=> Delayed(q, k)
    BY <2>1 DEF Delayed
  <2>3. NeverTwice'
    BY <1>1, <2>1, OneCopyParts DEF NeverTwice
  <2>4. ASSUME NEW k \in Jobs
        PROVE  InOnePlace(k)' /\ LiveSomewhere(k)'
    <3>1. CASE k = j
      BY <1>2, <1>4, <1>5, <2>1, <2>2, <3>1, NoWhere
    <3>2. CASE k # j
      BY <1>4, <1>5, <2>1, <2>2, <3>2, OneCopyParts, Unmoved
    <3> QED
      BY <3>1, <3>2
  <2> QED
    BY <2>3, <2>4, OneCopyParts
<1> QED
  BY <1>6, <1>7

\* The end of a process takes its timers and messages along, and nothing else.
LEMMA ExitCopies ==
    ASSUME TypeOK, OneCopy, NEW p \in Procs, Exit(p)
    PROVE  OneCopy'
<1>1. \A q \in Procs, k \in Jobs : Delayed(q, k)' <=> Delayed(q, k) /\ q # p
  BY DEF Exit, Delayed, TypeOK
<1>2. \A w \in Workers, k \in Jobs : Running(w, k)' <=> Running(w, k) /\ ProcOf[w] # p
  BY ExitRuns
<1>3. \A k \in Jobs : Queued(k)' <=> Queued(k)
  BY DEF Exit, Queued
<1>4. NeverTwice'
  BY DEF OneCopy, NeverTwice, Exit, TypeOK
<1>5. \A k \in Jobs : k \in Owned(p) <=> \/ Delayed(p, k)
                                         \/ \E w \in Workers : ProcOf[w] = p /\ Running(w, k)
  BY ExitRuns
<1>6. \A k \in Jobs : fate'[k] = IF k \in Owned(p) THEN "lost" ELSE fate[k]
  BY DEF Exit
<1>7. ASSUME NEW k \in Jobs
      PROVE  InOnePlace(k)' /\ LiveSomewhere(k)'
  <2>0. InOnePlace(k) /\ LiveSomewhere(k)
    BY OneCopyParts
  <2>1. CASE k \notin Owned(p)
    <3>1. /\ \A q \in Procs : Delayed(q, k)' <=> Delayed(q, k)
          /\ \A w \in Workers : Running(w, k)' <=> Running(w, k)
      BY <1>1, <1>2, <1>5, <2>1
    <3> QED
      BY <1>3, <1>6, <2>0, <2>1, <3>1, Unmoved
  <2>2. CASE k \in Owned(p)
    <3>1. /\ ~Queued(k) /\ \A q \in Procs : ~Delayed(q, k)'
          /\ \A w \in Workers : ~Running(w, k)'
      BY <1>1, <1>2, <1>5, <2>0, <2>2 DEF InOnePlace
    <3> QED
      BY <1>3, <1>6, <2>2, <3>1, NoWhere
  <2> QED
    BY <2>1, <2>2
<1> QED
  BY <1>4, <1>7, OneCopyParts

\* What touches no message.
LEMMA QuietCopies ==
    ASSUME OneCopy, UNCHANGED <<list, timers, msg, fate>>
    PROVE  OneCopy'
BY DEF OneCopy, NeverTwice, InOnePlace, Queued, Delayed, Running

\* No step copies a live job or drops it without a stated cause.
LEMMA CopyStep == TypeOK /\ OneCopy /\ [Next]_vars => OneCopy'
<1> SUFFICES ASSUME TypeOK, OneCopy, [Next]_vars PROVE OneCopy'
  OBVIOUS
<1>1. ASSUME NEW p \in Procs, NEW j \in Jobs, Dispatch(p, j) \/ DispatchDelayed(p, j)
      PROVE  OneCopy'
  BY <1>1, DispatchCopies
<1>2. ASSUME NEW p \in Procs, NEW m \in timers[p],
             TimerFires(p, m) \/ TimerCancelled(p, m) \/ TimerPushFails(p, m)
      PROVE  OneCopy'
  BY <1>2, TimerCopies
<1>3. ASSUME NEW w \in Workers, WorkerStep(w) \/ PopError(w)
      PROVE  OneCopy'
  <2>1. CASE LoopTop(w) \/ PopTimeout(w) \/ WaitOver(w)
    BY <2>1, QuietCopies DEF LoopTop, PopTimeout, WaitOver, history
  <2>2. CASE Pop(w)
    BY <2>2, PopCopies
  <2>3. CASE PopError(w)
    <3>1. CASE UNCHANGED <<list, fate>>
      BY <2>3, <3>1, QuietCopies DEF PopError
    <3>2. CASE list # <<>> /\ list' = Rest /\ Becomes(Last.job, "lost")
      BY <2>3, <3>2, PopCopies
    <3> QED
      BY <2>3, <3>1, <3>2 DEF PopError
  <2>4. CASE HandlerSucceeds(w) \/ HandlerRetried(w) \/ HandlerExhausted(w)
    BY <2>4, HandlerCopies
  <2> QED
    BY <1>3, <2>1, <2>2, <2>3, <2>4 DEF WorkerStep
<1>4. ASSUME NEW p \in Procs, Boot(p) \/ StopBegin(p)
      PROVE  OneCopy'
  BY <1>4, QuietCopies DEF Boot, StopBegin, history
<1>5. ASSUME NEW p \in Procs, StopDone(p) \/ StopTimeout(p) \/ Crash(p)
      PROVE  OneCopy'
  BY <1>5, ExitCopies DEF StopDone, StopTimeout, Crash
<1>6. CASE UNCHANGED vars
  BY <1>6, QuietCopies DEF vars, history
<1>7. ASSUME NEW i \in DOMAIN list, NEW k \in Jobs, PushedAgain(i, k)
      PROVE  OneCopy'
  BY <1>7, AgainCopies
<1> QED
  BY <1>1, <1>2, <1>3, <1>4, <1>5, <1>6, <1>7 DEF Next, TimerStep

\* A job that was accepted and is not over has one message, in the list, in one
\* timer or with one worker; a job that is over has none.
THEOREM SingleCopy == Spec => []OneCopy
<1>1. Init => OneCopy
  <2> SUFFICES ASSUME Init PROVE OneCopy
    OBVIOUS
  <2>1. /\ DOMAIN list = {} /\ \A p \in Procs : timers[p] = {}
        /\ \A w \in Workers : msg[w] = NoMsg
    BY DEF Init
  <2>2. \A j \in Jobs : /\ ~Queued(j) /\ fate[j] # "live"
                        /\ \A p \in Procs : ~Delayed(p, j)
                        /\ \A w \in Workers : ~Running(w, j)
    BY <2>1, NoMsgNoJob DEF Queued, Delayed, Running, Init
  <2>3. NeverTwice
    BY <2>1 DEF NeverTwice
  <2> QED
    BY <2>2, <2>3 DEF OneCopy, InOnePlace
<1> QED
  BY <1>1, CopyStep, TypeCorrect, PTL DEF Spec

-----------------------------------------------------------------------------
(* The invariant: the attempts of a message, and what stops a process.        *)

\* A new message counts no attempt and has the limit of its process.
LEMMA NewMessageCounts ==
    ASSUME NEW p \in Procs, NEW j \in Jobs
    PROVE  Counts(NewMessage(p, j), 0)
BY DEF NewMessage, Counts

\* What touches neither list nor timers, and starts no handler.
LEMMA QuietCounts ==
    ASSUME AttemptsForgotten, UNCHANGED <<list, timers>>,
           \A w \in Workers : pc'[w] = "running" => pc[w] = "running" /\ msg'[w] = msg[w]
    PROVE  AttemptsForgotten'
BY DEF AttemptsForgotten

\* No step lets a message remember an earlier execution.
LEMMA ForgottenStep == TypeOK /\ AttemptsForgotten /\ [Next]_vars => AttemptsForgotten'
<1> SUFFICES ASSUME TypeOK, AttemptsForgotten, [Next]_vars PROVE AttemptsForgotten'
  OBVIOUS
<1>1. ASSUME NEW p \in Procs, NEW j \in Jobs, Dispatch(p, j)
      PROVE  AttemptsForgotten'
  <2>1. /\ list' = <<NewMessage(p, j)>> \o list /\ UNCHANGED <<timers, pc, msg>>
        /\ NewMessage(p, j) \in Message
    BY <1>1, NewMessageType DEF Dispatch
  <2>2. \A i \in DOMAIN list' : \/ list'[i] = NewMessage(p, j)
                                \/ \E k \in DOMAIN list : list'[i] = list[k]
    BY <2>1, Push DEF TypeOK
  <2> QED
    BY <2>1, <2>2, NewMessageCounts DEF AttemptsForgotten
<1>2. ASSUME NEW p \in Procs, NEW j \in Jobs, DispatchDelayed(p, j)
      PROVE  AttemptsForgotten'
  <2>1. /\ timers' = [timers EXCEPT ![p] = @ \union {NewMessage(p, j)}]
        /\ UNCHANGED <<list, pc, msg>>
    BY <1>2 DEF DispatchDelayed
  <2> QED
    BY <2>1, NewMessageCounts DEF AttemptsForgotten, TypeOK
<1>3. ASSUME NEW p \in Procs, NEW m \in timers[p],
             TimerFires(p, m) \/ TimerCancelled(p, m) \/ TimerPushFails(p, m)
      PROVE  AttemptsForgotten'
  <2>1. timers' = [timers EXCEPT ![p] = @ \ {m}] /\ UNCHANGED <<pc, msg>>
    BY <1>3 DEF TimerFires, TimerCancelled, TimerPushFails
  <2>2. m \in Message /\ Counts(m, 0)
    BY DEF TypeOK, AttemptsForgotten
  <2>3. list' = list \/ list' = <<m>> \o list
    BY <1>3 DEF TimerFires, TimerCancelled, TimerPushFails
  <2>4. \A i \in DOMAIN list' : list'[i] = m \/ \E k \in DOMAIN list : list'[i] = list[k]
    BY <2>2, <2>3, Push DEF TypeOK
  <2>5. \A i \in DOMAIN list' : Counts(list'[i], 0)
    BY <2>2, <2>4 DEF AttemptsForgotten
  <2>6. \A q \in Procs : \A n \in timers'[q] : Counts(n, 0)
    BY <2>1 DEF AttemptsForgotten, TypeOK
  <2> QED
    BY <2>1, <2>5, <2>6 DEF AttemptsForgotten
<1>4. ASSUME NEW w \in Workers, WorkerStep(w) \/ PopError(w)
      PROVE  AttemptsForgotten'
  <2>1. CASE LoopTop(w) \/ PopTimeout(w) \/ WaitOver(w)
    BY <2>1, QuietCounts DEF LoopTop, PopTimeout, WaitOver, GoTo, TypeOK
  <2>2. CASE Pop(w)
    <3>1. /\ list # <<>> /\ list' = Rest /\ UNCHANGED timers
          /\ pc' = [pc EXCEPT ![w] = "running"]
          /\ msg' = [msg EXCEPT ![w] = [Last EXCEPT !.attempts = @ + 1]]
      BY <2>2 DEF Pop, GoTo
    <3>2. /\ Last \in Message /\ \E i \in DOMAIN list : Last = list[i]
          /\ \A i \in DOMAIN list' : i \in DOMAIN list /\ list'[i] = list[i]
      BY <3>1, TakeLast DEF TypeOK
    <3>3. Counts(Last, 0)
      BY <3>2 DEF AttemptsForgotten
    <3>4. Counts([Last EXCEPT !.attempts = @ + 1], 1)
      BY <3>2, <3>3 DEF Counts, Message
    <3> QED
      BY <3>1, <3>2, <3>4 DEF AttemptsForgotten, TypeOK
  <2>3. CASE PopError(w)
    <3>1. \A i \in DOMAIN list' : i \in DOMAIN list /\ list'[i] = list[i]
      BY <2>3, TakeLast DEF PopError, TypeOK
    <3> QED
      BY <2>3, <3>1 DEF PopError, GoTo, AttemptsForgotten, TypeOK
  <2>4. CASE HandlerSucceeds(w) \/ HandlerExhausted(w)
    BY <2>4, QuietCounts DEF HandlerSucceeds, HandlerExhausted, GoTo, Drop, TypeOK
  <2>5. CASE HandlerRetried(w)
    <3>1. ProcOf[w] \in Procs /\ msg[w].job \in Jobs
      BY <2>5 DEF HandlerRetried, TypeOK
    <3>2. Counts(NewMessage(ProcOf[w], msg[w].job), 0)
      BY <3>1, NewMessageCounts
    <3> QED
      BY <2>5, <3>1, <3>2 DEF HandlerRetried, GoTo, Drop, AttemptsForgotten, TypeOK
  <2> QED
    BY <1>4, <2>1, <2>2, <2>3, <2>4, <2>5 DEF WorkerStep
<1>5. ASSUME NEW p \in Procs, Boot(p) \/ StopBegin(p)
      PROVE  AttemptsForgotten'
  BY <1>5, QuietCounts DEF Boot, StopBegin
<1>6. ASSUME NEW p \in Procs, StopDone(p) \/ StopTimeout(p) \/ Crash(p)
      PROVE  AttemptsForgotten'
  <2>1. Exit(p)
    BY <1>6 DEF StopDone, StopTimeout, Crash
  <2>2. /\ list' = list /\ timers' = [timers EXCEPT ![p] = {}]
        /\ \A w \in Workers : pc'[w] = "running" => pc[w] = "running" /\ msg'[w] = msg[w]
    BY <2>1 DEF Exit
  <2> QED
    BY <2>2 DEF AttemptsForgotten, TypeOK
<1>7. CASE UNCHANGED vars
  BY <1>7, QuietCounts DEF vars
<1>8. ASSUME NEW i \in DOMAIN list, NEW k \in Jobs, PushedAgain(i, k)
      PROVE  AttemptsForgotten'
  <2> DEFINE n == [list[i] EXCEPT !.job = k]
  <2>1. n \in Message /\ n.attempts = list[i].attempts /\ n.max = list[i].max
    BY CopyType
  <2>2. list' = <<n>> \o list /\ UNCHANGED <<timers, pc, msg>>
    BY <1>8 DEF PushedAgain
  <2>3. Counts(n, 0)
    BY <2>1 DEF AttemptsForgotten, Counts
  <2> HIDE DEF n
  <2>4. \A h \in DOMAIN list' : list'[h] = n \/ \E l \in DOMAIN list : list'[h] = list[l]
    BY <2>1, <2>2, Push DEF TypeOK
  <2> QED
    BY <2>2, <2>3, <2>4 DEF AttemptsForgotten
<1> QED
  BY <1>1, <1>2, <1>3, <1>4, <1>5, <1>6, <1>7, <1>8 DEF Next, TimerStep

\* A process begins to stop in StopBegin only, which counts it.
LEMMA ToldStep == TypeOK /\ StopsAreTold /\ [Next]_vars => StopsAreTold'
<1> SUFFICES ASSUME TypeOK, StopsAreTold, [Next]_vars PROVE StopsAreTold'
  OBVIOUS
<1>1. ASSUME NEW p \in Procs, StopBegin(p) PROVE StopsAreTold'
  BY <1>1 DEF StopBegin, StopsAreTold, TypeOK
<1>2. ASSUME NEW p \in Procs, Boot(p) \/ StopDone(p) \/ StopTimeout(p) \/ Crash(p)
      PROVE  StopsAreTold'
  BY <1>2 DEF Boot, StopDone, StopTimeout, Crash, Exit, StopsAreTold, TypeOK
<1>3. CASE UNCHANGED <<proc, stops>>
  BY <1>3 DEF StopsAreTold
<1> QED
  BY <1>1, <1>2, <1>3
  DEF Next, Dispatch, DispatchDelayed, WorkerStep, LoopTop, Pop, PopTimeout, PopError, WaitOver,
      HandlerSucceeds, HandlerRetried, HandlerExhausted, TimerStep, TimerFires, TimerCancelled,
      TimerPushFails, PushedAgain, vars, world

\* What the Redis driver relies on: one copy of a live job, no memory of
\* earlier attempts, and no process that stops unasked.
THEOREM QueueInvariant == Spec => []QueueInv
<1>1. Init => AttemptsForgotten /\ StopsAreTold
  <2> SUFFICES ASSUME Init PROVE AttemptsForgotten /\ StopsAreTold
    OBVIOUS
  <2>1. DOMAIN list = {}
    BY DEF Init
  <2> QED
    BY <2>1 DEF Init, AttemptsForgotten, StopsAreTold
<1>2. Spec => []AttemptsForgotten
  BY <1>1, ForgottenStep, TypeCorrect, PTL DEF Spec
<1>3. Spec => []StopsAreTold
  BY <1>1, ToldStep, TypeCorrect, PTL DEF Spec
<1>4. QueueInv <=> TypeOK /\ OneCopy /\ AttemptsForgotten /\ StopsAreTold
  BY DEF QueueInv
<1> QED
  BY <1>2, <1>3, <1>4, TypeCorrect, SingleCopy, PTL

-----------------------------------------------------------------------------
(* The promise of VolatileQueue.                                              *)

\* One job moves, the others stay where they are.
LEMMA OneMoves ==
    ASSUME NEW j \in Jobs, NEW from, NEW to, Phase(j) = from, Phase(j)' = to,
           \A k \in Jobs \ {j} : Phase(k)' = Phase(k), UNCHANGED <<stops, faults>>
    PROVE  Volatile!Move(j, from, to)
<1>1. [k \in Jobs |-> Phase(k)]' = [[k \in Jobs |-> Phase(k)] EXCEPT ![j] = to]
  OBVIOUS
<1> QED
  BY <1>1 DEF Volatile!Move

\* No job moves, and nothing is disturbed.
LEMMA NoneMoves ==
    ASSUME \A k \in Jobs : Phase(k)' = Phase(k), UNCHANGED <<stops, faults>>
    PROVE  UNCHANGED Volatile!vars
<1>1. [k \in Jobs |-> Phase(k)]' = [k \in Jobs |-> Phase(k)]
  OBVIOUS
<1> QED
  BY <1>1 DEF Volatile!vars

\* A disturbance, with the jobs it takes along.
LEMMA SomeAreLost ==
    ASSUME NEW S \in SUBSET Jobs, \A j \in S : fate[j] = "live",
           \A j \in Jobs : fate'[j] = IF j \in S THEN "lost" ELSE fate[j],
           \A w \in Workers, j \in Jobs \ S : Running(w, j)' <=> Running(w, j),
           stops' + faults' > 0
    PROVE  Volatile!Lose
<1>1. \A j \in S : Phase(j) \in {"waiting", "running"}
  BY DEF Phase
<1>2. \A j \in Jobs : Phase(j)' = IF j \in S THEN "lost" ELSE Phase(j)
  BY DEF Phase
<1>3. S \in SUBSET {j \in Jobs : [k \in Jobs |-> Phase(k)][j] \in {"waiting", "running"}}
  BY <1>1
<1>4. [j \in Jobs |-> Phase(j)]'
          = [j \in Jobs |-> IF j \in S THEN "lost" ELSE [k \in Jobs |-> Phase(k)][j]]
  BY <1>2
<1> QED
  BY <1>3, <1>4 DEF Volatile!Lose

\* A job is accepted.
LEMMA DispatchSubmits ==
    ASSUME QueueInv, NEW p \in Procs, NEW j \in Jobs,
           Dispatch(p, j) \/ DispatchDelayed(p, j)
    PROVE  Volatile!Submit(j)
<1>1. /\ fate[j] = "new" /\ UNCHANGED <<msg, stops, faults>>
      /\ \A k \in Jobs : fate'[k] = IF k = j THEN "live" ELSE fate[k]
  BY DEF Dispatch, DispatchDelayed, Becomes, QueueInv, TypeOK, world
<1>2. \A w \in Workers, k \in Jobs : Running(w, k)' <=> Running(w, k)
  BY <1>1 DEF Running
<1>3. \A w \in Workers : ~Running(w, j)
  BY <1>1, OneCopyParts DEF QueueInv, LiveSomewhere
<1>4. Phase(j) = "new" /\ Phase(j)' = "waiting"
  BY <1>1, <1>2, <1>3 DEF Phase
<1>5. \A k \in Jobs \ {j} : Phase(k)' = Phase(k)
  BY <1>1, <1>2 DEF Phase
<1> QED
  BY <1>1, <1>4, <1>5, OneMoves DEF Volatile!Submit

\* A waiting job is repeated as a new one.
LEMMA AgainRepeats ==
    ASSUME QueueInv, NEW i \in DOMAIN list, NEW k \in Jobs, PushedAgain(i, k)
    PROVE  Volatile!Next
<1> DEFINE j == list[i].job
<1>1. j \in Jobs /\ Queued(j)
  BY CopyType DEF QueueInv, Queued
<1>2. /\ fate[k] = "new" /\ UNCHANGED <<msg, stops>> /\ stops' + faults' > 0
      /\ \A h \in Jobs : fate'[h] = IF h = k THEN "live" ELSE fate[h]
  BY DEF PushedAgain, Fault, Becomes, QueueInv, TypeOK
<1> HIDE DEF j
<1>3. \A w \in Workers, h \in Jobs : Running(w, h)' <=> Running(w, h)
  BY <1>2 DEF Running
<1>4. fate[j] = "live" /\ \A w \in Workers : ~Running(w, j) /\ ~Running(w, k)
  BY <1>1, <1>2, OneCopyParts DEF QueueInv, InOnePlace, LiveSomewhere
<1>5. Phase(j) = "waiting" /\ Phase(k) = "new"
  BY <1>2, <1>4 DEF Phase
<1>6. \A h \in Jobs : Phase(h)' = IF h = k THEN "waiting" ELSE Phase(h)
  BY <1>2, <1>3, <1>4 DEF Phase
<1>7. [h \in Jobs |-> Phase(h)]' = [[h \in Jobs |-> Phase(h)] EXCEPT ![k] = "waiting"]
  BY <1>6
<1>8. Volatile!Repeat(j, k)
  BY <1>1, <1>2, <1>5, <1>7 DEF Volatile!Repeat
<1> QED
  BY <1>1, <1>8 DEF Volatile!Next

\* A worker begins with a job.
LEMMA PopBegins ==
    ASSUME QueueInv, NEW w \in Workers, Pop(w)
    PROVE  Volatile!Next
<1>1. PICK j \in Jobs :
          /\ Queued(j)
          /\ \A v \in Workers, k \in Jobs : Running(v, k)' <=> Running(v, k) \/ (v = w /\ k = j)
  BY PopRuns DEF QueueInv
<1>2. fate[j] = "live" /\ \A v \in Workers : ~Running(v, j)
  BY <1>1, OneCopyParts DEF QueueInv, InOnePlace, LiveSomewhere
<1>3. UNCHANGED <<fate, stops, faults>>
  BY DEF Pop, world
<1>4. Phase(j) = "waiting" /\ Phase(j)' = "running"
  BY <1>1, <1>2, <1>3 DEF Phase
<1>5. \A k \in Jobs \ {j} : Phase(k)' = Phase(k)
  BY <1>1, <1>3 DEF Phase
<1> QED
  BY <1>1, <1>3, <1>4, <1>5, OneMoves DEF Volatile!Next, Volatile!Begin

\* A handler that fails for the last time had one attempt in all.
LEMMA ExhaustedAtOnce ==
    ASSUME QueueInv, NEW w \in Workers, HandlerExhausted(w)
    PROVE  \E p \in Procs : MaxAttempts[p] = 1
<1>1. Counts(msg[w], 1) /\ msg[w].attempts >= msg[w].max
  BY DEF HandlerExhausted, QueueInv, AttemptsForgotten
<1>2. PICK p \in Procs : msg[w].max = MaxAttempts[p]
  BY <1>1 DEF Counts
<1>3. MaxAttempts[p] \in Nat \ {0} /\ 1 >= MaxAttempts[p]
  BY <1>1, <1>2 DEF Counts
<1> QED
  BY <1>3

\* The handler returns: an outcome, or another try.
LEMMA HandlerDecides ==
    ASSUME QueueInv, NEW w \in Workers,
           HandlerSucceeds(w) \/ HandlerRetried(w) \/ HandlerExhausted(w)
    PROVE  Volatile!Next
<1>1. PICK j \in Jobs :
          /\ j = msg[w].job /\ fate[j] = "live" /\ Running(w, j)
          /\ \A v \in Workers, k \in Jobs : Running(v, k)' <=> Running(v, k) /\ k # j
  BY HandlerEnds DEF QueueInv
<1>2. UNCHANGED <<stops, faults>>
  BY DEF HandlerSucceeds, HandlerRetried, HandlerExhausted, world
<1>3. fate \in [Jobs -> {"new", "live", "done", "dead", "lost"}]
  BY DEF QueueInv, TypeOK
<1>4. Phase(j) = "running"
  BY <1>1 DEF Phase
<1>5. CASE HandlerSucceeds(w)
  <2>1. \A k \in Jobs : fate'[k] = IF k = j THEN "done" ELSE fate[k]
    BY <1>1, <1>3, <1>5 DEF HandlerSucceeds, Becomes
  <2>2. Phase(j)' = "done" /\ \A k \in Jobs \ {j} : Phase(k)' = Phase(k)
    BY <1>1, <2>1 DEF Phase
  <2> QED
    BY <1>1, <1>2, <1>4, <2>2, OneMoves DEF Volatile!Next, Volatile!Complete
<1>6. CASE HandlerRetried(w)
  <2>1. UNCHANGED fate
    BY <1>6 DEF HandlerRetried, history
  <2>2. Phase(j)' = "waiting" /\ \A k \in Jobs \ {j} : Phase(k)' = Phase(k)
    BY <1>1, <2>1 DEF Phase
  <2> QED
    BY <1>1, <1>2, <1>4, <2>2, OneMoves DEF Volatile!Next, Volatile!Retry
<1>7. CASE HandlerExhausted(w)
  <2>1. \A k \in Jobs : fate'[k] = IF k = j THEN "dead" ELSE fate[k]
    BY <1>1, <1>3, <1>7 DEF HandlerExhausted, Becomes
  <2>2. Phase(j)' = "dead" /\ \A k \in Jobs \ {j} : Phase(k)' = Phase(k)
    BY <1>1, <2>1 DEF Phase
  <2>3. \E p \in Procs : MaxAttempts[p] = 1
    BY <1>7, ExhaustedAtOnce
  <2> QED
    BY <1>1, <1>2, <1>4, <2>2, <2>3, OneMoves DEF Volatile!Next, Volatile!GiveUp
<1> QED
  BY <1>5, <1>6, <1>7

\* A delayed message is pushed, which its users do not see, or is lost.
LEMMA TimerLoses ==
    ASSUME QueueInv, NEW p \in Procs, NEW m \in timers[p],
           TimerFires(p, m) \/ TimerCancelled(p, m) \/ TimerPushFails(p, m)
    PROVE  Volatile!Next \/ UNCHANGED Volatile!vars
<1>1. \A w \in Workers, k \in Jobs : Running(w, k)' <=> Running(w, k)
  BY DEF TimerFires, TimerCancelled, TimerPushFails, Running
<1>2. CASE TimerFires(p, m)
  <2>1. UNCHANGED <<fate, stops, faults>>
    BY <1>2 DEF TimerFires, world, history
  <2>2. \A k \in Jobs : Phase(k)' = Phase(k)
    BY <1>1, <2>1 DEF Phase
  <2> QED
    BY <2>1, <2>2, NoneMoves
<1>3. CASE TimerCancelled(p, m) \/ TimerPushFails(p, m)
  <2>1. m.job \in Jobs /\ Delayed(p, m.job)
    BY DEF QueueInv, TypeOK, Message, Delayed
  <2>2. fate[m.job] = "live"
    BY <2>1, OneCopyParts DEF QueueInv, LiveSomewhere
  <2>3. \A k \in Jobs : fate'[k] = IF k \in {m.job} THEN "lost" ELSE fate[k]
    BY <1>3 DEF TimerCancelled, TimerPushFails, Becomes, QueueInv, TypeOK
  <2>4. stops' + faults' > 0
    BY <1>3 DEF TimerCancelled, TimerPushFails, Fault, QueueInv, StopsAreTold, TypeOK, world
  <2>5. Volatile!Lose
    BY <1>1, <2>1, <2>2, <2>3, <2>4, SomeAreLost
  <2> QED
    BY <2>5 DEF Volatile!Next
<1> QED
  BY <1>2, <1>3

\* A failed BRPOP may have removed a message.
LEMMA PopErrorLoses ==
    ASSUME QueueInv, NEW w \in Workers, PopError(w)
    PROVE  Volatile!Next
<1>1. stops' + faults' > 0
  BY DEF PopError, Fault, QueueInv, TypeOK
<1>2. \A v \in Workers, k \in Jobs : Running(v, k)' <=> Running(v, k)
  BY DEF PopError, Running
<1>3. CASE UNCHANGED fate
  <2> DEFINE S == {}
  <2>1. S \in SUBSET Jobs /\ \A j \in S : fate[j] = "live"
    OBVIOUS
  <2>2. \A j \in Jobs : fate'[j] = IF j \in S THEN "lost" ELSE fate[j]
    BY <1>3
  <2> HIDE DEF S
  <2>3. Volatile!Lose
    BY <1>1, <1>2, <2>1, <2>2, SomeAreLost
  <2> QED
    BY <2>3 DEF Volatile!Next
<1>4. CASE list # <<>> /\ list' = Rest /\ Becomes(Last.job, "lost")
  <2>1. Last.job \in Jobs /\ Queued(Last.job)
    BY <1>4, TakeLast DEF QueueInv, TypeOK, Message
  <2>2. fate[Last.job] = "live"
    BY <2>1, OneCopyParts DEF QueueInv, LiveSomewhere
  <2>3. \A k \in Jobs : fate'[k] = IF k \in {Last.job} THEN "lost" ELSE fate[k]
    BY <1>4 DEF Becomes, QueueInv, TypeOK
  <2>4. Volatile!Lose
    BY <1>1, <1>2, <2>1, <2>2, <2>3, SomeAreLost
  <2> QED
    BY <2>4 DEF Volatile!Next
<1> QED
  BY <1>3, <1>4 DEF PopError

\* The end of a process loses the jobs that only it knew.
LEMMA ExitLoses ==
    ASSUME QueueInv, NEW p \in Procs, Exit(p), stops' + faults' > 0
    PROVE  Volatile!Next
<1>1. /\ \A w \in Workers, k \in Jobs : Running(w, k)' <=> Running(w, k) /\ ProcOf[w] # p
      /\ \A k \in Jobs : k \in Owned(p) <=> \/ Delayed(p, k)
                                            \/ \E w \in Workers : ProcOf[w] = p /\ Running(w, k)
  BY ExitRuns DEF QueueInv
<1>2. Owned(p) \in SUBSET Jobs
  BY DEF Owned, WorkersOf, QueueInv, TypeOK, Message
<1>3. \A k \in Owned(p) : fate[k] = "live"
  BY <1>1, <1>2, OneCopyParts DEF QueueInv, LiveSomewhere
<1>4. \A w \in Workers, k \in Jobs \ Owned(p) : Running(w, k)' <=> Running(w, k)
  BY <1>1
<1>5. \A k \in Jobs : fate'[k] = IF k \in Owned(p) THEN "lost" ELSE fate[k]
  BY DEF Exit
<1>6. Volatile!Lose
  BY <1>2, <1>3, <1>4, <1>5, SomeAreLost
<1> QED
  BY <1>6 DEF Volatile!Next

\* Every step of the driver is one of the queue it promises to be, or is not
\* seen by its users.
LEMMA VolatileStep == QueueInv /\ [Next]_vars => [Volatile!Next]_(Volatile!vars)
<1> SUFFICES ASSUME QueueInv, [Next]_vars
             PROVE  Volatile!Next \/ UNCHANGED Volatile!vars
  OBVIOUS
<1>1. ASSUME NEW p \in Procs, NEW j \in Jobs, Dispatch(p, j) \/ DispatchDelayed(p, j)
      PROVE  Volatile!Next
  BY <1>1, DispatchSubmits DEF Volatile!Next
<1>2. ASSUME NEW p \in Procs, NEW m \in timers[p],
             TimerFires(p, m) \/ TimerCancelled(p, m) \/ TimerPushFails(p, m)
      PROVE  Volatile!Next \/ UNCHANGED Volatile!vars
  BY <1>2, TimerLoses
<1>3. ASSUME UNCHANGED <<msg, fate, stops, faults>>
      PROVE  UNCHANGED Volatile!vars
  <2>1. \A k \in Jobs : Phase(k)' = Phase(k)
    BY <1>3 DEF Phase, Running
  <2> QED
    BY <1>3, <2>1, NoneMoves
<1>4. ASSUME NEW w \in Workers, WorkerStep(w) \/ PopError(w)
      PROVE  Volatile!Next \/ UNCHANGED Volatile!vars
  <2>1. CASE LoopTop(w) \/ PopTimeout(w) \/ WaitOver(w)
    BY <1>3, <2>1 DEF LoopTop, PopTimeout, WaitOver, world, history
  <2>2. CASE Pop(w)
    BY <2>2, PopBegins
  <2>3. CASE PopError(w)
    BY <2>3, PopErrorLoses
  <2>4. CASE HandlerSucceeds(w) \/ HandlerRetried(w) \/ HandlerExhausted(w)
    BY <2>4, HandlerDecides
  <2> QED
    BY <1>4, <2>1, <2>2, <2>3, <2>4 DEF WorkerStep
<1>5. ASSUME NEW p \in Procs, Boot(p)
      PROVE  UNCHANGED Volatile!vars
  BY <1>3, <1>5 DEF Boot, history
<1>6. ASSUME NEW p \in Procs, StopBegin(p)
      PROVE  Volatile!Next
  <2> DEFINE S == {}
  <2>1. S \in SUBSET Jobs /\ \A j \in S : fate[j] = "live"
    OBVIOUS
  <2>2. \A j \in Jobs : fate'[j] = IF j \in S THEN "lost" ELSE fate[j]
    BY <1>6 DEF StopBegin, history
  <2>3. \A v \in Workers, k \in Jobs : Running(v, k)' <=> Running(v, k)
    BY <1>6 DEF StopBegin, Running
  <2>4. stops' + faults' > 0
    BY <1>6 DEF StopBegin, QueueInv, TypeOK
  <2> HIDE DEF S
  <2>5. Volatile!Lose
    BY <2>1, <2>2, <2>3, <2>4, SomeAreLost
  <2> QED
    BY <2>5 DEF Volatile!Next
<1>7. ASSUME NEW p \in Procs, StopDone(p) \/ StopTimeout(p) \/ Crash(p)
      PROVE  Volatile!Next
  <2>1. Exit(p) /\ stops' = stops
    BY <1>7 DEF StopDone, StopTimeout, Crash, Exit
  <2>2. stops' + faults' > 0
    BY <1>7, <2>1 DEF StopDone, StopTimeout, Crash, Fault, QueueInv, StopsAreTold, TypeOK
  <2> QED
    BY <2>1, <2>2, ExitLoses
<1>8. CASE UNCHANGED vars
  BY <1>3, <1>8 DEF vars, world, history
<1>9. ASSUME NEW i \in DOMAIN list, NEW k \in Jobs, PushedAgain(i, k)
      PROVE  Volatile!Next
  BY <1>9, AgainRepeats
<1> QED
  BY <1>1, <1>2, <1>4, <1>5, <1>6, <1>7, <1>8, <1>9 DEF Next, TimerStep

\* The Redis driver implements a queue that loses jobs only once it was
\* disturbed, and gives one up only if a process allows a single attempt.
THEOREM VolatileRefinement == Spec => ImplementsVolatile
<1>1. Init => Volatile!Init
  <2> SUFFICES ASSUME Init PROVE Volatile!Init
    OBVIOUS
  <2>1. [j \in Jobs |-> Phase(j)] = [j \in Jobs |-> "new"]
    BY DEF Init, Phase
  <2> QED
    BY <2>1 DEF Init, Volatile!Init
<1> QED
  BY <1>1, VolatileStep, QueueInvariant, PTL DEF Spec, ImplementsVolatile, Volatile!Spec
=============================================================================
