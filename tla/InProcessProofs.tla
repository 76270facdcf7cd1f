-------------------------- MODULE InProcessProofs --------------------------
(***************************************************************************)
(* Proofs about the two queues of one process, the memory driver and the   *)
(* legacy pool, for every set of workers and jobs and every capacity: the  *)
(* drain of a clean Stop, the panics of the pool, and that both implement  *)
(* JobLifecycle.                                                           *)
(***************************************************************************)
EXTENDS MCInProcess, TLAPS

USE MemoryAssumption

Inv == TypeOK /\ DriverInv

\* What TypeOK says of the jobs and of the channel.
JobTypeOK ==
    job \in [Jobs -> {"new", "delayed", "due", "cancelled", "buffered",
                      "dropped", "panicked", "running", "done"}]

ChannelOK ==
    /\ jobChan \in Seq(Jobs) /\ Len(jobChan) =< QueueSize
    /\ \A j \in Jobs : job[j] = "buffered" <=> \E i \in DOMAIN jobChan : jobChan[i] = j
    /\ \A i, k \in DOMAIN jobChan : jobChan[i] = jobChan[k] => i = k

FlagsOK ==
    /\ chanClosed \in BOOLEAN /\ quitClosed \in BOOLEAN /\ running \in BOOLEAN
    /\ stop \in {"none", "locked", "waiting", "clean", "timedout"}
    /\ process \in {"up", "exited", "crashed"}

WorkersOK ==
    /\ pc \in [Workers -> {"off", "select", "drain"}]
    /\ task \in [Workers -> Jobs \union {NoJob}]

\* TypeOK by what it is about, now and after a step.
LEMMA TypeParts ==
    /\ TypeOK <=> JobTypeOK /\ ChannelOK /\ FlagsOK /\ WorkersOK
    /\ TypeOK' <=> JobTypeOK' /\ ChannelOK' /\ FlagsOK' /\ WorkersOK'
BY DEF TypeOK, JobTypeOK, ChannelOK, FlagsOK, WorkersOK

-----------------------------------------------------------------------------
(* The channel.                                                               *)

\* A job that is not in the channel changes its place outside of the channel.
LEMMA ChannelSet ==
    ASSUME JobTypeOK, ChannelOK, NEW j \in Jobs, job[j] # "buffered",
           NEW place \in {"new", "delayed", "due", "cancelled", "dropped",
                          "panicked", "running", "done"},
           Set(j, place), UNCHANGED jobChan
    PROVE  JobTypeOK' /\ ChannelOK'
BY DEF JobTypeOK, ChannelOK, Set

\* A send appends a job that was not there.
LEMMA ChannelSend ==
    ASSUME JobTypeOK, ChannelOK, NEW j \in Jobs, job[j] # "buffered",
           Len(jobChan) < QueueSize,
           Set(j, "buffered"), jobChan' = Append(jobChan, j)
    PROVE  JobTypeOK' /\ ChannelOK'
<1>1. JobTypeOK'
  BY DEF JobTypeOK, Set
<1>2. jobChan' \in Seq(Jobs) /\ Len(jobChan') = Len(jobChan) + 1
  BY DEF ChannelOK
<1>3. /\ \A i \in DOMAIN jobChan : i \in DOMAIN jobChan' /\ jobChan'[i] = jobChan[i]
      /\ Len(jobChan') \in DOMAIN jobChan' /\ jobChan'[Len(jobChan')] = j
      /\ \A i \in DOMAIN jobChan' : i \in DOMAIN jobChan \/ i = Len(jobChan')
  BY <1>2 DEF ChannelOK
<1>4. \A i \in DOMAIN jobChan : jobChan[i] # j /\ jobChan[i] \in Jobs
  BY DEF ChannelOK
<1>5. \A k \in Jobs : job'[k] = "buffered" <=> k = j \/ job[k] = "buffered"
  BY DEF Set, JobTypeOK
<1>6. \A k \in Jobs : job'[k] = "buffered" <=> \E i \in DOMAIN jobChan' : jobChan'[i] = k
  <2>1. ASSUME NEW k \in Jobs
        PROVE  (\E i \in DOMAIN jobChan' : jobChan'[i] = k)
               <=> k = j \/ \E i \in DOMAIN jobChan : jobChan[i] = k
    BY <1>3
  <2> QED
    BY <1>5, <2>1 DEF ChannelOK
<1>7. \A i, k \in DOMAIN jobChan' : jobChan'[i] = jobChan'[k] => i = k
  BY <1>3, <1>4 DEF ChannelOK
<1>8. Len(jobChan') =< QueueSize
  BY <1>2 DEF ChannelOK
<1> QED
  BY <1>1, <1>2, <1>6, <1>7, <1>8 DEF ChannelOK

\* A receive takes the head, which was there once.
LEMMA ChannelReceive ==
    ASSUME JobTypeOK, ChannelOK, jobChan # <<>>,
           Set(Head(jobChan), "running"), jobChan' = Tail(jobChan)
    PROVE  /\ JobTypeOK' /\ ChannelOK'
           /\ Head(jobChan) \in Jobs /\ job[Head(jobChan)] = "buffered"
<1> DEFINE h == Head(jobChan)
<1>1. h \in Jobs /\ 1 \in DOMAIN jobChan /\ jobChan[1] = h
  BY DEF ChannelOK
<1>2. job[h] = "buffered"
  BY <1>1 DEF ChannelOK
<1>3. JobTypeOK'
  BY <1>1 DEF JobTypeOK, Set
<1>4. jobChan' \in Seq(Jobs) /\ Len(jobChan') = Len(jobChan) - 1
  BY DEF ChannelOK
<1>5. /\ \A i \in DOMAIN jobChan' : i + 1 \in DOMAIN jobChan /\ i + 1 # 1
                                    /\ jobChan'[i] = jobChan[i + 1] /\ i \in Nat
      /\ \A i \in DOMAIN jobChan : i # 1 => i - 1 \in DOMAIN jobChan'
                                            /\ jobChan'[i - 1] = jobChan[i] /\ i \in Nat
  BY <1>4 DEF ChannelOK
<1>6. \A k \in Jobs : job'[k] = "buffered" <=> k # h /\ job[k] = "buffered"
  BY <1>1 DEF Set, JobTypeOK
<1>7. \A k \in Jobs : job'[k] = "buffered" <=> \E i \in DOMAIN jobChan' : jobChan'[i] = k
  <2>1. ASSUME NEW k \in Jobs, k # h, NEW i \in DOMAIN jobChan, jobChan[i] = k
        PROVE  \E n \in DOMAIN jobChan' : jobChan'[n] = k
    BY <2>1, <1>1, <1>5
  <2>2. ASSUME NEW k \in Jobs, NEW i \in DOMAIN jobChan', jobChan'[i] = k
        PROVE  k # h /\ \E n \in DOMAIN jobChan : jobChan[n] = k
    BY <2>2, <1>1, <1>5 DEF ChannelOK
  <2> QED
    BY <1>6, <2>1, <2>2 DEF ChannelOK
<1>8. \A i, k \in DOMAIN jobChan' : jobChan'[i] = jobChan'[k] => i = k
  <2>1. ASSUME NEW i \in DOMAIN jobChan', NEW k \in DOMAIN jobChan', jobChan'[i] = jobChan'[k]
        PROVE  i = k
    <3>1. i + 1 = k + 1
      BY <1>5, <2>1 DEF ChannelOK
    <3> QED
      BY <3>1, <1>5
  <2> QED
    BY <2>1
<1>9. Len(jobChan') =< QueueSize
  BY <1>4 DEF ChannelOK
<1> QED
  BY <1>1, <1>2, <1>3, <1>4, <1>7, <1>8, <1>9 DEF ChannelOK

-----------------------------------------------------------------------------
(* The steps both queues have.                                                *)

\* A job no worker has moves; the workers do not.
LEMMA TasksStay ==
    ASSUME JobTypeOK, WorkersOK, TaskInv, NEW j \in Jobs, job[j] # "running",
           NEW place, place # "running", Set(j, place), UNCHANGED worker
    PROVE  TaskInv'
BY DEF JobTypeOK, WorkersOK, TaskInv, Set, worker

\* A worker receives a job, in the outer or in the draining select.
LEMMA ReceiveStep ==
    ASSUME Inv, NEW w \in Workers, Receive(w)
    PROVE  Inv'
<1>1. JobTypeOK /\ ChannelOK /\ FlagsOK /\ WorkersOK
  BY TypeParts DEF Inv
<1> DEFINE h == Head(jobChan)
<1>2. JobTypeOK' /\ ChannelOK' /\ h \in Jobs /\ job[h] = "buffered"
  BY <1>1, ChannelReceive DEF Receive
<1>3. /\ task' = [task EXCEPT ![w] = h] /\ job' = [job EXCEPT ![h] = "running"]
      /\ UNCHANGED <<driver, pc, process>> /\ pc[w] # "off" /\ task[w] = NoJob
      /\ jobChan # <<>>
  BY DEF Receive, Set, Receiving
<1>4. FlagsOK' /\ WorkersOK'
  BY <1>1, <1>2, <1>3 DEF FlagsOK, WorkersOK, driver
<1>5. StageInv'
  BY <1>3 DEF Inv, DriverInv, StageInv, driver
<1>6. TaskInv'
  <2>1. \A v \in Workers : task[v] # h
    BY <1>2 DEF Inv, DriverInv, TaskInv
  <2>2. \A v \in Workers : task'[v] = IF v = w THEN h ELSE task[v]
    BY <1>1, <1>3 DEF WorkersOK
  <2>3. \A j \in Jobs : job'[j] = IF j = h THEN "running" ELSE job[j]
    BY <1>1, <1>3 DEF JobTypeOK
  <2>4. \A v \in Workers : task[v] \in Jobs \union {NoJob}
    BY <1>1 DEF WorkersOK
  <2>5. ASSUME NEW v \in Workers, task'[v] # NoJob
        PROVE  pc'[v] # "off" /\ job'[task'[v]] = "running"
    BY <2>1, <2>2, <2>3, <2>4, <2>5, <1>2, <1>3 DEF Inv, DriverInv, TaskInv
  <2>6. ASSUME NEW v \in Workers, NEW u \in Workers, task'[v] = task'[u]
        PROVE  v = u \/ task'[v] = NoJob
    BY <2>1, <2>2, <2>6 DEF Inv, DriverInv, TaskInv
  <2>7. ASSUME NEW j \in Jobs, job'[j] = "running"
        PROVE  \E v \in Workers : task'[v] = j
    <3>1. CASE j = h
      BY <3>1, <2>2
    <3>2. CASE j # h
      <4>1. PICK v \in Workers : task[v] = j
        BY <3>2, <2>3, <2>7 DEF Inv, DriverInv, TaskInv
      <4>2. v # w
        BY <4>1, <1>3
      <4> QED
        BY <4>1, <4>2, <2>2
    <3> QED
      BY <3>1, <3>2
  <2> QED
    BY <2>5, <2>6, <2>7 DEF TaskInv
<1>7. DrainInv'
  BY <1>1, <1>3 DEF Inv, DriverInv, DrainInv, driver, FlagsOK
<1> QED
  BY <1>2, <1>4, <1>5, <1>6, <1>7, TypeParts DEF Inv, DriverInv

\* The handler returns.
LEMMA ReturnStep ==
    ASSUME Inv, NEW w \in Workers, HandlerReturns(w)
    PROVE  Inv'
<1>1. JobTypeOK /\ ChannelOK /\ FlagsOK /\ WorkersOK
  BY TypeParts DEF Inv
<1> DEFINE t == task[w]
<1>2. t \in Jobs /\ job[t] = "running" /\ t # NoJob
  BY <1>1 DEF HandlerReturns, WorkersOK, Inv, DriverInv, TaskInv
<1>3. /\ task' = [task EXCEPT ![w] = NoJob] /\ job' = [job EXCEPT ![t] = "done"]
      /\ UNCHANGED <<jobChan, driver, pc, process>>
  BY DEF HandlerReturns, Set
<1>4. JobTypeOK' /\ ChannelOK'
  BY <1>1, <1>2, ChannelSet DEF HandlerReturns
<1>5. FlagsOK' /\ WorkersOK'
  BY <1>1, <1>3 DEF FlagsOK, WorkersOK, driver
<1>6. StageInv'
  BY <1>3 DEF Inv, DriverInv, StageInv, driver
<1>7. TaskInv'
  <2>1. \A v \in Workers : task'[v] = IF v = w THEN NoJob ELSE task[v]
    BY <1>1, <1>3 DEF WorkersOK
  <2>2. \A j \in Jobs : job'[j] = IF j = t THEN "done" ELSE job[j]
    BY <1>1, <1>3 DEF JobTypeOK
  <2>3. \A v \in Workers : task[v] \in Jobs \union {NoJob}
    BY <1>1 DEF WorkersOK
  <2>4. ASSUME NEW v \in Workers, task'[v] # NoJob
        PROVE  pc'[v] # "off" /\ job'[task'[v]] = "running"
    <3>1. v # w /\ task'[v] = task[v] /\ task[v] # t
      BY <2>1, <2>4, <1>2 DEF Inv, DriverInv, TaskInv
    <3> QED
      BY <3>1, <2>2, <2>3, <2>4, <1>3 DEF Inv, DriverInv, TaskInv
  <2>5. ASSUME NEW v \in Workers, NEW u \in Workers, task'[v] = task'[u]
        PROVE  v = u \/ task'[v] = NoJob
    BY <2>1, <2>5 DEF Inv, DriverInv, TaskInv
  <2>6. ASSUME NEW j \in Jobs, job'[j] = "running"
        PROVE  \E v \in Workers : task'[v] = j
    <3>1. j # t /\ job[j] = "running"
      BY <2>2, <2>6
    <3>2. PICK v \in Workers : task[v] = j
      BY <3>1 DEF Inv, DriverInv, TaskInv
    <3> QED
      BY <3>1, <3>2, <2>1
  <2> QED
    BY <2>4, <2>5, <2>6 DEF TaskInv
<1>8. DrainInv'
  BY <1>1, <1>3 DEF Inv, DriverInv, DrainInv, driver, FlagsOK, WorkersOK
<1> QED
  BY <1>4, <1>5, <1>6, <1>7, <1>8, TypeParts DEF Inv, DriverInv

\* A worker without a task goes to its drain, or returns.
LEMMA IdleStep ==
    ASSUME Inv, NEW w \in Workers, ReceiveClosed(w) \/ QuitSeen(w) \/ DrainEmpty(w)
    PROVE  Inv'
<1>1. JobTypeOK /\ ChannelOK /\ FlagsOK /\ WorkersOK /\ StageInv /\ TaskInv /\ DrainInv
  BY TypeParts DEF Inv, DriverInv
<1>2. PICK label \in {"off", "drain"} :
         /\ pc' = [pc EXCEPT ![w] = label] /\ task[w] = NoJob
         /\ label = "off" => jobChan = <<>>
         /\ quitClosed \/ chanClosed \/ pc[w] = "drain"
         /\ UNCHANGED <<job, jobChan, driver, task, process>>
  BY DEF ReceiveClosed, QuitSeen, DrainEmpty, Receiving, GoTo
<1>3. stop # "none"
  BY <1>1, <1>2 DEF StageInv
<1>4. TypeOK'
  BY <1>1, <1>2, TypeParts DEF JobTypeOK, ChannelOK, FlagsOK, WorkersOK, driver
<1>5. StageInv'
  BY <1>1, <1>2, <1>3 DEF StageInv, driver
<1>6. TaskInv'
  BY <1>1, <1>2 DEF TaskInv, WorkersOK
<1>7. DrainInv'
  BY <1>1, <1>2 DEF DrainInv, WorkersOK, driver
<1> QED
  BY <1>4, <1>5, <1>6, <1>7 DEF Inv, DriverInv

\* The steps of Stop after the first, and the ends of the process.
LEMMA StopStep ==
    ASSUME Inv, \/ StopClose \/ StopDone \/ StopTimeout \/ Exit
                \/ PoolStopAgain \/ \E w \in Workers : HandlerPanics(w)
    PROVE  Inv'
<1>1. JobTypeOK /\ ChannelOK /\ FlagsOK /\ WorkersOK /\ StageInv /\ TaskInv /\ DrainInv
  BY TypeParts DEF Inv, DriverInv
<1>2. UNCHANGED <<job, jobChan, quitClosed, running, worker>>
  BY DEF StopClose, StopDone, StopTimeout, Exit, PoolStopAgain, HandlerPanics, driver, worker
<1>3. JobTypeOK' /\ ChannelOK' /\ WorkersOK' /\ TaskInv'
  BY <1>1, <1>2 DEF JobTypeOK, ChannelOK, WorkersOK, TaskInv, worker
<1>4. FlagsOK' /\ StageInv' /\ DrainInv'
  <2>1. CASE StopClose
    BY <1>1, <1>2, <2>1 DEF StopClose, FlagsOK, StageInv, DrainInv, worker
  <2>2. CASE StopDone
    <3>1. jobChan = <<>>
      BY <1>1, <2>2 DEF StopDone, DrainInv, StageInv
    <3>2. \A w \in Workers : task[w] = NoJob
      BY <1>1, <2>2 DEF StopDone, TaskInv
    <3> QED
      BY <1>1, <1>2, <2>2, <3>1, <3>2 DEF StopDone, FlagsOK, StageInv, DrainInv, worker
  <2>3. CASE StopTimeout
    BY <1>1, <1>2, <2>3 DEF StopTimeout, FlagsOK, StageInv, DrainInv, worker
  <2>4. CASE Exit \/ PoolStopAgain \/ \E w \in Workers : HandlerPanics(w)
    BY <1>1, <1>2, <2>4
       DEF Exit, PoolStopAgain, HandlerPanics, FlagsOK, StageInv, DrainInv, worker, driver
  <2> QED
    BY <2>1, <2>2, <2>3, <2>4
<1> QED
  BY <1>3, <1>4, TypeParts DEF Inv, DriverInv

\* A job that is nowhere in the driver changes its place, without a send.
LEMMA PlaceStep ==
    ASSUME Inv, NEW j \in Jobs, job[j] \notin {"buffered", "running"},
           NEW place \in {"delayed", "due", "cancelled", "dropped", "panicked"},
           Set(j, place), UNCHANGED <<jobChan, driver, worker>>,
           process' \in {process, "crashed"}
    PROVE  Inv'
<1>1. JobTypeOK /\ ChannelOK /\ FlagsOK /\ WorkersOK /\ StageInv /\ TaskInv /\ DrainInv
  BY TypeParts DEF Inv, DriverInv
<1>2. JobTypeOK' /\ ChannelOK'
  BY <1>1, ChannelSet
<1>3. TaskInv'
  BY <1>1, TasksStay
<1>4. FlagsOK' /\ WorkersOK' /\ StageInv' /\ DrainInv'
  BY <1>1 DEF FlagsOK, WorkersOK, StageInv, DrainInv, driver, worker
<1> QED
  BY <1>2, <1>3, <1>4, TypeParts DEF Inv, DriverInv

\* A send, while the channel is open and nobody has the mutex.
LEMMA SendStep ==
    ASSUME Inv, NEW j \in Jobs, job[j] \notin {"buffered", "running"},
           MutexFree, ~chanClosed, Len(jobChan) < QueueSize,
           Set(j, "buffered"), jobChan' = Append(jobChan, j),
           UNCHANGED <<driver, worker, process>>
    PROVE  Inv'
<1>1. JobTypeOK /\ ChannelOK /\ FlagsOK /\ WorkersOK /\ StageInv /\ TaskInv /\ DrainInv
  BY TypeParts DEF Inv, DriverInv
<1>2. JobTypeOK' /\ ChannelOK'
  BY <1>1, ChannelSend
<1>3. TaskInv'
  BY <1>1, TasksStay
<1>4. stop = "none"
  BY <1>1 DEF StageInv, MutexFree, FlagsOK
<1>5. FlagsOK' /\ WorkersOK' /\ StageInv' /\ DrainInv'
  BY <1>1, <1>4 DEF FlagsOK, WorkersOK, StageInv, DrainInv, driver, worker
<1> QED
  BY <1>2, <1>3, <1>5, TypeParts DEF Inv, DriverInv

\* Start, and the first step of Stop.
LEMMA StartStep ==
    ASSUME Inv, Start \/ PoolStart \/ (running /\ stop = "none" /\ StopQuit)
    PROVE  Inv'
<1>1. JobTypeOK /\ ChannelOK /\ FlagsOK /\ WorkersOK /\ StageInv /\ TaskInv /\ DrainInv
  BY TypeParts DEF Inv, DriverInv
<1>2. CASE Start \/ PoolStart
  <2>1. /\ running' = TRUE /\ pc' = [w \in Workers |-> "select"]
        /\ stop \in {"none", "clean"} /\ ~running
        /\ UNCHANGED <<job, jobChan, chanClosed, quitClosed, stop, task, process>>
    BY <1>2 DEF Start, PoolStart
  <2>2. TypeOK'
    BY <1>1, <2>1, TypeParts DEF JobTypeOK, ChannelOK, FlagsOK, WorkersOK
  <2>3. StageInv' /\ TaskInv'
    BY <1>1, <2>1 DEF StageInv, TaskInv
  <2>4. DrainInv'
    BY <1>1, <2>1 DEF DrainInv
  <2> QED
    BY <2>2, <2>3, <2>4 DEF Inv, DriverInv
<1>3. CASE running /\ stop = "none" /\ StopQuit
  <2>1. /\ running' = FALSE /\ quitClosed' = TRUE /\ stop' = "locked"
        /\ UNCHANGED <<job, jobChan, chanClosed, worker, process>>
    BY <1>3 DEF StopQuit
  <2>2. TypeOK'
    BY <1>1, <2>1, TypeParts DEF JobTypeOK, ChannelOK, FlagsOK, WorkersOK, worker
  <2>3. TaskInv'
    BY <1>1, <2>1 DEF TaskInv, worker
  <2>4. StageInv'
    BY <1>1, <1>3, <2>1 DEF StageInv
  <2>5. DrainInv'
    BY <1>1, <1>3, <2>1 DEF DrainInv, StageInv, worker
  <2> QED
    BY <2>2, <2>3, <2>4, <2>5 DEF Inv, DriverInv
<1> QED
  BY <1>2, <1>3

\* The steps that the driver and the pool have in common keep the invariant.
LEMMA SharedStep ==
    ASSUME Inv, \/ \E w \in Workers : WorkerStep(w) \/ HandlerPanics(w)
                \/ StopClose \/ StopDone \/ StopTimeout \/ Exit \/ PoolStopAgain
    PROVE  Inv'
BY ReceiveStep, ReturnStep, IdleStep, StopStep DEF WorkerStep

\* What stutters changes nothing.
LEMMA StutterStep ==
    ASSUME Inv, UNCHANGED vars
    PROVE  Inv'
BY DEF Inv, TypeOK, DriverInv, StageInv, TaskInv, DrainInv, vars

\* All of it holds in the beginning.
LEMMA InitInv == Init => Inv /\ StartedOnce
<1> SUFFICES ASSUME Init PROVE Inv /\ StartedOnce
  OBVIOUS
<1>1. TypeOK
  <2>1. /\ jobChan \in Seq(Jobs) /\ Len(jobChan) = 0 /\ DOMAIN jobChan = {}
    BY DEF Init
  <2>2. JobTypeOK /\ FlagsOK /\ WorkersOK
    BY DEF Init, JobTypeOK, FlagsOK, WorkersOK
  <2>3. \A j \in Jobs : job[j] = "new"
    BY DEF Init
  <2>4. ChannelOK
    BY <2>1, <2>3 DEF ChannelOK
  <2> QED
    BY <2>2, <2>4, TypeParts
<1>2. DriverInv /\ StartedOnce
  BY DEF Init, DriverInv, StageInv, TaskInv, DrainInv, StartedOnce
<1> QED
  BY <1>1, <1>2 DEF Inv

-----------------------------------------------------------------------------
(* The memory driver.                                                         *)

\* Every step of the memory driver keeps the invariant; nothing starts it twice.
LEMMA DriverStep == Inv /\ StartedOnce /\ [Next]_vars => Inv' /\ StartedOnce'
<1> SUFFICES ASSUME Inv, StartedOnce, [Next]_vars PROVE Inv' /\ StartedOnce'
  OBVIOUS
<1>0. job \in [Jobs -> {"new", "delayed", "due", "cancelled", "buffered",
                        "dropped", "panicked", "running", "done"}]
  BY DEF Inv, TypeOK
<1>1. ASSUME NEW j \in Jobs, DispatchStep(j)
      PROVE  Inv' /\ UNCHANGED <<running, stop>>
  <2>1. CASE DispatchDelayed(j) \/ TimerFires(j) \/ TimerCancelled(j)
    BY <2>1, PlaceStep DEF DispatchDelayed, TimerFires, TimerCancelled, driver
  <2>2. CASE DispatchDropped(j) \/ DispatchPanics(j)
    BY <2>2, PlaceStep DEF DispatchDropped, DispatchPanics, Calls, driver
  <2>3. CASE DispatchAccepted(j)
    BY <2>3, SendStep DEF DispatchAccepted, Calls, driver
  <2> QED
    BY <1>1, <2>1, <2>2, <2>3 DEF DispatchStep
<1>2. ASSUME NEW w \in Workers, WorkerStep(w) \/ HandlerPanics(w)
      PROVE  Inv' /\ UNCHANGED <<running, stop>>
  BY <1>2, SharedStep
     DEF WorkerStep, HandlerPanics, Receive, HandlerReturns, ReceiveClosed, QuitSeen,
         DrainEmpty, driver
<1>3. CASE Start
  BY <1>3, StartStep DEF Start, StartedOnce
<1>4. CASE StopQuit
  BY <1>4, StartStep DEF StopQuit, StartedOnce
<1>5. CASE StopClose \/ StopDone \/ StopTimeout \/ Exit
  <2>1. running' = running /\ (stop # "none" \/ UNCHANGED stop)
    BY <1>5 DEF StopClose, StopDone, StopTimeout, Exit, driver
  <2> QED
    BY <1>5, <2>1, SharedStep DEF StartedOnce
<1>6. CASE UNCHANGED vars
  BY <1>6, StutterStep DEF StartedOnce, vars
<1> QED
  BY <1>1, <1>2, <1>3, <1>4, <1>5, <1>6 DEF Next, Ended, StartedOnce

\* The invariant of the memory driver: Stop's stages, one worker for each
\* running job, and a channel that stays empty once a worker has returned.
THEOREM DriverInvariant == Spec => [](TypeOK /\ DriverInv)
<1>1. Init => Inv /\ StartedOnce
  BY InitInv
<1>2. Inv /\ StartedOnce /\ [Next]_vars => Inv' /\ StartedOnce'
  BY DriverStep
<1>3. Inv <=> TypeOK /\ DriverInv
  BY DEF Inv
<1> QED
  BY <1>1, <1>2, <1>3, PTL DEF Spec

\* The memory driver's state is well-formed: the channel holds each accepted
\* job once, for any number of workers and jobs and any capacity.
THEOREM TypeCorrect == Spec => []TypeOK
BY DriverInvariant, PTL

\* A clean stop leaves no job in the channel and none unfinished.
LEMMA DrainedInv == Inv => CleanStopDrains
<1> SUFFICES ASSUME Inv, stop = "clean", NEW j \in Jobs
             PROVE  job[j] \notin {"buffered", "running"}
  BY DEF CleanStopDrains
<1>1. jobChan = <<>> /\ \A w \in Workers : task[w] = NoJob
  BY DEF Inv, DriverInv, DrainInv
<1>2. job[j] # "buffered"
  BY <1>1 DEF Inv, TypeOK
<1>3. job[j] # "running"
  BY <1>1 DEF Inv, DriverInv, TaskInv
<1> QED
  BY <1>2, <1>3

\* When Stop of the memory driver returns nil, every accepted job was executed.
THEOREM CleanStop == Spec => []CleanStopDrains
<1>1. TypeOK /\ DriverInv => CleanStopDrains
  BY DrainedInv DEF Inv
<1> QED
  BY <1>1, DriverInvariant, PTL

-----------------------------------------------------------------------------
(* The legacy pool.                                                           *)

\* Every step of the pool keeps it, a second Start included.
LEMMA PoolStep == Inv /\ [PoolNext]_vars => Inv'
<1> SUFFICES ASSUME Inv, [PoolNext]_vars PROVE Inv'
  OBVIOUS
<1>1. ASSUME NEW j \in Jobs, \/ PoolDispatchRefused(j) \/ PoolDispatchAccepted(j)
                             \/ PoolDispatchPanics(j)
      PROVE  Inv'
  <2>1. CASE PoolDispatchRefused(j) \/ PoolDispatchPanics(j)
    BY <2>1, PlaceStep DEF PoolDispatchRefused, PoolDispatchPanics
  <2>2. CASE PoolDispatchAccepted(j)
    BY <2>2, SendStep DEF PoolDispatchAccepted
  <2> QED
    BY <1>1, <2>1, <2>2
<1>2. CASE PoolStart
  BY <1>2, StartStep
<1>3. CASE PoolStop
  <2>1. stop = "none"
    BY <1>3 DEF PoolStop, Inv, DriverInv, StageInv
  <2> QED
    BY <1>3, <2>1, StartStep DEF PoolStop, StopQuit
<1>4. CASE UNCHANGED vars
  BY <1>4, StutterStep
<1> QED
  BY <1>1, <1>2, <1>3, <1>4, SharedStep DEF PoolNext, Ended

\* What is true of the memory driver is true of the pool, restarted or not: it is
\* well-formed, and from a Stop on its channel stays empty once a worker found it so.
THEOREM PoolInvariant == PoolSpec => [](TypeOK /\ DriverInv)
<1>1. Inv <=> TypeOK /\ DriverInv
  BY DEF Inv
<1> QED
  BY <1>1, InitInv, PoolStep, PTL DEF PoolSpec

\* The pool, too, leaves nothing behind when Stop returns nil, although its
\* owner may start it again on channels that are closed.
THEOREM PoolCleanStop == PoolSpec => []CleanStopDrains
<1>1. TypeOK /\ DriverInv => CleanStopDrains
  BY DrainedInv DEF Inv
<1> QED
  BY <1>1, PoolInvariant, PTL

\* A caller panics only in a pool that was started again, and such a pool stays so.
LEMMA PoolPanicsStep == Inv /\ PanicsOnlyRestarted /\ [PoolNext]_vars => PanicsOnlyRestarted'
<1> SUFFICES ASSUME Inv, PanicsOnlyRestarted, [PoolNext]_vars,
                    NEW j \in Jobs, job'[j] = "panicked"
             PROVE  Restarted'
  BY DEF PanicsOnlyRestarted
<1>0. JobTypeOK /\ ChannelOK /\ WorkersOK
  BY TypeParts DEF Inv
<1>1. CASE job[j] = "panicked"
  <2>1. running /\ quitClosed
    BY <1>1 DEF PanicsOnlyRestarted, Restarted
  <2>2. UNCHANGED <<running, quitClosed>>
    BY <2>1 DEF PoolNext, Ended, PoolDispatchRefused, PoolDispatchAccepted,
       PoolDispatchPanics, WorkerStep, HandlerPanics, Receive, HandlerReturns,
       ReceiveClosed, QuitSeen, DrainEmpty, PoolStart, PoolStop, PoolStopAgain,
       StopClose, StopDone, StopTimeout, Exit, driver, vars
  <2> QED
    BY <2>1, <2>2 DEF Restarted
<1>2. CASE job[j] # "panicked"
  <2>1. \E k \in Jobs : PoolDispatchPanics(k)
    <3>1. ASSUME NEW k \in Jobs, PoolDispatchRefused(k) \/ PoolDispatchAccepted(k)
          PROVE  FALSE
      BY <1>0, <1>2, <3>1 DEF PoolDispatchRefused, PoolDispatchAccepted, Set, JobTypeOK
    <3>2. ASSUME NEW w \in Workers, Receive(w) \/ HandlerReturns(w)
          PROVE  FALSE
      BY <1>0, <1>2, <3>2 DEF Receive, HandlerReturns, Set, JobTypeOK
    <3>3. job' # job
      BY <1>2
    <3> QED
      BY <3>1, <3>2, <3>3 DEF PoolNext, Ended, WorkerStep, HandlerPanics,
         ReceiveClosed, QuitSeen, DrainEmpty, PoolStart, PoolStop, StopQuit,
         PoolStopAgain, StopClose, StopDone, StopTimeout, Exit, vars
  <2> QED
    BY <2>1 DEF PoolDispatchPanics, Restarted, Inv, DriverInv, StageInv, driver
<1> QED
  BY <1>1, <1>2

\* No caller of the pool panics, unless it was started again after Stop.
THEOREM PoolPanics == PoolSpec => []PanicsOnlyRestarted
<1>1. Init => PanicsOnlyRestarted
  BY DEF Init, PanicsOnlyRestarted
<1>2. Inv /\ PanicsOnlyRestarted /\ [PoolNext]_vars => PanicsOnlyRestarted'
  BY PoolPanicsStep
<1>3. Inv <=> TypeOK /\ DriverInv
  BY DEF Inv
<1> QED
  BY <1>1, <1>2, <1>3, PoolInvariant, PTL DEF PoolSpec

-----------------------------------------------------------------------------
(* Both implement JobLifecycle with a single try.                             *)

\* The places in which the queue does not answer for a job.
Outside == {"new", "delayed", "due", "cancelled", "dropped", "panicked"}

Phase == [j \in Jobs |-> PhaseOf(j)]
Tries == [j \in Jobs |-> IF job[j] = "running" THEN 1 ELSE 0]

\* Jobs move outside of the queue, or not at all: a stutter, or the loss of the
\* running jobs if the process ends.
LEMMA OutsideStep ==
    ASSUME JobTypeOK, JobTypeOK', process = "up",
           \A j \in Jobs : job'[j] = job[j] \/ {job[j], job'[j]} \subseteq Outside
    PROVE  [Lifecycle!Next]_(Lifecycle!vars)
<1>1. Tries' = Tries
  BY DEF Tries, Outside
<1>2. CASE process' = "up"
  <2>1. \A j \in Jobs : PhaseOf(j)' = PhaseOf(j)
    BY <1>2 DEF PhaseOf, Outside
  <2>2. Phase' = Phase
    BY <2>1 DEF Phase
  <2> QED
    BY <1>1, <2>2 DEF Lifecycle!vars, Phase, Tries
<1>3. CASE process' # "up"
  <2> DEFINE S == {j \in Jobs : job[j] = "running"}
  <2>1. \A j \in S : Phase[j] = "running"
    BY DEF Phase, PhaseOf
  <2>2. \A j \in Jobs : PhaseOf(j)' = IF j \in S THEN "lost" ELSE PhaseOf(j)
    BY <1>3 DEF PhaseOf, Outside
  <2>3. Phase' = [j \in Jobs |-> IF j \in S THEN "lost" ELSE Phase[j]]
    BY <2>2 DEF Phase
  <2>4. S \in SUBSET Jobs
    OBVIOUS
  <2> HIDE DEF S
  <2>5. Lifecycle!Lose
    BY <1>1, <2>1, <2>3, <2>4 DEF Lifecycle!Lose, Phase, Tries
  <2> QED
    BY <2>5 DEF Lifecycle!Next
<1> QED
  BY <1>2, <1>3

\* One job moves, in a process that goes on.
LEMMA MoveStep ==
    ASSUME JobTypeOK, process = "up", UNCHANGED process, NEW j \in Jobs, NEW place,
           Set(j, place),
           \/ job[j] \in Outside /\ place = "buffered"
           \/ job[j] = "buffered" /\ place = "running"
           \/ job[j] = "running" /\ place = "done"
    PROVE  [Lifecycle!Next]_(Lifecycle!vars)
<1>1. \A k \in Jobs : job'[k] = IF k = j THEN place ELSE job[k]
  BY DEF Set, JobTypeOK
<1>2. \A k \in Jobs : k # j => PhaseOf(k)' = PhaseOf(k)
  BY <1>1 DEF PhaseOf
<1>3. Phase' = [Phase EXCEPT ![j] = PhaseOf(j)']
  BY <1>2 DEF Phase
<1>4. Phase[j] = PhaseOf(j)
  BY DEF Phase
<1>5. Tries' = [Tries EXCEPT ![j] = IF place = "running" THEN 1 ELSE 0]
  BY <1>1 DEF Tries
<1>6. Tries[j] = IF job[j] = "running" THEN 1 ELSE 0
  BY DEF Tries
<1>7. CASE job[j] \in Outside /\ place = "buffered"
  <2>1. PhaseOf(j) = "unborn" /\ PhaseOf(j)' = "waiting"
    BY <1>1, <1>7 DEF PhaseOf, Outside
  <2>2. Tries' = Tries
    BY <1>1, <1>7 DEF Tries, Outside
  <2>3. Lifecycle!Submit(j)
    BY <1>3, <1>4, <2>1, <2>2 DEF Lifecycle!Submit, Lifecycle!Move, Phase, Tries
  <2> QED
    BY <2>3 DEF Lifecycle!Next
<1>8. CASE job[j] = "buffered" /\ place = "running"
  <2>1. PhaseOf(j) = "waiting" /\ PhaseOf(j)' = "running"
    BY <1>1, <1>8 DEF PhaseOf
  <2>2. Tries[j] = 0 /\ Tries' = [Tries EXCEPT ![j] = @ + 1]
    BY <1>5, <1>6, <1>8
  <2>3. Lifecycle!Begin(j)
    BY <1>3, <1>4, <2>1, <2>2 DEF Lifecycle!Begin, Lifecycle!Move, Phase, Tries
  <2> QED
    BY <2>3 DEF Lifecycle!Next
<1>9. CASE job[j] = "running" /\ place = "done"
  <2>1. PhaseOf(j) = "running" /\ PhaseOf(j)' = "done"
    BY <1>1, <1>9 DEF PhaseOf
  <2>2. Tries' = [Tries EXCEPT ![j] = 0]
    BY <1>5, <1>9
  <2>3. Lifecycle!Complete(j)
    BY <1>3, <1>4, <2>1, <2>2 DEF Lifecycle!Complete, Lifecycle!Move, Phase, Tries
  <2> QED
    BY <2>3 DEF Lifecycle!Next
<1> QED
  BY <1>7, <1>8, <1>9

\* The steps both queues have.
LEMMA SharedLifecycle ==
    ASSUME Inv, Inv', process = "up",
           \/ \E w \in Workers : WorkerStep(w) \/ HandlerPanics(w)
           \/ StopClose \/ StopDone \/ StopTimeout \/ Exit \/ PoolStopAgain
           \/ Start \/ PoolStart \/ StopQuit
    PROVE  [Lifecycle!Next]_(Lifecycle!vars)
<1>0. JobTypeOK /\ JobTypeOK' /\ ChannelOK /\ WorkersOK /\ TaskInv
  BY TypeParts DEF Inv, DriverInv
<1>1. ASSUME NEW w \in Workers, Receive(w)
      PROVE  [Lifecycle!Next]_(Lifecycle!vars)
  <2>1. Head(jobChan) \in Jobs /\ job[Head(jobChan)] = "buffered"
    BY <1>0, <1>1, ChannelReceive DEF Receive
  <2> QED
    BY <1>0, <1>1, <2>1, MoveStep DEF Receive
<1>2. ASSUME NEW w \in Workers, HandlerReturns(w)
      PROVE  [Lifecycle!Next]_(Lifecycle!vars)
  <2>1. task[w] \in Jobs /\ job[task[w]] = "running"
    BY <1>0, <1>2 DEF HandlerReturns, TaskInv, WorkersOK
  <2> QED
    BY <1>0, <1>2, <2>1, MoveStep DEF HandlerReturns
<1>3. CASE UNCHANGED job
  BY <1>0, <1>3, OutsideStep
<1> QED
  BY <1>1, <1>2, <1>3
     DEF WorkerStep, HandlerPanics, ReceiveClosed, QuitSeen, DrainEmpty, StopClose,
         StopDone, StopTimeout, Exit, PoolStopAgain, Start, PoolStart, StopQuit

\* At first no job was dispatched, which is how a lifecycle begins.
LEMMA LifecycleInit == Init => Lifecycle!Init
BY DEF Init, Lifecycle!Init, PhaseOf

\* A step of the driver is one of the lifecycle.
LEMMA DriverLifecycle ==
    ASSUME Inv, Inv', [Next]_vars
    PROVE  [Lifecycle!Next]_(Lifecycle!vars)
<1>0. JobTypeOK /\ JobTypeOK'
  BY TypeParts DEF Inv
<1>1. CASE UNCHANGED vars
  BY <1>1 DEF vars, Lifecycle!vars, PhaseOf
<1>2. ASSUME process = "up", NEW j \in Jobs, DispatchAccepted(j)
      PROVE  [Lifecycle!Next]_(Lifecycle!vars)
  BY <1>0, <1>2, MoveStep DEF DispatchAccepted, Calls, Outside
<1>3. ASSUME process = "up", NEW j \in Jobs,
             \/ DispatchDelayed(j) \/ TimerFires(j) \/ TimerCancelled(j)
             \/ DispatchDropped(j) \/ DispatchPanics(j)
      PROVE  [Lifecycle!Next]_(Lifecycle!vars)
  <2>1. /\ job[j] \in {"new", "delayed", "due"}
        /\ \E place \in {"delayed", "due", "cancelled", "dropped", "panicked"} : Set(j, place)
    BY <1>3 DEF DispatchDelayed, TimerFires, TimerCancelled, DispatchDropped,
                DispatchPanics, Calls
  <2>2. \A k \in Jobs : job'[k] = job[k] \/ {job[k], job'[k]} \subseteq Outside
    BY <1>0, <2>1 DEF Set, JobTypeOK, Outside
  <2> QED
    BY <1>0, <1>3, <2>2, OutsideStep
<1> QED
  BY <1>1, <1>2, <1>3, SharedLifecycle DEF Next, Ended, DispatchStep

\* The memory driver implements JobLifecycle with a single try: a job is executed
\* once at most, and lost only with its process.
THEOREM Refinement == Spec => ImplementsSingleTry
<1>1. Inv /\ Inv' /\ [Next]_vars => [Lifecycle!Next]_(Lifecycle!vars)
  BY DriverLifecycle
<1>2. Inv <=> TypeOK /\ DriverInv
  BY DEF Inv
<1> QED
  BY <1>1, <1>2, LifecycleInit, DriverInvariant, PTL
     DEF Spec, ImplementsSingleTry, Lifecycle!Spec

\* So does a step of the pool.
LEMMA PoolLifecycle ==
    ASSUME Inv, Inv', [PoolNext]_vars
    PROVE  [Lifecycle!Next]_(Lifecycle!vars)
<1>0. JobTypeOK /\ JobTypeOK'
  BY TypeParts DEF Inv
<1>1. CASE UNCHANGED vars
  BY <1>1 DEF vars, Lifecycle!vars, PhaseOf
<1>2. ASSUME process = "up", NEW j \in Jobs, PoolDispatchAccepted(j)
      PROVE  [Lifecycle!Next]_(Lifecycle!vars)
  BY <1>0, <1>2, MoveStep DEF PoolDispatchAccepted, Outside
<1>3. ASSUME process = "up", NEW j \in Jobs,
             PoolDispatchRefused(j) \/ PoolDispatchPanics(j)
      PROVE  [Lifecycle!Next]_(Lifecycle!vars)
  <2>1. \A k \in Jobs : job'[k] = job[k] \/ {job[k], job'[k]} \subseteq Outside
    BY <1>0, <1>3
       DEF PoolDispatchRefused, PoolDispatchPanics, Set, JobTypeOK, Outside
  <2> QED
    BY <1>0, <1>3, <2>1, OutsideStep
<1>4. CASE PoolStop /\ process = "up"
  BY <1>4, SharedLifecycle DEF PoolStop
<1> QED
  BY <1>1, <1>2, <1>3, <1>4, SharedLifecycle DEF PoolNext, Ended

\* The legacy pool implements JobLifecycle as the memory driver does.
THEOREM PoolRefinement == PoolSpec => ImplementsSingleTry
<1>1. Inv /\ Inv' /\ [PoolNext]_vars => [Lifecycle!Next]_(Lifecycle!vars)
  BY PoolLifecycle
<1>2. Inv <=> TypeOK /\ DriverInv
  BY DEF Inv
<1> QED
  BY <1>1, <1>2, LifecycleInit, PoolInvariant, PTL
     DEF PoolSpec, ImplementsSingleTry, Lifecycle!Spec

-----------------------------------------------------------------------------
(* One program that has either queue, as MCInProcess runs them.               *)

EitherInv == /\ Inv /\ kind \in {"driver", "pool"}
             /\ kind = "driver" => StartedOnce
             /\ PoolPanicsOnlyRestarted

\* Every step of the queue that the program has keeps what is true of that queue.
LEMMA EitherStep == EitherInv /\ [MCNext]_mcvars => EitherInv'
<1> SUFFICES ASSUME EitherInv, [MCNext]_mcvars PROVE EitherInv'
  OBVIOUS
<1>1. UNCHANGED kind
  BY DEF MCNext, mcvars
<1>2. CASE kind = "driver"
  <2>1. [Next]_vars
    BY <1>2 DEF MCNext, mcvars
  <2>2. Inv' /\ StartedOnce'
    BY <1>2, <2>1, DriverStep DEF EitherInv
  <2> QED
    BY <1>1, <1>2, <2>2 DEF EitherInv, PoolPanicsOnlyRestarted
<1>3. CASE kind = "pool"
  <2>1. [PoolNext]_vars
    BY <1>3 DEF MCNext, mcvars
  <2>2. Inv' /\ PanicsOnlyRestarted'
    BY <1>3, <2>1, PoolStep, PoolPanicsStep DEF EitherInv, PoolPanicsOnlyRestarted
  <2> QED
    BY <1>1, <1>3, <2>2 DEF EitherInv, PoolPanicsOnlyRestarted
<1> QED
  BY <1>2, <1>3 DEF EitherInv

\* A program with the driver never starts it twice, and one with the pool panics
\* only if it does.
THEOREM EitherInvariant == MCSpec => []EitherInv
<1>1. MCInit => EitherInv
  BY InitInv DEF MCInit, EitherInv, PoolPanicsOnlyRestarted, PanicsOnlyRestarted, Init
<1> QED
  BY <1>1, EitherStep, PTL DEF MCSpec

\* "Attempted to dispatch job to stopped worker pool": a late caller of the pool
\* gets an error and no panic, unless the pool was started again.
THEOREM EitherPanics == MCSpec => []PoolPanicsOnlyRestarted
<1>1. EitherInv => PoolPanicsOnlyRestarted
  BY DEF EitherInv
<1> QED
  BY <1>1, EitherInvariant, PTL

\* Whichever queue the program has, it implements JobLifecycle.
THEOREM EitherRefinement == MCSpec => ImplementsSingleTry
<1>1. MCInit => Lifecycle!Init
  BY LifecycleInit DEF MCInit
<1>2. EitherInv /\ EitherInv' /\ [MCNext]_mcvars => [Lifecycle!Next]_(Lifecycle!vars)
  <2> SUFFICES ASSUME EitherInv, EitherInv', [MCNext]_mcvars
               PROVE  [Lifecycle!Next]_(Lifecycle!vars)
    OBVIOUS
  <2>1. Inv /\ Inv' /\ ([Next]_vars \/ [PoolNext]_vars)
    BY DEF EitherInv, MCNext, mcvars
  <2> QED
    BY <2>1, DriverLifecycle, PoolLifecycle
<1> QED
  BY <1>1, <1>2, EitherInvariant, PTL DEF MCSpec, ImplementsSingleTry, Lifecycle!Spec
=============================================================================
