-------------------------- MODULE RateLimiterProofs --------------------------
(***************************************************************************)
(* Proofs about RateLimiter: its types, and the bound on what an address   *)
(* is admitted in any window of time.                                      *)
(***************************************************************************)
EXTENDS RateLimiter, TLAPS

USE LimiterAssumption

\* A bucket holds between nothing and a burst, and does not run dry by waiting.
LEMMA AvailType ==
    ASSUME TypeOK, NEW b \in Buckets
    PROVE  Avail(b) \in 0..Capacity
<1>1. now \in Nat /\ level[b] \in 0..Capacity /\ filled[b] \in 0..now
  BY DEF TypeOK
<1>2. QED
  BY <1>1 DEF Avail

\* What an idle bucket holds grows with the clock until it is full.
LEMMA AvailGrows ==
    ASSUME TypeOK, NEW b \in Buckets, level'[b] = level[b], filled'[b] = filled[b],
           now' = now + 1
    PROVE  Avail(b)' =< Avail(b) + 1
<1>1. now \in Nat /\ level[b] \in 0..Capacity /\ filled[b] \in 0..now
  BY DEF TypeOK
<1>2. QED
  BY <1>1 DEF Avail

\* Every action keeps the state well-formed.
LEMMA TypeStep == TypeOK /\ [Next]_vars => TypeOK'
<1> SUFFICES ASSUME TypeOK, [Next]_vars PROVE TypeOK'
  OBVIOUS
<1>f. /\ now \in Nat /\ since \in 0..now /\ sweep \in Nat
      /\ clients \in [Ips -> Buckets \union {NoBucket}]
      /\ lastSeen \in [Ips -> 0..now]
      /\ level \in [Buckets -> 0..Capacity]
      /\ filled \in [Buckets -> 0..now]
      /\ held \in [Requests -> Buckets \union {NoBucket}]
      /\ heldAt \in [Requests -> 0..now]
      /\ ip \in [Requests -> Ips]
      /\ spent \in [Ips -> Nat]
  BY DEF TypeOK
<1>1. ASSUME NEW r \in Requests, NEW a \in Ips, GetLimiter(r, a) PROVE TypeOK'
  <2>1. /\ lastSeen' \in [Ips -> 0..now] /\ heldAt' \in [Requests -> 0..now]
        /\ ip' \in [Requests -> Ips]
    BY <1>1, <1>f DEF GetLimiter
  <2>2. UNCHANGED <<now, sweep, since, spent>>
    BY <1>1 DEF GetLimiter, window
  <2>3. CASE clients[a] # NoBucket /\ UNCHANGED <<clients, level, filled>>
                /\ held' = [held EXCEPT ![r] = clients[a]]
    BY <2>1, <2>2, <2>3, <1>f DEF TypeOK
  <2>4. ASSUME NEW b \in Free,
               clients' = [clients EXCEPT ![a] = b],
               level' = [level EXCEPT ![b] = Capacity],
               filled' = [filled EXCEPT ![b] = now],
               held' = [held EXCEPT ![r] = b]
        PROVE  TypeOK'
    <3>1. b \in Buckets
      BY DEF Free
    <3>2. /\ clients' \in [Ips -> Buckets \union {NoBucket}]
          /\ held' \in [Requests -> Buckets \union {NoBucket}]
      BY <3>1, <2>4, <1>f
    <3>3. level' \in [Buckets -> 0..Capacity] /\ filled' \in [Buckets -> 0..now]
      BY <3>1, <2>4, <1>f
    <3>4. QED
      BY <2>1, <2>2, <3>2, <3>3, <1>f DEF TypeOK
  <2>5. QED
    BY <1>1, <2>3, <2>4 DEF GetLimiter
<1>2. ASSUME NEW r \in Requests, Admit(r) PROVE TypeOK'
  <2>1. held[r] \in Buckets /\ ip[r] \in Ips
    BY <1>2, <1>f DEF Admit
  <2>2. Avail(held[r]) - Cost \in 0..Capacity
    BY <1>2, <2>1, AvailType DEF Admit
  <2>3. level' \in [Buckets -> 0..Capacity] /\ filled' \in [Buckets -> 0..now]
    BY <1>2, <2>2, <1>f DEF Admit
  <2>4. spent' \in [Ips -> Nat] /\ held' \in [Requests -> Buckets \union {NoBucket}]
    BY <1>2, <2>1, <1>f DEF Admit, Release
  <2>5. QED
    BY <1>2, <2>3, <2>4, <1>f DEF Admit, Release, TypeOK
<1>3. ASSUME NEW r \in Requests, Reject(r) PROVE TypeOK'
  BY <1>3, <1>f DEF Reject, Release, limits, window, TypeOK
<1>4. CASE Cleanup
  BY <1>4, <1>f DEF Cleanup, window, TypeOK
<1>5. CASE Tick
  <2>1. now' \in Nat /\ 0..now \subseteq 0..now'
    BY <1>5, <1>f DEF Tick
  <2>2. QED
    BY <1>5, <2>1, <1>f DEF Tick, limits, window, TypeOK
<1>6. CASE OpenWindow
  BY <1>6, <1>f DEF OpenWindow, limits, TypeOK
<1>7. CASE UNCHANGED vars
  BY <1>7, <1>f DEF vars, limits, window, TypeOK
<1>8. QED
  BY <1>1, <1>2, <1>3, <1>4, <1>5, <1>6, <1>7 DEF Next

\* The state stays well-formed for any number of addresses and requests.
THEOREM TypeCorrect == Spec => []TypeOK
<1>1. Init => TypeOK
  BY DEF Init, TypeOK
<1>2. QED
  BY <1>1, TypeStep, PTL DEF Spec

-----------------------------------------------------------------------------
(* The bound. The inductive invariant is RateInv: every request that is about *)
(* to use a bucket uses the one in the map, and the bucket and what its       *)
(* address has spent add up. An entry is removed only when its last Allow is  *)
(* so long ago that its bucket is full: a new one is worth no more.           *)

\* Asking for a bucket spends nothing, and a new one is paid for by the window.
LEMMA GetStep ==
    ASSUME TypeOK, RateInv, NEW r \in Requests, NEW a \in Ips, GetLimiter(r, a)
    PROVE  RateInv'
<1>f. /\ now \in Nat /\ since \in 0..now
      /\ clients \in [Ips -> Buckets \union {NoBucket}]
      /\ lastSeen \in [Ips -> 0..now]
      /\ level \in [Buckets -> 0..Capacity]
      /\ filled \in [Buckets -> 0..now]
      /\ held \in [Requests -> Buckets \union {NoBucket}]
      /\ heldAt \in [Requests -> 0..now]
      /\ ip \in [Requests -> Ips]
      /\ spent \in [Ips -> Nat]
  BY DEF TypeOK
<1>i. HeldIsCurrent /\ BucketsApart /\ \A c \in Ips : Budget(c)
  BY DEF RateInv
<1>1. /\ lastSeen' = [lastSeen EXCEPT ![a] = now]
      /\ heldAt' = [heldAt EXCEPT ![r] = now]
      /\ ip' = [ip EXCEPT ![r] = a]
      /\ now' = now /\ since' = since /\ spent' = spent
      /\ held[r] = NoBucket
  BY DEF GetLimiter, window
<1>2. CASE /\ clients[a] # NoBucket
           /\ held' = [held EXCEPT ![r] = clients[a]]
           /\ UNCHANGED <<clients, level, filled>>
  <2>1. HeldIsCurrent'
    BY <1>f, <1>i, <1>1, <1>2 DEF HeldIsCurrent
  <2>2. BucketsApart'
    BY <1>i, <1>2 DEF BucketsApart
  <2>3. ASSUME NEW c \in Ips PROVE Budget(c)'
    <3>1. lastSeen'[c] >= lastSeen[c]
      BY <1>f, <1>1
    <3>2. clients[c] # NoBucket => clients[c] \in Buckets
      BY <1>f
    <3>3. clients[c] # NoBucket => Avail(clients[c])' = Avail(clients[c])
      BY <1>1, <1>2 DEF Avail
    <3>4. QED
      BY <3>1, <3>2, <3>3, <1>f, <1>i, <1>1, <1>2 DEF Budget
  <2>4. QED
    BY <2>1, <2>2, <2>3 DEF RateInv
<1>3. ASSUME NEW b \in Free, clients[a] = NoBucket,
             clients' = [clients EXCEPT ![a] = b],
             level' = [level EXCEPT ![b] = Capacity],
             filled' = [filled EXCEPT ![b] = now],
             held' = [held EXCEPT ![r] = b]
      PROVE  RateInv'
  <2>0. /\ b \in Buckets /\ b # NoBucket
        /\ \A c \in Ips : clients[c] # b
        /\ \A q \in Requests : held[q] # b
    BY DEF Free
  <2>1. HeldIsCurrent'
    BY <1>f, <1>i, <1>1, <1>3, <2>0 DEF HeldIsCurrent
  <2>2. BucketsApart'
    BY <1>f, <1>i, <1>3, <2>0 DEF BucketsApart
  <2>3. Budget(a)'
    <3>1. clients'[a] = b /\ filled'[b] = now /\ lastSeen'[a] = now /\ level'[b] = Capacity
      BY <1>f, <1>1, <1>3, <2>0
    <3>2. Avail(b)' = Capacity
      BY <3>1, <1>1, <1>f DEF Avail
    <3>3. spent[a] =< now - since
      BY <1>i, <1>3 DEF Budget
    <3>4. QED
      BY <3>1, <3>2, <3>3, <2>0, <1>f, <1>1 DEF Budget
  <2>4. ASSUME NEW c \in Ips \ {a} PROVE Budget(c)'
    <3>1. clients'[c] = clients[c] /\ lastSeen'[c] = lastSeen[c]
      BY <1>f, <1>1, <1>3
    <3>2. clients[c] # NoBucket => /\ filled'[clients[c]] = filled[clients[c]]
                                   /\ level'[clients[c]] = level[clients[c]]
      BY <1>f, <1>3, <2>0
    <3>3. clients[c] # NoBucket => Avail(clients[c])' = Avail(clients[c])
      BY <3>1, <3>2, <1>1 DEF Avail
    <3>4. QED
      BY <3>1, <3>2, <3>3, <1>i, <1>1 DEF Budget
  <2>5. QED
    BY <2>1, <2>2, <2>3, <2>4 DEF RateInv
<1>4. QED
  BY <1>2, <1>3 DEF GetLimiter

\* An admitted request takes from the bucket in the map what it spends.
LEMMA AdmitStep ==
    ASSUME TypeOK, RateInv, NEW r \in Requests, Admit(r)
    PROVE  RateInv'
<1>f. /\ now \in Nat /\ since \in 0..now
      /\ clients \in [Ips -> Buckets \union {NoBucket}]
      /\ lastSeen \in [Ips -> 0..now]
      /\ level \in [Buckets -> 0..Capacity]
      /\ filled \in [Buckets -> 0..now]
      /\ held \in [Requests -> Buckets \union {NoBucket}]
      /\ heldAt \in [Requests -> 0..now]
      /\ ip \in [Requests -> Ips]
      /\ spent \in [Ips -> Nat]
  BY DEF TypeOK
<1>i. HeldIsCurrent /\ BucketsApart /\ \A c \in Ips : Budget(c)
  BY DEF RateInv
<1>0. held[r] \in Buckets /\ ip[r] \in Ips
  BY <1>f DEF Admit
<1>b. PICK b \in Buckets : b = held[r]
  BY <1>0
<1>a. PICK a \in Ips : a = ip[r]
  BY <1>0
<1>1. /\ b # NoBucket /\ clients[a] = b
      /\ heldAt[r] =< lastSeen[a] /\ now =< heldAt[r] + MaxStall
  BY <1>a, <1>b, <1>i DEF Admit, HeldIsCurrent
<1>2. /\ level' = [level EXCEPT ![b] = Avail(b) - Cost]
      /\ filled' = [filled EXCEPT ![b] = now]
      /\ spent' = [spent EXCEPT ![a] = @ + Cost]
      /\ held' = [held EXCEPT ![r] = NoBucket]
      /\ heldAt' = [heldAt EXCEPT ![r] = 0]
      /\ UNCHANGED <<now, clients, lastSeen, ip, since>>
      /\ Avail(b) >= Cost
  BY <1>a, <1>b DEF Admit, Release
<1>3. HeldIsCurrent'
  BY <1>f, <1>i, <1>2 DEF HeldIsCurrent
<1>4. BucketsApart'
  BY <1>i, <1>2 DEF BucketsApart
<1>5. Budget(a)'
  <2>1. Avail(b) \in 0..Capacity
    BY <1>1, AvailType
  <2>2. filled'[b] = now /\ level'[b] = Avail(b) - Cost /\ spent'[a] = spent[a] + Cost
    BY <1>1, <1>2, <1>f
  <2>3. Avail(b)' = Avail(b) - Cost
    BY <2>1, <2>2, <1>2, <1>f DEF Avail
  <2>4. spent[a] + Avail(b) =< Capacity + (now - since)
    BY <1>1, <1>i DEF Budget
  <2>5. now =< lastSeen[a] + MaxStall
    BY <1>1, <1>f
  <2>6. QED
    BY <2>1, <2>2, <2>3, <2>4, <2>5, <1>1, <1>2, <1>f DEF Budget
<1>6. ASSUME NEW c \in Ips \ {a} PROVE Budget(c)'
  <2>1. clients[c] # NoBucket => clients[c] # b
    BY <1>1, <1>i DEF BucketsApart
  <2>2. spent'[c] = spent[c]
    BY <1>2, <1>f
  <2>3. clients[c] # NoBucket => /\ filled'[clients[c]] = filled[clients[c]]
                                 /\ level'[clients[c]] = level[clients[c]]
    BY <2>1, <1>2, <1>f
  <2>4. clients[c] # NoBucket => Avail(clients[c])' = Avail(clients[c])
    BY <2>3, <1>2 DEF Avail
  <2>5. QED
    BY <2>2, <2>3, <2>4, <1>i, <1>2 DEF Budget
<1>7. QED
  BY <1>3, <1>4, <1>5, <1>6 DEF RateInv

\* The cleanup finds an entry old only after its bucket has filled up again.
LEMMA CleanupStep ==
    ASSUME TypeOK, RateInv, Cleanup
    PROVE  RateInv'
<1>f. /\ now \in Nat /\ since \in 0..now
      /\ clients \in [Ips -> Buckets \union {NoBucket}]
      /\ lastSeen \in [Ips -> 0..now]
      /\ level \in [Buckets -> 0..Capacity]
      /\ filled \in [Buckets -> 0..now]
      /\ heldAt \in [Requests -> 0..now]
      /\ ip \in [Requests -> Ips]
      /\ spent \in [Ips -> Nat]
  BY DEF TypeOK
<1>i. HeldIsCurrent /\ BucketsApart /\ \A c \in Ips : Budget(c)
  BY DEF RateInv
<1>1. /\ clients' = [a \in Ips |-> IF now - lastSeen[a] > Interval
                                   THEN NoBucket ELSE clients[a]]
      /\ UNCHANGED <<now, lastSeen, level, filled, held, heldAt, ip, since, spent>>
  BY DEF Cleanup, window
<1>2. HeldIsCurrent'
  <2> SUFFICES ASSUME NEW q \in Requests, held[q] # NoBucket
               PROVE  clients'[ip[q]] = clients[ip[q]]
    BY <1>i, <1>1 DEF HeldIsCurrent
  <2>1. heldAt[q] =< lastSeen[ip[q]] /\ now =< heldAt[q] + MaxStall /\ ip[q] \in Ips
    BY <1>i, <1>f DEF HeldIsCurrent
  <2>2. QED
    BY <2>1, <1>1, <1>f
<1>3. BucketsApart'
  BY <1>i, <1>1 DEF BucketsApart
<1>4. ASSUME NEW c \in Ips PROVE Budget(c)'
  <2>1. CASE clients[c] = NoBucket \/ ~(now - lastSeen[c] > Interval)
    <3>1. clients'[c] = clients[c]
      BY <2>1, <1>1
    <3>2. clients[c] # NoBucket => Avail(clients[c])' = Avail(clients[c])
      BY <1>1, <3>1 DEF Avail
    <3>3. QED
      BY <3>1, <3>2, <1>i, <1>1 DEF Budget
  <2>2. CASE clients[c] # NoBucket /\ now - lastSeen[c] > Interval
    <3>1. clients[c] \in Buckets /\ filled[clients[c]] =< lastSeen[c] + MaxStall
      BY <2>2, <1>i, <1>f DEF Budget
    <3>2. now - filled[clients[c]] >= Capacity
      BY <3>1, <2>2, <1>f
    <3>3. Avail(clients[c]) = Capacity
      BY <3>1, <3>2, <1>f DEF Avail
    <3>4. spent[c] =< now - since
      BY <3>3, <2>2, <1>i, <1>f DEF Budget
    <3>5. clients'[c] = NoBucket
      BY <2>2, <1>1
    <3>6. QED
      BY <3>4, <3>5, <1>1 DEF Budget
  <2>3. QED
    BY <2>1, <2>2
<1>5. QED
  BY <1>2, <1>3, <1>4 DEF RateInv

\* Waiting refills a bucket by no more than it lengthens the window.
LEMMA TickStep ==
    ASSUME TypeOK, RateInv, Tick
    PROVE  RateInv'
<1>f. /\ now \in Nat /\ since \in 0..now
      /\ clients \in [Ips -> Buckets \union {NoBucket}]
      /\ heldAt \in [Requests -> 0..now]
      /\ spent \in [Ips -> Nat]
  BY DEF TypeOK
<1>i. HeldIsCurrent /\ BucketsApart /\ \A c \in Ips : Budget(c)
  BY DEF RateInv
<1>1. /\ now' = now + 1
      /\ \A r \in Requests : held[r] # NoBucket => now < heldAt[r] + MaxStall
      /\ UNCHANGED <<clients, lastSeen, level, filled, held, heldAt, ip, since, spent>>
  BY DEF Tick, limits, window
<1>2. HeldIsCurrent'
  BY <1>f, <1>i, <1>1 DEF HeldIsCurrent
<1>3. BucketsApart'
  BY <1>i, <1>1 DEF BucketsApart
<1>4. ASSUME NEW c \in Ips PROVE Budget(c)'
  <2>1. CASE clients[c] # NoBucket
    <3>1. clients[c] \in Buckets
      BY <2>1, <1>f
    <3>2. Avail(clients[c])' =< Avail(clients[c]) + 1
      <4>1. level'[clients[c]] = level[clients[c]] /\ filled'[clients[c]] = filled[clients[c]]
        BY <1>1
      <4>2. \A b \in Buckets : b = clients[c] => Avail(b)' =< Avail(b) + 1
        BY <1>1, <4>1, AvailGrows
      <4>3. clients'[c] = clients[c]
        BY <1>1
      <4>4. QED
        BY <3>1, <4>2, <4>3
    <3>3. Avail(clients[c]) \in 0..Capacity /\ Avail(clients[c])' \in Int
      <4>1. Avail(clients[c]) \in 0..Capacity
        BY <3>1, AvailType
      <4>2. /\ level[clients[c]] \in 0..Capacity /\ filled[clients[c]] \in 0..now
            /\ level'[clients'[c]] = level[clients[c]]
            /\ filled'[clients'[c]] = filled[clients[c]]
        BY <3>1, <1>1 DEF TypeOK
      <4>3. QED
        BY <4>1, <4>2, <1>1, <1>f DEF Avail
    <3>4. /\ spent[c] + Avail(clients[c]) =< Capacity + (now - since)
          /\ filled[clients[c]] =< lastSeen[c] + MaxStall
      BY <2>1, <1>i DEF Budget
    <3>5. spent[c] + Avail(clients[c])' =< Capacity + ((now + 1) - since)
      BY <3>2, <3>3, <3>4, <1>f
    <3>6. QED
      BY <2>1, <3>4, <3>5, <1>1 DEF Budget
  <2>2. CASE clients[c] = NoBucket
    BY <2>2, <1>i, <1>1, <1>f DEF Budget
  <2>3. QED
    BY <2>1, <2>2
<1>5. QED
  BY <1>2, <1>3, <1>4 DEF RateInv

\* A window may be opened at any moment: no bucket holds more than a burst.
LEMMA WindowStep ==
    ASSUME TypeOK, RateInv, OpenWindow
    PROVE  RateInv'
<1>f. /\ now \in Nat /\ clients \in [Ips -> Buckets \union {NoBucket}]
  BY DEF TypeOK
<1>i. HeldIsCurrent /\ BucketsApart /\ \A c \in Ips : Budget(c)
  BY DEF RateInv
<1>1. /\ since' = now /\ spent' = [a \in Ips |-> 0]
      /\ UNCHANGED <<now, clients, lastSeen, level, filled, held, heldAt, ip>>
  BY DEF OpenWindow, limits
<1>2. HeldIsCurrent' /\ BucketsApart'
  BY <1>i, <1>1 DEF HeldIsCurrent, BucketsApart
<1>3. ASSUME NEW c \in Ips PROVE Budget(c)'
  <2>1. clients[c] # NoBucket => Avail(clients[c]) \in 0..Capacity
    BY <1>f, AvailType
  <2>2. clients[c] # NoBucket => Avail(clients[c])' = Avail(clients[c])
    BY <1>1 DEF Avail
  <2>3. spent'[c] = 0
    BY <1>1
  <2>4. QED
    BY <2>1, <2>2, <2>3, <1>f, <1>i, <1>1 DEF Budget
<1>4. QED
  BY <1>2, <1>3 DEF RateInv

\* However requests of one address race with each other and with the cleanup,
\* they are admitted at most a burst and the rate times the time, in any window.
THEOREM RateLimited == Spec => []RateBound
<1>1. Init => RateInv
  BY DEF Init, RateInv, HeldIsCurrent, BucketsApart, Budget
<1>2. TypeOK /\ RateInv /\ [Next]_vars => RateInv'
  <2> SUFFICES ASSUME TypeOK, RateInv, [Next]_vars PROVE RateInv'
    OBVIOUS
  <2>1. ASSUME NEW r \in Requests, Reject(r) PROVE RateInv'
    <3>1. /\ \A q \in Requests : held'[q] # NoBucket =>
                 held'[q] = held[q] /\ heldAt'[q] = heldAt[q]
          /\ UNCHANGED <<now, clients, lastSeen, level, filled, ip, since, spent>>
      BY <2>1 DEF Reject, Release, limits, window, TypeOK
    <3>2. HeldIsCurrent' /\ BucketsApart'
      BY <3>1 DEF RateInv, HeldIsCurrent, BucketsApart
    <3>3. \A c \in Ips : Budget(c)'
      BY <3>1 DEF RateInv, Budget, Avail
    <3>4. QED
      BY <3>2, <3>3 DEF RateInv
  <2>2. CASE UNCHANGED vars
    BY <2>2 DEF vars, limits, window, RateInv, HeldIsCurrent, BucketsApart, Budget, Avail
  <2>3. QED
    BY <2>1, <2>2, GetStep, AdmitStep, CleanupStep, TickStep, WindowStep DEF Next
<1>3. TypeOK /\ RateInv => RateBound
  <2> SUFFICES ASSUME TypeOK, RateInv, NEW a \in Ips
               PROVE  spent[a] =< Capacity + (now - since)
    BY DEF RateBound
  <2>1. CASE clients[a] = NoBucket
    BY <2>1 DEF RateInv, Budget, TypeOK
  <2>2. CASE clients[a] # NoBucket
    <3>1. Avail(clients[a]) \in 0..Capacity
      BY <2>2, AvailType DEF TypeOK
    <3>2. QED
      BY <2>2, <3>1 DEF RateInv, Budget, TypeOK
  <2>3. QED
    BY <2>1, <2>2
<1>4. QED
  BY <1>1, <1>2, <1>3, TypeCorrect, PTL DEF Spec
=============================================================================
