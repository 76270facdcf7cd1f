----------------------------- MODULE RateLimiter -----------------------------
(***************************************************************************)
(* The rate limiter per client address (middleware/ratelimit.go): a map of *)
(* token buckets under a mutex, a bucket that is used after the mutex was  *)
(* released, and the goroutine that removes entries nobody asked for in a  *)
(* while. The buckets are those of golang.org/x/time/rate. Tokens are      *)
(* measured by the time their refill takes: a request costs Cost ticks,    *)
(* and a full bucket holds Capacity ticks.                                 *)
(***************************************************************************)
EXTENDS Integers

CONSTANTS
    Requests,       \* BOUND: goroutines that serve requests, one after another
    Ips,            \* client addresses
    Buckets,        \* BOUND: rate.Limiter objects alive at a time
    NoBucket,
    Cost,           \* ticks until one token is refilled: 1 / RATE_LIMIT_RPS
    Capacity,       \* RATE_LIMIT_BURST times Cost
    Interval,       \* the 3 minutes of cleanupStaleClients
    MaxStall,       \* what may pass between getLimiter and Allow of a request
    MaxTime         \* BOUND: the clock

\* An idle bucket is full again before its entry is old enough to be removed,
\* even when its last Allow was late. With the default 40 requests at 20 per second it
\* takes 2 s, with a low rate and a high burst it may take longer than Interval.
ASSUME LimiterAssumption ==
    /\ {Cost, Capacity, Interval, MaxStall, MaxTime} \subseteq Nat
    /\ MaxStall + Capacity =< Interval
    /\ NoBucket \notin Buckets

VARIABLES
    now,
    clients,    \* the map: a bucket per address, or NoBucket
    lastSeen,   \* the time of the last getLimiter of an address
    level,      \* what is in a bucket ...
    filled,     \* ... and when that was computed (rate.Limiter's last)
    held,       \* the variable limiter of each request
    heldAt,     \* when the request got it, 0 if it has none
    ip,         \* the address of each request
    sweep,      \* when the ticker of the cleanup fires next
    since,      \* history: the beginning of the window that is observed
    spent       \* history: tokens spent by an address in the window, in ticks

limits == <<clients, lastSeen, level, filled>>
window == <<since, spent>>
vars   == <<now, limits, held, heldAt, ip, sweep, window>>

\* What the bucket holds by now.
Avail(b) ==
    LET refilled == level[b] + (now - filled[b]) IN
    IF refilled > Capacity THEN Capacity ELSE refilled

\* Neither in the map nor in use: garbage.
Free == {b \in Buckets : /\ \A a \in Ips : clients[a] # b
                         /\ \A r \in Requests : held[r] # b}

Init ==
    /\ now = 0 /\ since = 0 /\ sweep = Interval
    /\ clients = [a \in Ips |-> NoBucket]
    /\ lastSeen = [a \in Ips |-> 0]
    /\ level = [b \in Buckets |-> 0]
    /\ filled = [b \in Buckets |-> 0]
    /\ held = [r \in Requests |-> NoBucket]
    /\ heldAt = [r \in Requests |-> 0]
    /\ ip \in [Requests -> Ips]
    /\ spent = [a \in Ips |-> 0]

-----------------------------------------------------------------------------
\* [mutant of GetLimiter] lastSeen is not refreshed.
GetLimiterUnseen(r, a) ==
    /\ held[r] = NoBucket
    /\ \/ /\ clients[a] # NoBucket
          /\ held' = [held EXCEPT ![r] = clients[a]]
          /\ UNCHANGED <<limits>>
       \/ /\ clients[a] = NoBucket
          /\ \E b \in Free :
                /\ clients' = [clients EXCEPT ![a] = b]
                /\ level' = [level EXCEPT ![b] = Capacity]
                /\ filled' = [filled EXCEPT ![b] = now]
                /\ held' = [held EXCEPT ![r] = b]
          /\ lastSeen' = [lastSeen EXCEPT ![a] = now]
    /\ heldAt' = [heldAt EXCEPT ![r] = now]
    /\ ip' = [ip EXCEPT ![r] = a]
    /\ UNCHANGED <<now, sweep, window>>

\* getLimiter, under the mutex: the entry of the address, or a full new bucket.
GetLimiter(r, a) ==
    /\ held[r] = NoBucket
    /\ \/ /\ clients[a] # NoBucket
          /\ held' = [held EXCEPT ![r] = clients[a]]
          /\ UNCHANGED <<clients, level, filled>>
       \/ /\ clients[a] = NoBucket
          /\ \E b \in Free :
                /\ clients' = [clients EXCEPT ![a] = b]
                /\ level' = [level EXCEPT ![b] = Capacity]
                /\ filled' = [filled EXCEPT ![b] = now]
                /\ held' = [held EXCEPT ![r] = b]
    /\ lastSeen' = [lastSeen EXCEPT ![a] = now]
    /\ heldAt' = [heldAt EXCEPT ![r] = now]
    /\ ip' = [ip EXCEPT ![r] = a]
    /\ UNCHANGED <<now, sweep, window>>

Release(r) ==
    /\ held' = [held EXCEPT ![r] = NoBucket]
    /\ heldAt' = [heldAt EXCEPT ![r] = 0]

\* limiter.Allow(), without the mutex, on whatever bucket the request got.
Admit(r) ==
    LET b == held[r] IN
    /\ b # NoBucket /\ Avail(b) >= Cost
    /\ level' = [level EXCEPT ![b] = Avail(b) - Cost]
    /\ filled' = [filled EXCEPT ![b] = now]
    /\ spent' = [spent EXCEPT ![ip[r]] = @ + Cost]
    /\ Release(r)
    /\ UNCHANGED <<now, clients, lastSeen, ip, sweep, since>>

Reject(r) ==
    /\ held[r] # NoBucket /\ Avail(held[r]) < Cost
    /\ Release(r)
    /\ UNCHANGED <<now, limits, ip, sweep, window>>

\* The ticker fires, and entries older than the interval are deleted, under the
\* mutex. A request may still hold the bucket of a deleted entry.
Cleanup ==
    /\ now >= sweep
    /\ sweep' = sweep + Interval
    /\ clients' = [a \in Ips |-> IF now - lastSeen[a] > Interval
                                 THEN NoBucket ELSE clients[a]]
    /\ UNCHANGED <<now, lastSeen, level, filled, held, heldAt, ip, window>>

\* A request that is between getLimiter and Allow is not stalled for longer
\* than MaxStall.
Tick ==
    /\ now < MaxTime
    /\ \A r \in Requests : held[r] # NoBucket => now < heldAt[r] + MaxStall
    /\ now' = now + 1
    /\ UNCHANGED <<limits, held, heldAt, ip, sweep, window>>

\* Somebody begins to count.
OpenWindow ==
    /\ since' = now
    /\ spent' = [a \in Ips |-> 0]
    /\ UNCHANGED <<now, limits, held, heldAt, ip, sweep>>

Next ==
    \/ \E r \in Requests : \/ \E a \in Ips : GetLimiter(r, a)
                           \/ Admit(r) \/ Reject(r)
    \/ Cleanup \/ Tick \/ OpenWindow

Spec == Init /\ [][Next]_vars

-----------------------------------------------------------------------------
\* The state is well-formed.
TypeOK ==
    /\ now \in Nat /\ since \in 0..now /\ sweep \in Nat
    /\ clients \in [Ips -> Buckets \union {NoBucket}]
    /\ lastSeen \in [Ips -> 0..now]
    /\ level \in [Buckets -> 0..Capacity]
    /\ filled \in [Buckets -> 0..now]
    /\ held \in [Requests -> Buckets \union {NoBucket}]
    /\ heldAt \in [Requests -> 0..now]
    /\ ip \in [Requests -> Ips]
    /\ spent \in [Ips -> Nat]

\* "Token-bucket algorithm per client IP": in any window of time an address is
\* admitted no more than a burst and what the rate gives for the window, also
\* when its entry is removed and made anew in the middle of it.
RateBound == \A a \in Ips : spent[a] =< Capacity + (now - since)

\* A request uses the bucket the map has for its address, however the cleanup
\* runs in between; an orphaned bucket would admit beside the new one.
HeldIsCurrent ==
    \A r \in Requests : held[r] # NoBucket =>
        /\ clients[ip[r]] = held[r]
        /\ heldAt[r] =< lastSeen[ip[r]]
        /\ now =< heldAt[r] + MaxStall

\* No two addresses share a bucket.
BucketsApart ==
    \A a, b \in Ips : clients[a] = clients[b] => a = b \/ clients[a] = NoBucket

\* What is in the bucket of an address and what the address has spent add up to no
\* more than a burst and the refill of the window.
Budget(a) ==
    /\ clients[a] # NoBucket =>
          /\ filled[clients[a]] =< lastSeen[a] + MaxStall
          /\ spent[a] + Avail(clients[a]) =< Capacity + (now - since)
    /\ clients[a] = NoBucket => spent[a] =< now - since

RateInv == HeldIsCurrent /\ BucketsApart /\ \A a \in Ips : Budget(a)
=============================================================================
