-------------------------- MODULE UserServiceProofs --------------------------
(***************************************************************************)
(* Proofs about UserService: its types, the uniqueness of emails, that a   *)
(* stale cached profile always has one of the known causes, and that it    *)
(* implements UserDirectory.                                               *)
(***************************************************************************)
EXTENDS UserService, TLAPS

USE DEF At, GoTo, Respond, NoUser, NoArgs, User, Request, Calls, Exists, CallOK

-----------------------------------------------------------------------------
(* Types *)

\* A registration, and what is sent with a request, are well-formed: every
\* action of a request keeps the state well-formed.
LEMMA TypeStep == TypeOK /\ [Next]_vars => TypeOK'
<1> SUFFICES ASSUME TypeOK, [Next]_vars PROVE TypeOK'
  OBVIOUS
<1> USE UserAssumption DEF TypeOK
<1>1. ASSUME NEW r \in Requests, Arrive(r) PROVE TypeOK'
  <2>1. ASSUME NEW email \in Emails, NEW name \in Names, RegisterCheck(r, email, name)
        PROVE TypeOK'
    BY <2>1 DEF RegisterCheck, Fault, history
  <2>2. ASSUME NEW id \in Ids, CacheHit(r, id) PROVE TypeOK'
    BY <2>2 DEF CacheHit, history
  <2>3. ASSUME NEW id \in Ids, CacheMiss(r, id) PROVE TypeOK'
    BY <2>3 DEF CacheMiss, Fault, history
  <2>4. ASSUME NEW id \in Ids, DeleteUser(r, id) PROVE TypeOK'
    <3>1. users' \in [Ids -> User \union {NoUser}] /\ deleted' \subseteq Ids
      <4>1. users \in [Ids -> User \union {NoUser}] /\ deleted \subseteq Ids
        OBVIOUS
      <4>2. \/ UNCHANGED <<users, deleted>>
            \/ users' = [users EXCEPT ![id] = NoUser] /\ deleted' = deleted \union {id}
        BY <2>4 DEF DeleteUser, history
      <4> HIDE DEF TypeOK, User, NoUser
      <4>3. QED
        BY <4>1, <4>2
    <3>2. suspect' \subseteq Ids
      BY <2>4 DEF DeleteUser, Suspect, history
    <3>3. /\ req' \in [Requests -> Request]
          /\ req'[r].id = id
          /\ \A q \in Requests \ {r} : req'[q] = req[q]
      <4>1. req' = [req EXCEPT ![r] = [NoArgs EXCEPT !.id = id]]
        BY <2>4 DEF DeleteUser
      <4>2. [NoArgs EXCEPT !.id = id] \in Request /\ [NoArgs EXCEPT !.id = id].id = id
        OBVIOUS
      <4>3. req \in [Requests -> Request]
        OBVIOUS
      <4>4. QED
        BY <4>1, <4>2, <4>3, Zenon
    <3>4. /\ pc' \in [Requests -> {"new", "done"} \union Calls]
          /\ pc'[r] \in {"flushing", "done"}
          /\ \A q \in Requests \ {r} : pc'[q] = pc[q]
      BY <2>4 DEF DeleteUser
    <3>5. UNCHANGED <<cache, copy, welcomed, faults>>
      BY <2>4 DEF DeleteUser
    <3>6. \A q \in Requests : CallOK(q)'
      BY <3>3, <3>4, <3>5 DEF CallOK
    <3>7. QED
      BY <3>1, <3>2, <3>3, <3>4, <3>5, <3>6
  <2>5. ASSUME NEW id \in Ids, NEW email \in Emails \union {None},
               NEW name \in Names \union {None}, UpdateFind(r, id, email, name)
        PROVE TypeOK'
    <3>1. Exists(id) => Merged(users[id], email, name) \in User
      BY DEF Merged
    <3>2. QED
      BY <2>5, <3>1 DEF UpdateFind, history
  <2>6. QED
    BY <1>1, <2>1, <2>2, <2>3, <2>4, <2>5 DEF Arrive
<1>2. ASSUME NEW r \in Requests, Continue(r) PROVE TypeOK'
  <2>1. CASE CreateUser(r)
    BY <2>1 DEF CreateUser, history
  <2>2. CASE CreateUserFails(r)
    BY <2>2 DEF CreateUserFails, Fault, history
  <2>3. CASE DispatchWelcome(r)
    BY <2>3 DEF DispatchWelcome, Fault, history
  <2>4. CASE FindUser(r)
    <3>1. req[r].id \in Ids /\ users[req[r].id] \in User \union {NoUser}
      BY <2>4 DEF FindUser
    <3>2. /\ copy' \in [Requests -> User \union {NoUser}]
          /\ pc' \in [Requests -> {"new", "done"} \union Calls]
      BY <2>4, <3>1 DEF FindUser
    <3>3. UNCHANGED <<users, cache, req, welcomed, history, faults>>
      BY <2>4 DEF FindUser
    <3>4. \A q \in Requests : CallOK(q)'
      BY <2>4, <3>1, <3>3 DEF FindUser
    <3>5. QED
      BY <3>2, <3>3, <3>4 DEF history
  <2>5. CASE FillCache(r)
    BY <2>5 DEF FillCache, Fault, history
  <2>6. CASE UpdateCheck(r)
    BY <2>6 DEF UpdateCheck, Fault, history
  <2>7. CASE SaveUser(r)
    BY <2>7 DEF SaveUser, Suspect
  <2>8. CASE SaveUserFails(r)
    BY <2>8 DEF SaveUserFails, Fault, history
  <2>9. CASE FlushCache(r)
    BY <2>9 DEF FlushCache, Clear
  <2>10. CASE FlushLost(r)
    BY <2>10 DEF FlushLost, Fault
  <2>11. QED
    BY <1>2, <2>1, <2>2, <2>3, <2>4, <2>5, <2>6, <2>7, <2>8, <2>9, <2>10 DEF Continue
<1>3. ASSUME NEW r \in Requests, Cut(r) PROVE TypeOK'
  BY <1>3 DEF Cut, Fault
<1>4. ASSUME NEW id \in Ids, Expire(id) PROVE TypeOK'
  BY <1>4 DEF Expire, Clear, local
<1>5. CASE UNCHANGED vars
  BY <1>5 DEF vars, local, history
<1>6. QED
  BY <1>1, <1>2, <1>3, <1>4, <1>5 DEF Next

\* The state stays well-formed for any number of requests, users and faults.
THEOREM TypeCorrect == Spec => []TypeOK
<1>1. Init => TypeOK
  BY UserAssumption DEF Init, TypeOK
<1>2. QED
  BY <1>1, TypeStep, PTL DEF Spec

-----------------------------------------------------------------------------
(* Emails *)

\* Whatever two requests check, in whatever order, no two rows have one email.
THEOREM UniqueEmails == Spec => []EmailsUnique
<1>1. Init => EmailsUnique
  BY DEF Init
<1>2. TypeOK /\ EmailsUnique /\ [Next]_vars => EmailsUnique'
  <2> SUFFICES ASSUME TypeOK, EmailsUnique, [Next]_vars PROVE EmailsUnique'
    OBVIOUS
  <2> USE UserAssumption DEF EmailsUnique, TypeOK
  <2>1. ASSUME NEW r \in Requests, CreateUser(r) PROVE EmailsUnique'
    BY <2>1 DEF CreateUser, Taken
  <2>2. ASSUME NEW r \in Requests, SaveUser(r) PROVE EmailsUnique'
    BY <2>2 DEF SaveUser, TakenByOther
  <2>3. ASSUME NEW r \in Requests, NEW id \in Ids, DeleteUser(r, id) PROVE EmailsUnique'
    BY <2>3 DEF DeleteUser
  <2>4. CASE UNCHANGED users
    BY <2>4
  <2>5. QED
    BY <2>1, <2>2, <2>3, <2>4
    DEF Next, Arrive, Continue, RegisterCheck, CacheHit, CacheMiss, UpdateFind,
        CreateUserFails, DispatchWelcome, FindUser, FillCache, UpdateCheck,
        SaveUserFails, FlushCache, FlushLost, Cut, Expire, vars
<1>3. QED
  BY <1>1, <1>2, TypeCorrect, PTL DEF Spec

-----------------------------------------------------------------------------
(* Staleness. The inductive invariant is CacheInv: what is stale is about to  *)
(* be flushed or suspect, what is about to be cached is current or suspect,   *)
(* and a UUID that was not handed out is unknown to the cache.                *)

\* A write to the row of id keeps both parts: the writer has still to flush,
\* and whoever is filling makes the row suspect.
LEMMA WriteStep ==
    ASSUME TypeOK, Explained, NEW r \in Requests, NEW id \in Ids, NEW row \in User \union {NoUser},
           users' = [users EXCEPT ![id] = row],
           Suspect(id), At(r, "flushing")', req'[r].id = id,
           \A q \in Requests \ {r} : pc'[q] = pc[q] /\ req'[q] = req[q] /\ copy'[q] = copy[q],
           ~At(r, "flushing"), ~At(r, "filling"),
           UNCHANGED cache
    PROVE  Explained'
<1> USE DEF TypeOK
<1>1. StalenessExplained'
  <2> SUFFICES ASSUME NEW i \in Ids, Stale(i)' PROVE BeingFlushed(i)' \/ i \in suspect'
    BY DEF StalenessExplained
  <2>1. CASE i = id
    BY <2>1 DEF BeingFlushed
  <2>2. CASE i # id
    <3>1. Stale(i)
      BY <2>2 DEF Stale
    <3>2. CASE i \in suspect
      BY <3>2 DEF Suspect
    <3>3. CASE BeingFlushed(i)
      BY <3>3 DEF BeingFlushed
    <3>4. QED
      BY <3>1, <3>2, <3>3 DEF Explained, StalenessExplained
  <2>3. QED
    BY <2>1, <2>2
<1>2. FillsExplained'
  <2> SUFFICES ASSUME NEW q \in Requests, At(q, "filling")'
               PROVE copy'[q] = users'[req'[q].id] \/ req'[q].id \in suspect'
    BY DEF FillsExplained
  <2>1. q # r /\ At(q, "filling")
    OBVIOUS
  <2>2. CASE req[q].id = id
    BY <2>1, <2>2 DEF Suspect, BeingFilled
  <2>3. CASE req[q].id # id
    BY <2>1, <2>3 DEF Suspect, Explained, FillsExplained
  <2>4. QED
    BY <2>2, <2>3
<1>3. QED
  BY <1>1, <1>2 DEF Explained

\* Removing a key ends its staleness; a fill that is still under way keeps the
\* row suspect.
LEMMA ClearStep ==
    ASSUME TypeOK, Explained, NEW id \in Ids,
           cache' = [cache EXCEPT ![id] = NoUser],
           Clear(id), UNCHANGED <<users, req, copy>>,
           \A q \in Requests : At(q, "filling")' => At(q, "filling"),
           \A q \in Requests : At(q, "flushing") /\ ~At(q, "flushing")' => req[q].id = id
    PROVE  Explained'
<1> USE DEF TypeOK
<1>1. StalenessExplained'
  <2> SUFFICES ASSUME NEW i \in Ids, Stale(i)' PROVE BeingFlushed(i)' \/ i \in suspect'
    BY DEF StalenessExplained
  <2>1. i # id /\ Stale(i)
    BY DEF Stale
  <2>2. CASE i \in suspect
    BY <2>1, <2>2 DEF Clear
  <2>3. CASE BeingFlushed(i)
    BY <2>1, <2>3 DEF BeingFlushed
  <2>4. QED
    BY <2>1, <2>2, <2>3 DEF Explained, StalenessExplained
<1>2. FillsExplained'
  <2> SUFFICES ASSUME NEW q \in Requests, At(q, "filling")'
               PROVE copy'[q] = users'[req'[q].id] \/ req'[q].id \in suspect'
    BY DEF FillsExplained
  <2>1. At(q, "filling")
    OBVIOUS
  <2>2. copy[q] = users[req[q].id] \/ req[q].id \in suspect
    BY <2>1 DEF Explained, FillsExplained
  <2>3. QED
    BY <2>1, <2>2 DEF Clear, BeingFilled
<1>3. QED
  BY <1>1, <1>2 DEF Explained

\* The steps that write neither a row nor a key, and begin no fill.
LEMMA QuietStep ==
    ASSUME TypeOK, Explained, UNCHANGED <<users, cache>>, suspect \subseteq suspect',
           \A q \in Requests : At(q, "filling")' =>
               At(q, "filling") /\ req'[q] = req[q] /\ copy'[q] = copy[q],
           \A q \in Requests : At(q, "flushing") =>
               req[q].id \in suspect' \/ (At(q, "flushing")' /\ req'[q] = req[q])
    PROVE  Explained'
BY DEF Explained, StalenessExplained, FillsExplained, Stale, BeingFlushed, TypeOK

\* No step learns of a UUID before a row has it.
LEMMA FreshStep == TypeOK /\ FreshIdsUnknown /\ [Next]_vars => FreshIdsUnknown'
<1> SUFFICES ASSUME TypeOK, FreshIdsUnknown, [Next]_vars PROVE FreshIdsUnknown'
  OBVIOUS
<1> USE UserAssumption DEF TypeOK, FreshIdsUnknown
<1>1. ASSUME NEW r \in Requests, Arrive(r) PROVE FreshIdsUnknown'
  <2>1. ASSUME NEW email \in Emails, NEW name \in Names, RegisterCheck(r, email, name)
        PROVE FreshIdsUnknown'
    BY <2>1 DEF RegisterCheck, history
  <2>2. ASSUME NEW id \in Ids, CacheHit(r, id) PROVE FreshIdsUnknown'
    BY <2>2 DEF CacheHit, history
  <2>3. ASSUME NEW id \in Ids, CacheMiss(r, id) PROVE FreshIdsUnknown'
    BY <2>3 DEF CacheMiss, history
  <2>4. ASSUME NEW id \in Ids, DeleteUser(r, id) PROVE FreshIdsUnknown'
    BY <2>4 DEF DeleteUser, history
  <2>5. ASSUME NEW id \in Ids, NEW email \in Emails \union {None},
               NEW name \in Names \union {None}, UpdateFind(r, id, email, name)
        PROVE FreshIdsUnknown'
    BY <2>5 DEF UpdateFind, history
  <2>6. QED
    BY <1>1, <2>1, <2>2, <2>3, <2>4, <2>5 DEF Arrive
<1>2. ASSUME NEW r \in Requests, Continue(r) PROVE FreshIdsUnknown'
  <2>1. CASE CreateUser(r)
    BY <2>1 DEF CreateUser, history
  <2>2. CASE FindUser(r)
    BY <2>2 DEF FindUser, history
  <2>3. CASE FillCache(r)
    BY <2>3 DEF FillCache, history
  <2>4. CASE SaveUser(r)
    BY <2>4 DEF SaveUser
  <2>5. CASE FlushCache(r)
    BY <2>5 DEF FlushCache
  <2>6. CASE CreateUserFails(r) \/ DispatchWelcome(r) \/ UpdateCheck(r)
                \/ SaveUserFails(r) \/ FlushLost(r)
    BY <2>6 DEF CreateUserFails, DispatchWelcome, UpdateCheck, SaveUserFails,
                FlushLost, history
  <2>7. QED
    BY <1>2, <2>1, <2>2, <2>3, <2>4, <2>5, <2>6 DEF Continue
<1>3. ASSUME NEW r \in Requests, Cut(r) PROVE FreshIdsUnknown'
  BY <1>3 DEF Cut
<1>4. ASSUME NEW id \in Ids, Expire(id) PROVE FreshIdsUnknown'
  BY <1>4 DEF Expire, local
<1>5. CASE UNCHANGED vars
  BY <1>5 DEF vars, local, history
<1>6. QED
  BY <1>1, <1>2, <1>3, <1>4, <1>5 DEF Next

\* A cached profile is stale only while its writer has still to flush it, after
\* a fill that overlapped a write, or after a lost flush.
THEOREM StaleOnlyIfExplained == Spec => []CacheInv
<1>1. Init => CacheInv
  BY UserAssumption
  DEF Init, CacheInv, TypeOK, Explained, StalenessExplained, FillsExplained, Stale,
      FreshIdsUnknown
<1>2. TypeOK /\ CacheInv /\ [Next]_vars => Explained'
  <2> SUFFICES ASSUME TypeOK, Explained, FreshIdsUnknown, [Next]_vars PROVE Explained'
    BY DEF CacheInv
  <2>1. ASSUME NEW r \in Requests, Arrive(r) PROVE Explained'
    <3>1. ASSUME NEW id \in Ids, DeleteUser(r, id) PROVE Explained'
      <4>1. CASE Exists(id)
        BY <3>1, <4>1, WriteStep DEF DeleteUser, TypeOK
      <4>2. CASE ~Exists(id)
        BY <3>1, <4>2, QuietStep DEF DeleteUser, history, TypeOK
      <4>3. QED
        BY <4>1, <4>2
    <3>2. ASSUME NEW email \in Emails, NEW name \in Names, RegisterCheck(r, email, name)
          PROVE Explained'
      BY <3>2, QuietStep DEF RegisterCheck, history, TypeOK
    <3>3. ASSUME NEW id \in Ids, CacheHit(r, id) PROVE Explained'
      BY <3>3, QuietStep DEF CacheHit, history, TypeOK
    <3>4. ASSUME NEW id \in Ids, CacheMiss(r, id) PROVE Explained'
      BY <3>4, QuietStep DEF CacheMiss, history, TypeOK
    <3>5. ASSUME NEW id \in Ids, NEW email \in Emails \union {None},
                 NEW name \in Names \union {None}, UpdateFind(r, id, email, name)
          PROVE Explained'
      BY <3>5, QuietStep DEF UpdateFind, history, TypeOK
    <3>6. QED
      BY <2>1, <3>1, <3>2, <3>3, <3>4, <3>5 DEF Arrive
  <2>2. ASSUME NEW r \in Requests, Continue(r) PROVE Explained'
    <3>1. CASE CreateUser(r)
      <4>1. PICK id \in Ids \ deleted :
                /\ ~Exists(id)
                /\ users' = [users EXCEPT ![id] =
                                 [email |-> req[r].email, name |-> req[r].name]]
                /\ req' = [req EXCEPT ![r].id = id]
        BY <3>1 DEF CreateUser
      <4>2. \A q \in Requests \ {r} : req'[q] = req[q] /\ pc'[q] = pc[q]
        BY <3>1, <4>1 DEF CreateUser, TypeOK
      <4>3. /\ cache[id] = NoUser
            /\ \A q \in Requests : pc[q] \in {"filling", "flushing"} => req[q].id # id
        BY <4>1 DEF FreshIdsUnknown
      <4>4. /\ UNCHANGED <<cache, suspect, copy>>
            /\ pc[r] = "creating" /\ pc'[r] = "welcoming"
            /\ \A i \in Ids \ {id} : users'[i] = users[i]
        BY <3>1, <4>1 DEF CreateUser, history, TypeOK
      <4>5. StalenessExplained'
        BY <4>2, <4>3, <4>4
        DEF Explained, StalenessExplained, Stale, BeingFlushed, TypeOK
      <4>6. FillsExplained'
        BY <4>2, <4>3, <4>4 DEF Explained, FillsExplained, TypeOK
      <4>7. QED
        BY <4>5, <4>6 DEF Explained
    <3>2. CASE FindUser(r)
      BY <3>2 DEF FindUser, history, TypeOK, Explained, StalenessExplained,
                  FillsExplained, Stale, BeingFlushed
    <3>3. CASE FillCache(r)
      BY <3>3 DEF FillCache, history, TypeOK, Explained, StalenessExplained,
                  FillsExplained, Stale, BeingFlushed
    <3>4. CASE SaveUser(r)
      <4>1. req[r].id \in Ids /\ copy[r] \in User
        BY <3>4 DEF SaveUser, TypeOK
      <4>2. QED
        BY <3>4, <4>1, WriteStep DEF SaveUser, TypeOK
    <3>5. CASE FlushCache(r)
      <4>1. req[r].id \in Ids
        BY <3>5 DEF FlushCache, TypeOK
      <4>2. QED
        BY <3>5, <4>1, ClearStep DEF FlushCache, TypeOK
    <3>6. CASE CreateUserFails(r) \/ DispatchWelcome(r) \/ UpdateCheck(r)
                  \/ SaveUserFails(r) \/ FlushLost(r)
      BY <3>6, QuietStep DEF CreateUserFails, DispatchWelcome, UpdateCheck,
                             SaveUserFails, FlushLost, history, TypeOK
    <3>7. QED
      BY <2>2, <3>1, <3>2, <3>3, <3>4, <3>5, <3>6 DEF Continue
  <2>3. ASSUME NEW r \in Requests, Cut(r) PROVE Explained'
    BY <2>3, QuietStep DEF Cut, TypeOK
  <2>4. ASSUME NEW id \in Ids, Expire(id) PROVE Explained'
    BY <2>4, ClearStep DEF Expire, local
  <2>5. CASE UNCHANGED vars
    BY <2>5, QuietStep DEF vars, local, history
  <2>6. QED
    BY <2>1, <2>2, <2>3, <2>4, <2>5 DEF Next
<1>3. TypeOK /\ CacheInv /\ [Next]_vars => CacheInv'
  BY <1>2, FreshStep, TypeStep DEF CacheInv
<1>4. QED
  BY <1>1, <1>3, TypeCorrect, PTL DEF Spec

-----------------------------------------------------------------------------
(* Refinement. A request that was overtaken is known by its row: the ids of   *)
(* those requests are all that the directory sees of what is in flight.       *)

\* Contested ids other than the one a step is about stay what they were.
LEMMA ElsewhereAsBefore ==
    ASSUME TypeOK, NEW r \in Requests, NEW id \in Ids,
           \A q \in Requests \ {r} : pc'[q] = pc[q] /\ req'[q] = req[q] /\ copy'[q] = copy[q],
           \A k \in Ids \ {id} : users'[k] = users[k],
           Overtaken(r) => req[r].id = id,
           Overtaken(r)' => Overtaken(r) /\ req'[r] = req[r]
    PROVE  /\ Contested' \in {Contested \union {id}, Contested \ {id}}
           /\ \A q \in Requests : Overtaken(q) => req[q].id \in Ids
<1>1. \A q \in Requests : Overtaken(q) => req[q].id \in Ids
  BY DEF Overtaken, TypeOK
<1>2. ASSUME NEW k \in Ids \ {id} PROVE k \in Contested' <=> k \in Contested
  <2>1. ASSUME NEW q \in Requests, Overtaken(q), req[q].id = k
        PROVE  Overtaken(q)' /\ req'[q].id = k
    BY <1>2, <2>1 DEF Overtaken
  <2>2. ASSUME NEW q \in Requests, Overtaken(q)', req'[q].id = k
        PROVE  Overtaken(q) /\ req[q].id = k
    BY <1>2, <2>2 DEF Overtaken
  <2>3. QED
    BY <2>1, <2>2 DEF Contested
<1>3. Contested \subseteq Ids /\ Contested' \subseteq Ids
  BY DEF Contested
<1>4. QED
  BY <1>1, <1>2, <1>3

\* A step that writes no row ends at most one update that was overtaken.
LEMMA QuietDirectory ==
    ASSUME TypeOK, NEW r \in Requests, UNCHANGED <<users, deleted>>,
           \A q \in Requests \ {r} : pc'[q] = pc[q] /\ req'[q] = req[q] /\ copy'[q] = copy[q],
           Overtaken(r)' => Overtaken(r) /\ req'[r] = req[r]
    PROVE  [Directory!Next]_(Directory!vars)
<1>1. \A q \in Requests \ {r} : Overtaken(q)' <=> Overtaken(q)
  BY DEF Overtaken
<1>2. CASE Overtaken(r)
  <2>1. req[r].id \in Ids
    BY <1>2 DEF Overtaken, TypeOK
  <2>2. Contested' \in {Contested \union {req[r].id}, Contested \ {req[r].id}}
    BY <1>2, <2>1, ElsewhereAsBefore
  <2>3. req[r].id \in Contested
    BY <1>2, <2>1 DEF Contested
  <2>4. QED
    BY <2>1, <2>2, <2>3
    DEF Directory!Next, Directory!vars, Directory!Abandon
<1>3. CASE ~Overtaken(r)
  <2>1. Contested' = Contested
    BY <1>1, <1>3 DEF Contested
  <2>2. QED
    BY <2>1 DEF Directory!vars
<1>4. QED
  BY <1>2, <1>3

\* Registration.
LEMMA CreateIsRegister ==
    ASSUME TypeOK, FreshIdsUnknown, NEW r \in Requests, CreateUser(r)
    PROVE  Directory!Next
<1>1. PICK id \in Ids \ deleted :
          /\ ~Exists(id)
          /\ users' = [users EXCEPT ![id] = [email |-> req[r].email, name |-> req[r].name]]
          /\ req' = [req EXCEPT ![r].id = id]
  BY DEF CreateUser
<1>2. /\ pc[r] = "creating" /\ pc'[r] = "welcoming"
      /\ \A q \in Requests \ {r} : pc'[q] = pc[q] /\ req'[q] = req[q]
      /\ UNCHANGED <<copy, deleted>>
      /\ \A k \in Ids \ {id} : users'[k] = users[k]
  BY <1>1 DEF CreateUser, TypeOK, history
<1>3. \A q \in Requests : Overtaken(q) => req[q].id \in Ids \ {id}
  BY <1>1 DEF Overtaken, FreshIdsUnknown, TypeOK
<1>4. ASSUME NEW q \in Requests
      PROVE  /\ Overtaken(q)' <=> Overtaken(q)
             /\ Overtaken(q) => req'[q] = req[q]
  <2>1. CASE q = r
    BY <1>2, <2>1 DEF Overtaken
  <2>2. CASE q # r
    <3>1. pc[q] \in {"checking", "saving"} => req[q].id \in Ids \ {id}
      BY <1>1 DEF FreshIdsUnknown, TypeOK
    <3>2. QED
      BY <1>2, <2>2, <3>1 DEF Overtaken
  <2>3. QED
    BY <2>1, <2>2
<1>5. Contested' = Contested /\ id \notin Contested
  BY <1>3, <1>4 DEF Contested
<1>6. \A k \in Ids : users[k].email # req[r].email
  BY DEF CreateUser, Taken
<1>7. [email |-> req[r].email, name |-> req[r].name] \in User
  BY <1>2 DEF TypeOK
<1>8. QED
  BY <1>1, <1>2, <1>5, <1>6, <1>7
  DEF Directory!Next, Directory!Register, Directory!Put, Directory!Row, Directory!Absent

\* An update that was not overtaken changes the fields it was sent with; one
\* that was overtaken writes what it has.
LEMMA SaveIsUpdate ==
    ASSUME TypeOK, NEW r \in Requests, SaveUser(r)
    PROVE  Directory!Next
<1> DEFINE id == req[r].id
<1>1. /\ pc[r] = "saving" /\ pc'[r] = "flushing"
      /\ id \in Ids /\ copy[r] \in User
      /\ req[r].email \in Emails \union {None} /\ req[r].name \in Names \union {None}
  BY DEF SaveUser, TypeOK
<1>2. /\ users' = [users EXCEPT ![id] = copy[r]]
      /\ UNCHANGED <<req, copy, deleted>>
      /\ \A q \in Requests \ {r} : pc'[q] = pc[q]
      /\ \A k \in Ids \ {id} : users'[k] = users[k]
  BY <1>1 DEF SaveUser, TypeOK
<1>3. \A k \in Ids \ {id} : users[k].email # copy[r].email
  BY DEF SaveUser, TakenByOther
<1>4. Contested' \in {Contested \union {id}, Contested \ {id}}
  <2>1. ~Overtaken(r)'
    BY <1>1 DEF Overtaken
  <2>2. QED
    BY <1>1, <1>2, <2>1, ElsewhereAsBefore
<1>5. CASE Overtaken(r)
  <2>1. id \in Contested
    BY <1>1, <1>5 DEF Contested
  <2>2. Directory!Overwrite(id, copy[r])
    BY <1>2, <1>3, <1>4, <2>1 DEF Directory!Overwrite, Directory!Put, Directory!Overtake
  <2>3. QED
    BY <1>1, <2>2 DEF Directory!Next, Directory!Row
<1>6. CASE ~Overtaken(r)
  <2>1. Exists(id) /\ copy[r] = Merged(users[id], req[r].email, req[r].name)
    BY <1>1, <1>6 DEF Overtaken
  <2>2. Directory!Update(id, req[r].email, req[r].name)
    BY <1>2, <1>3, <1>4, <2>1
    DEF Directory!Update, Directory!Put, Directory!Overtake, Directory!Changed,
        Directory!Absent, Merged
  <2>3. QED
    BY <1>1, <2>2 DEF Directory!Next
<1>7. QED
  BY <1>5, <1>6

\* A deletion overtakes every update that has loaded the row.
LEMMA DeleteIsDelete ==
    ASSUME TypeOK, NEW r \in Requests, NEW id \in Ids, DeleteUser(r, id), Exists(id)
    PROVE  Directory!Next
<1>1. /\ pc[r] = "new" /\ pc'[r] = "flushing"
      /\ users' = [users EXCEPT ![id] = NoUser]
      /\ deleted' = deleted \union {id}
      /\ copy' = copy
      /\ \A q \in Requests \ {r} : pc'[q] = pc[q] /\ req'[q] = req[q]
      /\ \A k \in Ids \ {id} : users'[k] = users[k]
  BY DEF DeleteUser, TypeOK
<1>2. ~Overtaken(r) /\ ~Overtaken(r)'
  BY <1>1 DEF Overtaken
<1>3. Contested' \in {Contested \union {id}, Contested \ {id}}
  BY <1>1, <1>2, ElsewhereAsBefore
<1>4. ASSUME id \in Contested PROVE id \in Contested'
  <2>1. PICK q \in Requests : Overtaken(q) /\ req[q].id = id
    BY <1>4 DEF Contested
  <2>2. Overtaken(q)' /\ req'[q].id = id
    <3>1. q # r
      BY <1>2, <2>1
    <3>2. users'[id] = NoUser
      BY <1>1 DEF TypeOK
    <3>3. QED
      BY <1>1, <2>1, <3>1, <3>2 DEF Overtaken
  <2>3. QED
    BY <2>2 DEF Contested
<1>5. Contested' \in {Contested, Contested \union {id}}
  BY <1>3, <1>4
<1>6. QED
  BY <1>1, <1>5 DEF Directory!Next, Directory!Delete, Directory!Absent

\* Every step of the service is a step of the directory, or none.
LEMMA DirectoryStep ==
    TypeOK /\ FreshIdsUnknown /\ [Next]_vars => [Directory!Next]_(Directory!vars)
<1> SUFFICES ASSUME TypeOK, FreshIdsUnknown, [Next]_vars
             PROVE  [Directory!Next]_(Directory!vars)
  OBVIOUS
<1>1. ASSUME NEW r \in Requests, Arrive(r) PROVE [Directory!Next]_(Directory!vars)
  <2>1. ASSUME NEW email \in Emails, NEW name \in Names, RegisterCheck(r, email, name)
        PROVE  [Directory!Next]_(Directory!vars)
    BY <2>1, QuietDirectory DEF RegisterCheck, history, TypeOK, Overtaken
  <2>2. ASSUME NEW id \in Ids, CacheHit(r, id) PROVE [Directory!Next]_(Directory!vars)
    BY <2>2, QuietDirectory DEF CacheHit, history, TypeOK, Overtaken
  <2>3. ASSUME NEW id \in Ids, CacheMiss(r, id) PROVE [Directory!Next]_(Directory!vars)
    BY <2>3, QuietDirectory DEF CacheMiss, history, TypeOK, Overtaken
  <2>4. ASSUME NEW id \in Ids, DeleteUser(r, id) PROVE [Directory!Next]_(Directory!vars)
    <3>1. CASE Exists(id)
      BY <2>4, <3>1, DeleteIsDelete
    <3>2. CASE ~Exists(id)
      BY <2>4, <3>2, QuietDirectory DEF DeleteUser, history, TypeOK, Overtaken
    <3>3. QED
      BY <3>1, <3>2
  <2>5. ASSUME NEW id \in Ids, NEW email \in Emails \union {None},
               NEW name \in Names \union {None}, UpdateFind(r, id, email, name)
        PROVE  [Directory!Next]_(Directory!vars)
    <3>1. ~Overtaken(r)'
      <4>1. CASE Exists(id)
        <5>1. /\ users' = users
              /\ req'[r] = [id |-> id, email |-> email, name |-> name]
              /\ copy'[r] = Merged(users[id], email, name)
          BY <2>5, <4>1 DEF UpdateFind, TypeOK
        <5>2. QED
          BY <4>1, <5>1 DEF Overtaken, Merged
      <4>2. CASE ~Exists(id)
        BY <2>5, <4>2 DEF UpdateFind, TypeOK, Overtaken
      <4>3. QED
        BY <4>1, <4>2
    <3>2. /\ UNCHANGED <<users, deleted>>
          /\ \A q \in Requests \ {r} :
                pc'[q] = pc[q] /\ req'[q] = req[q] /\ copy'[q] = copy[q]
      BY <2>5 DEF UpdateFind, history, TypeOK
    <3>3. QED
      BY <3>1, <3>2, QuietDirectory
  <2>6. QED
    BY <1>1, <2>1, <2>2, <2>3, <2>4, <2>5 DEF Arrive
<1>2. ASSUME NEW r \in Requests, Continue(r) PROVE [Directory!Next]_(Directory!vars)
  <2>1. CASE CreateUser(r)
    BY <2>1, CreateIsRegister
  <2>2. CASE SaveUser(r)
    BY <2>2, SaveIsUpdate
  <2>3. CASE FindUser(r)
    BY <2>3, QuietDirectory DEF FindUser, history, TypeOK, Overtaken
  <2>4. CASE UpdateCheck(r)
    <3>1. Overtaken(r)' => Overtaken(r)
      BY <2>4 DEF UpdateCheck, TypeOK, Overtaken
    <3>2. QED
      BY <2>4, <3>1, QuietDirectory DEF UpdateCheck, history, TypeOK
  <2>5. CASE CreateUserFails(r) \/ DispatchWelcome(r) \/ FillCache(r)
                \/ SaveUserFails(r) \/ FlushCache(r) \/ FlushLost(r)
    <3>1. /\ pc'[r] = "done"
          /\ UNCHANGED <<users, deleted, req, copy>>
          /\ \A q \in Requests \ {r} : pc'[q] = pc[q]
      BY <2>5 DEF CreateUserFails, DispatchWelcome, FillCache, SaveUserFails, FlushCache,
                  FlushLost, history, TypeOK
    <3>2. QED
      BY <3>1, QuietDirectory DEF Overtaken
  <2>6. QED
    BY <1>2, <2>1, <2>2, <2>3, <2>4, <2>5 DEF Continue
<1>3. ASSUME NEW r \in Requests, Cut(r) PROVE [Directory!Next]_(Directory!vars)
  BY <1>3, QuietDirectory DEF Cut, TypeOK, Overtaken
<1>4. ASSUME UNCHANGED <<users, local, deleted>> PROVE [Directory!Next]_(Directory!vars)
  <2>1. Contested' = Contested
    BY <1>4 DEF Contested, Overtaken, local
  <2>2. QED
    BY <1>4, <2>1 DEF Directory!vars
<1>5. QED
  BY <1>1, <1>2, <1>3, <1>4 DEF Next, Expire, vars, history

\* Whatever the requests do to each other, the table of users changes as the
\* directory says: nothing is lost, revived or mixed up but by an update that
\* was overtaken.
THEOREM DirectoryRefinement == Spec => ImplementsDirectory
<1>1. Init => Directory!Init
  <2> SUFFICES ASSUME Init PROVE Directory!Init
    OBVIOUS
  <2>1. Contested = {}
    BY DEF Init, Contested, Overtaken
  <2>2. QED
    BY <2>1 DEF Init, EmailsUnique, Directory!Init, Directory!Row, Directory!Absent
<1>2. Spec => []TypeOK /\ []FreshIdsUnknown
  <2>1. CacheInv => FreshIdsUnknown
    BY DEF CacheInv
  <2>2. QED
    BY <2>1, TypeCorrect, StaleOnlyIfExplained, PTL
<1>3. QED
  BY <1>1, <1>2, DirectoryStep, PTL DEF Spec, ImplementsDirectory, Directory!Spec
=============================================================================
