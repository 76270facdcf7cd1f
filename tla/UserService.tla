----------------------------- MODULE UserService -----------------------------
(***************************************************************************)
(* The user usecase (internal/usecase/user_usecase.go) over its repository *)
(* (internal/repository/gorm) and the read-through cache of pkg/redis:     *)
(* concurrent HTTP requests, each the sequence of database and Redis calls *)
(* its handler makes, against one table "users" and the keys "user:<id>".  *)
(* A request may be cut short at any point, by a crash of the API or by    *)
(* the cancellation of the request context that every call is given.       *)
(***************************************************************************)
EXTENDS Naturals

CONSTANTS
    Requests,       \* BOUND: the HTTP requests, each one handled once
    Ids,            \* BOUND: the UUIDs ever handed out
    Emails, Names,
    None,           \* a field that is absent
    MaxFaults       \* BOUND: failing calls and cut requests

ASSUME UserAssumption ==
    /\ None \notin Emails \union Names \union Ids
    /\ MaxFaults \in Nat

VARIABLES
    users,      \* the table: row or NoUser per id
    cache,      \* "user:<id>" in Redis: what it holds, or NoUser
    pc,         \* which call each request makes next
    req,        \* the id, email and name it was sent with
    copy,       \* its local variable user, or the row it read
    welcomed,   \* ids with a dispatched welcome job
    deleted,    \* history: ids whose DELETE took effect
    suspect,    \* history: ids with a fill that overlapped a write, or a lost
                \* flush, since their key was last removed
    faults

local   == <<pc, req, copy>>
history == <<deleted, suspect>>
vars    == <<users, cache, local, welcomed, history, faults>>

NoUser  == [email |-> None, name |-> None]
User    == [email : Emails, name : Names]
Request == [id : Ids \union {None}, email : Emails \union {None},
            name : Names \union {None}]
NoArgs  == [id |-> None, email |-> None, name |-> None]

Calls == {"creating", "welcoming", "finding", "filling", "checking", "saving",
          "flushing"}

Exists(id)         == users[id] # NoUser
Taken(email)       == \E id \in Ids : users[id].email = email
TakenByOther(e, i) == \E id \in Ids \ {i} : users[id].email = e

At(r, label)   == pc[r] = label
GoTo(r, label) == pc' = [pc EXCEPT ![r] = label]
Respond(r)     == GoTo(r, "done")       \* whatever the status code
Fault          == faults < MaxFaults /\ faults' = faults + 1

\* Another request has read the row of id and not yet cached it.
BeingFilled(id) == \E r \in Requests : At(r, "filling") /\ req[r].id = id

Suspect(id) == suspect' = IF BeingFilled(id) THEN suspect \union {id} ELSE suspect
Clear(id)   == suspect' = IF BeingFilled(id) THEN suspect ELSE suspect \ {id}

\* No two rows have one email: the unique index on users.email.
EmailsUnique ==
    \A i, k \in Ids : Exists(i) /\ users[i].email = users[k].email => i = k

Init ==
    /\ users \in [Ids -> User \union {NoUser}] /\ EmailsUnique
    /\ cache = [id \in Ids |-> NoUser]
    /\ pc = [r \in Requests |-> "new"]
    /\ req = [r \in Requests |-> NoArgs]
    /\ copy = [r \in Requests |-> NoUser]
    /\ welcomed = {} /\ deleted = {} /\ suspect = {} /\ faults = 0

-----------------------------------------------------------------------------
(* Register *)

\* FindByEmail. An error of the query counts as "no such user".
RegisterCheck(r, email, name) ==
    /\ At(r, "new")
    /\ \/ Taken(email) /\ Respond(r) /\ UNCHANGED <<req, faults>>
       \/ /\ GoTo(r, "creating")
          /\ req' = [req EXCEPT ![r] = [id |-> None, email |-> email, name |-> name]]
          /\ \/ ~Taken(email) /\ UNCHANGED faults
             \/ Taken(email) /\ Fault
    /\ UNCHANGED <<users, cache, copy, welcomed, history>>

\* [mutant of CreateUser] no unique index.
CreateUserAnyway(r) ==
    /\ At(r, "creating")
    /\ \E id \in Ids \ deleted :
          /\ ~Exists(id)
          /\ users' = [users EXCEPT ![id] = [email |-> req[r].email, name |-> req[r].name]]
          /\ req' = [req EXCEPT ![r].id = id]
    /\ GoTo(r, "welcoming")
    /\ UNCHANGED <<cache, copy, welcomed, history, faults>>

\* INSERT with a fresh UUID; the unique index rejects an email that is taken.
CreateUser(r) ==
    /\ At(r, "creating") /\ ~Taken(req[r].email)
    /\ \E id \in Ids \ deleted :
          /\ ~Exists(id)
          /\ users' = [users EXCEPT ![id] = [email |-> req[r].email, name |-> req[r].name]]
          /\ req' = [req EXCEPT ![r].id = id]
    /\ GoTo(r, "welcoming")
    /\ UNCHANGED <<cache, copy, welcomed, history, faults>>

\* The duplicate key, or any other error, is passed on as it is: a 500.
CreateUserFails(r) ==
    /\ At(r, "creating")
    /\ \/ Taken(req[r].email) /\ UNCHANGED faults
       \/ Fault
    /\ Respond(r)
    /\ UNCHANGED <<users, cache, req, copy, welcomed, history>>

\* The queue's Dispatch; its error is ignored.
DispatchWelcome(r) ==
    /\ At(r, "welcoming")
    /\ \/ welcomed' = welcomed \union {req[r].id} /\ UNCHANGED faults
       \/ Fault /\ UNCHANGED welcomed
    /\ Respond(r)
    /\ UNCHANGED <<users, cache, req, copy, history>>

-----------------------------------------------------------------------------
(* GetByID: redis.Remember *)

\* GetJSON finds the key ...
CacheHit(r, id) ==
    /\ At(r, "new") /\ cache[id] # NoUser
    /\ Respond(r)
    /\ UNCHANGED <<users, cache, req, copy, welcomed, history, faults>>

\* ... or it does not, or fails.
CacheMiss(r, id) ==
    /\ At(r, "new")
    /\ \/ cache[id] = NoUser /\ UNCHANGED faults
       \/ cache[id] # NoUser /\ Fault
    /\ GoTo(r, "finding")
    /\ req' = [req EXCEPT ![r] = [NoArgs EXCEPT !.id = id]]
    /\ UNCHANGED <<users, cache, copy, welcomed, history>>

\* The fallback: FindByID.
FindUser(r) ==
    /\ At(r, "finding")
    /\ IF Exists(req[r].id)
       THEN GoTo(r, "filling") /\ copy' = [copy EXCEPT ![r] = users[req[r].id]]
       ELSE Respond(r) /\ UNCHANGED copy
    /\ UNCHANGED <<users, cache, req, welcomed, history, faults>>

\* SetJSON with the row that was read; its error is only logged.
FillCache(r) ==
    /\ At(r, "filling")
    /\ \/ cache' = [cache EXCEPT ![req[r].id] = copy[r]] /\ UNCHANGED faults
       \/ Fault /\ UNCHANGED cache
    /\ Respond(r)
    /\ UNCHANGED <<users, req, copy, welcomed, history>>

-----------------------------------------------------------------------------
(* Update and Delete *)

\* The loaded row with the fields of the request that are not empty.
Merged(row, email, name) ==
    [email |-> IF email = None THEN row.email ELSE email,
     name  |-> IF name = None THEN row.name ELSE name]

\* [mutant of UpdateFind] the row is loaded through the cache.
UpdateFindCached(r, id, email, name) ==
    LET row == IF cache[id] = NoUser THEN users[id] ELSE cache[id] IN
    /\ At(r, "new")
    /\ IF row # NoUser
       THEN /\ GoTo(r, IF email \in {None, row.email} THEN "saving" ELSE "checking")
            /\ copy' = [copy EXCEPT ![r] = Merged(row, email, name)]
       ELSE Respond(r) /\ UNCHANGED copy
    /\ req' = [req EXCEPT ![r] = [id |-> id, email |-> email, name |-> name]]
    /\ UNCHANGED <<users, cache, welcomed, history, faults>>

\* FindByID; a new email has to be checked first.
UpdateFind(r, id, email, name) ==
    /\ At(r, "new")
    /\ IF Exists(id)
       THEN /\ GoTo(r, IF email \in {None, users[id].email} THEN "saving" ELSE "checking")
            /\ copy' = [copy EXCEPT ![r] = Merged(users[id], email, name)]
       ELSE Respond(r) /\ UNCHANGED copy
    /\ req' = [req EXCEPT ![r] = [id |-> id, email |-> email, name |-> name]]
    /\ UNCHANGED <<users, cache, welcomed, history, faults>>

\* FindByEmail. An error of the query counts as "no such user".
UpdateCheck(r) ==
    LET taken == TakenByOther(copy[r].email, req[r].id) IN
    /\ At(r, "checking")
    /\ \/ taken /\ Respond(r) /\ UNCHANGED faults
       \/ ~taken /\ GoTo(r, "saving") /\ UNCHANGED faults
       \/ taken /\ GoTo(r, "saving") /\ Fault
    /\ UNCHANGED <<users, cache, req, copy, welcomed, history>>

\* [mutant of SaveUser] the request ends without invalidating the cache.
SaveUserUnflushed(r) ==
    /\ At(r, "saving") /\ ~TakenByOther(copy[r].email, req[r].id)
    /\ users' = [users EXCEPT ![req[r].id] = copy[r]]
    /\ Suspect(req[r].id)
    /\ Respond(r)
    /\ UNCHANGED <<cache, req, copy, welcomed, deleted, faults>>

\* Save: all columns, and an INSERT when the row is gone.
SaveUser(r) ==
    /\ At(r, "saving") /\ ~TakenByOther(copy[r].email, req[r].id)
    /\ users' = [users EXCEPT ![req[r].id] = copy[r]]
    /\ Suspect(req[r].id)
    /\ GoTo(r, "flushing")
    /\ UNCHANGED <<cache, req, copy, welcomed, deleted, faults>>

SaveUserFails(r) ==
    /\ At(r, "saving")
    /\ \/ TakenByOther(copy[r].email, req[r].id) /\ UNCHANGED faults
       \/ Fault
    /\ Respond(r)
    /\ UNCHANGED <<users, cache, req, copy, welcomed, history>>

\* DELETE WHERE id: no affected row is ErrNotFound.
DeleteUser(r, id) ==
    /\ At(r, "new")
    /\ IF Exists(id)
       THEN /\ users' = [users EXCEPT ![id] = NoUser]
            /\ deleted' = deleted \union {id}
            /\ Suspect(id)
            /\ GoTo(r, "flushing")
       ELSE Respond(r) /\ UNCHANGED <<users, history>>
    /\ req' = [req EXCEPT ![r] = [NoArgs EXCEPT !.id = id]]
    /\ UNCHANGED <<cache, copy, welcomed, faults>>

\* Invalidate, the last call of Update and Delete; its error is ignored.
FlushCache(r) ==
    /\ At(r, "flushing")
    /\ cache' = [cache EXCEPT ![req[r].id] = NoUser]
    /\ Clear(req[r].id)
    /\ Respond(r)
    /\ UNCHANGED <<users, req, copy, welcomed, deleted, faults>>

FlushLost(r) ==
    /\ At(r, "flushing") /\ Fault
    /\ suspect' = suspect \union {req[r].id}
    /\ Respond(r)
    /\ UNCHANGED <<users, cache, req, copy, welcomed, deleted>>

-----------------------------------------------------------------------------
\* The request is cut short by a crash, a cancelled context or a failing query.
Cut(r) ==
    /\ pc[r] \in Calls /\ Fault
    /\ suspect' = IF At(r, "flushing") THEN suspect \union {req[r].id} ELSE suspect
    /\ Respond(r)
    /\ UNCHANGED <<users, cache, req, copy, welcomed, deleted>>

\* [mutant of Expire] the key is set without an expiration.
ExpireNever(id) == FALSE /\ UNCHANGED vars

\* Ten minutes after the fill.
Expire(id) ==
    /\ cache[id] # NoUser
    /\ cache' = [cache EXCEPT ![id] = NoUser]
    /\ Clear(id)
    /\ UNCHANGED <<users, local, welcomed, deleted, faults>>

-----------------------------------------------------------------------------
Arrive(r) ==
    \/ \E email \in Emails, name \in Names : RegisterCheck(r, email, name)
    \/ \E id \in Ids :
          \/ CacheHit(r, id) \/ CacheMiss(r, id) \/ DeleteUser(r, id)
          \/ \E email \in Emails \union {None}, name \in Names \union {None} :
                UpdateFind(r, id, email, name)

Continue(r) ==
    \/ CreateUser(r) \/ CreateUserFails(r) \/ DispatchWelcome(r)
    \/ FindUser(r) \/ FillCache(r)
    \/ UpdateCheck(r) \/ SaveUser(r) \/ SaveUserFails(r)
    \/ FlushCache(r) \/ FlushLost(r)

Next ==
    \/ \E r \in Requests : Arrive(r) \/ Continue(r) \/ Cut(r)
    \/ \E id \in Ids : Expire(id)

Spec == Init /\ [][Next]_vars

\* A request that was begun goes on, and Redis expires keys. Nobody has to send
\* a request.
Fairness ==
    /\ \A r \in Requests : WF_vars(Continue(r))
    /\ \A id \in Ids : WF_vars(Expire(id))

FairSpec == Spec /\ Fairness

-----------------------------------------------------------------------------
(* Properties. *)

\* What a request in the middle of its calls knows of the row it is about.
CallOK(r) ==
    /\ At(r, "creating") => req[r].email \in Emails /\ req[r].name \in Names
    /\ pc[r] \in Calls \ {"creating"} => req[r].id \in Ids
    /\ pc[r] \in {"filling", "checking", "saving"} => copy[r] \in User

\* The state is well-formed: rows and cached responses are whole, and a request
\* in the middle of its calls knows which row it is about.
TypeOK ==
    /\ users \in [Ids -> User \union {NoUser}]
    /\ cache \in [Ids -> User \union {NoUser}]
    /\ pc \in [Requests -> {"new", "done"} \union Calls]
    /\ req \in [Requests -> Request]
    /\ copy \in [Requests -> User \union {NoUser}]
    /\ \A r \in Requests : CallOK(r)
    /\ welcomed \subseteq Ids /\ deleted \subseteq Ids /\ suspect \subseteq Ids
    /\ faults \in Nat

Stale(id) == cache[id] \notin {NoUser, users[id]}

BeingFlushed(id) == \E r \in Requests : At(r, "flushing") /\ req[r].id = id

\* A cached response differs from the row only while the writer is about to
\* invalidate it, after a fill that overlapped a write, or after a lost
\* invalidation: there is no other way to a stale profile.
StalenessExplained ==
    \A id \in Ids : Stale(id) => BeingFlushed(id) \/ id \in suspect

\* What a request is about to cache is the row, unless a write overlapped.
FillsExplained ==
    \A r \in Requests : At(r, "filling") =>
        copy[r] = users[req[r].id] \/ req[r].id \in suspect

Explained == StalenessExplained /\ FillsExplained

\* Nothing is cached, or about to be cached or written, under a UUID that was
\* not handed out yet.
FreshIdsUnknown ==
    \A id \in Ids \ deleted : ~Exists(id) =>
        /\ cache[id] = NoUser
        /\ \A r \in Requests :
              pc[r] \in {"filling", "checking", "saving", "flushing"} => req[r].id # id

CacheInv == TypeOK /\ Explained /\ FreshIdsUnknown

\* An update is under way with a row that is gone, or that somebody has written
\* since it was loaded: it will write back what it loaded.
Overtaken(r) ==
    LET row == users[req[r].id] IN
    /\ pc[r] \in {"checking", "saving"}
    /\ row = NoUser \/ copy[r] # Merged(row, req[r].email, req[r].name)

Contested == {id \in Ids : \E r \in Requests : Overtaken(r) /\ req[r].id = id}

\* However the calls of the requests interleave, and whatever is cut short, the
\* table changes one user at a time: nothing is written but what a request
\* asked for, except by an update that another request has overtaken.
Directory == INSTANCE UserDirectory WITH
                 rows <- users, gone <- deleted, contested <- Contested
ImplementsDirectory == Directory!Spec

\* "responses are cached for 10 minutes": when the writes are over, the cache
\* becomes right and stays right, whatever raced or failed before.
CacheConverges == <>[](\A id \in Ids : ~Stale(id))

InFlight(r) == pc[r] \in Calls

\* "Invalidate user cache": when no request is in flight and nothing failed, no
\* profile is stale.
CacheCoherentAtRest ==
    faults = 0 /\ (\A r \in Requests : ~InFlight(r)) => \A id \in Ids : ~Stale(id)
=============================================================================
