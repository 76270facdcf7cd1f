---------------------------- MODULE UserDirectory ----------------------------
(***************************************************************************)
(* What the user usecase promises about the table of users, whatever       *)
(* caches, checks and calls a request consists of: a row is registered     *)
(* under an id nobody had, an update changes the fields it was sent with   *)
(* and no other, a deletion removes one row, and no two rows ever have one *)
(* email. The exception is part of the promise: an update that was         *)
(* overtaken, whose row has been written since it was loaded, puts back    *)
(* what it loaded, and even a row that was deleted.                        *)
(***************************************************************************)

CONSTANTS Ids, Emails, Names, None

VARIABLES
    rows,       \* the user of each id, or Absent
    gone,       \* ids that were deleted
    contested   \* ids with an update in flight that was overtaken

vars == <<rows, gone, contested>>

Absent == [email |-> None, name |-> None]
Row    == [email : Emails, name : Names]

\* The row with those of the two fields that were given.
Changed(row, email, name) ==
    [email |-> IF email = None THEN row.email ELSE email,
     name  |-> IF name = None THEN row.name ELSE name]

Init ==
    /\ rows \in [Ids -> Row \union {Absent}]
    /\ \A i, k \in Ids : rows[i] # Absent /\ rows[i].email = rows[k].email => i = k
    /\ gone = {} /\ contested = {}

\* The row of id becomes row, unless another one has its email.
Put(id, row) ==
    /\ \A k \in Ids \ {id} : rows[k].email # row.email
    /\ rows' = [rows EXCEPT ![id] = row]

\* Who wrote the row of id has overtaken the updates that had loaded it, and
\* perhaps ended the last of them.
Overtake(id) == contested' \in {contested \union {id}, contested \ {id}}

Register(id, row) ==
    /\ rows[id] = Absent /\ id \notin gone \union contested
    /\ Put(id, row)
    /\ UNCHANGED <<gone, contested>>

Update(id, email, name) ==
    /\ rows[id] # Absent
    /\ Put(id, Changed(rows[id], email, name))
    /\ Overtake(id)
    /\ UNCHANGED gone

Delete(id) ==
    /\ rows[id] # Absent
    /\ rows' = [rows EXCEPT ![id] = Absent]
    /\ gone' = gone \union {id}
    /\ contested' \in {contested, contested \union {id}}

\* An update that was overtaken writes all the same.
Overwrite(id, row) ==
    /\ id \in contested
    /\ Put(id, row)
    /\ Overtake(id)
    /\ UNCHANGED gone

\* An update that was overtaken ends without writing.
Abandon(id) == contested' = contested \ {id} /\ UNCHANGED <<rows, gone>>

Next ==
    \E id \in Ids :
       \/ \E row \in Row : Register(id, row) \/ Overwrite(id, row)
       \/ \E email \in Emails \union {None}, name \in Names \union {None} :
             Update(id, email, name)
       \/ Delete(id) \/ Abandon(id)

Spec == Init /\ [][Next]_vars
=============================================================================
