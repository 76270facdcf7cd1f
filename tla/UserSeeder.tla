------------------------------ MODULE UserSeeder ------------------------------
(***************************************************************************)
(* The seeder command (cmd/seed, database/seeder) beside other seeders and *)
(* the API: the administrator is looked up and then created, fake users    *)
(* one after the other, each in two statements of its own. A seeder may be *)
(* stopped anywhere and run again.                                         *)
(***************************************************************************)
EXTENDS Integers, FiniteSets

CONSTANTS
    Emails,         \* BOUND: the emails of users
    Admin,          \* admin@example.com
    Seeders,        \* processes of cmd/seed
    Count,          \* fake users a run tries to create
    MaxTime,        \* BOUND: ticks
    MaxFaults       \* BOUND: database errors

ASSUME SeederAssumption ==
    /\ Admin \in Emails
    /\ Count \in Nat /\ MaxTime \in Nat /\ MaxFaults \in Nat

VARIABLES
    table,      \* the rows of users
    now,        \* time.Now(); equal for rows created close together
    pc,         \* where each seeder is
    tried,      \* the loop counter i
    candidate,  \* the row about to be created
    created,    \* createdCount
    added,      \* history: the fake users a seeder has inserted in this run
    faults,     \* database errors so far
    hit,        \* history: seeders whose run met one of them
    dismissed   \* history: whether a client deleted the administrator

tablevars == <<table, now, dismissed>>
seedvars  == <<pc, tried, candidate, created, added, faults, hit>>
vars      == <<tablevars, seedvars>>

Row == [email : Emails, createdAt : 0..MaxTime]

Has(email) == \E row \in table : row.email = email

NewRow(email) == [email |-> email, createdAt |-> now]

\* Not a row: what candidate holds before the first one.
Blank == [email |-> Admin, createdAt |-> 0]

Init ==
    /\ table \in {{}} \union {{[email |-> e, createdAt |-> 0]} : e \in Emails}
    /\ now = 0
    /\ pc = [s \in Seeders |-> "idle"]
    /\ tried = [s \in Seeders |-> 0]
    /\ candidate = [s \in Seeders |-> Blank]
    /\ created = [s \in Seeders |-> 0]
    /\ added = [s \in Seeders |-> 0]
    /\ faults = 0 /\ hit = {}
    /\ dismissed = FALSE

-----------------------------------------------------------------------------
(* The statements of a seeder. *)

Go(s, to) == pc' = [pc EXCEPT ![s] = to]

\* A statement returns an error of the database.
Fault(s) ==
    /\ faults < MaxFaults
    /\ faults' = faults + 1
    /\ hit' = hit \union {s}

NoFault == UNCHANGED <<faults, hit>>

\* The command starts, after a migration; whatever an earlier run has done.
Run(s) ==
    /\ pc[s] = "idle"
    /\ Go(s, "findAdmin")
    /\ UNCHANGED <<tablevars, tried, candidate, created, added, faults, hit>>

\* Its process is gone: it has ended, or Ctrl-C ends it anywhere.
Gone(s) ==
    /\ pc[s] # "idle"
    /\ Go(s, "idle")
    /\ tried' = [tried EXCEPT ![s] = 0]
    /\ candidate' = [candidate EXCEPT ![s] = Blank]
    /\ created' = [created EXCEPT ![s] = 0]
    /\ added' = [added EXCEPT ![s] = 0]
    /\ hit' = hit \ {s}
    /\ UNCHANGED <<tablevars, faults>>

\* [mutant of FindAdmin] any error of First counts as "already exists".
FindAdminErrorIgnored(s) ==
    /\ pc[s] = "findAdmin"
    /\ \/ Has(Admin) /\ Go(s, "check") /\ NoFault /\ UNCHANGED candidate
       \/ /\ ~Has(Admin) /\ Go(s, "createAdmin") /\ NoFault
          /\ candidate' = [candidate EXCEPT ![s] = NewRow(Admin)]
       \/ Fault(s) /\ Go(s, "check") /\ UNCHANGED candidate
    /\ UNCHANGED <<tablevars, tried, created, added>>

\* First of the administrator: found, ErrRecordNotFound, or another error.
FindAdmin(s) ==
    /\ pc[s] = "findAdmin"
    /\ \/ Has(Admin) /\ Go(s, "check") /\ NoFault /\ UNCHANGED candidate
       \/ /\ ~Has(Admin) /\ Go(s, "createAdmin") /\ NoFault
          /\ candidate' = [candidate EXCEPT ![s] = NewRow(Admin)]
       \/ Fault(s) /\ Go(s, "failed") /\ UNCHANGED candidate
    /\ UNCHANGED <<tablevars, tried, created, added>>

\* An INSERT takes effect: the unique index has no such email.
Inserted(s) ==
    /\ ~Has(candidate[s].email)
    /\ table' = table \union {candidate[s]}
    /\ UNCHANGED <<now, dismissed>>

\* It does not: the unique index rejects it, or the database fails.
Rejected(s) == Has(candidate[s].email) /\ NoFault /\ UNCHANGED tablevars
Broken(s) == Fault(s) /\ (Inserted(s) \/ UNCHANGED tablevars)

CreateAdmin(s) ==
    /\ pc[s] = "createAdmin"
    /\ \/ Inserted(s) /\ NoFault /\ Go(s, "check")
       \/ (Rejected(s) \/ Broken(s)) /\ Go(s, "failed")
    /\ candidate' = [candidate EXCEPT ![s] = Blank]
    /\ UNCHANGED <<tried, created, added>>

\* [mutant of Skip] a taken email does not count as a try.
SkipUncounted(s) == Go(s, "check") /\ UNCHANGED tried

\* "continue"
Skip(s) == tried' = [tried EXCEPT ![s] = @ + 1] /\ Go(s, "check")

\* Count of a fake email. Its error is not looked at: count stays 0.
CheckFake(s, email) ==
    /\ pc[s] = "check" /\ tried[s] < Count
    /\ \/ Has(email) /\ NoFault /\ Skip(s) /\ UNCHANGED candidate
       \/ /\ (~Has(email) /\ NoFault) \/ Fault(s)
          /\ Go(s, "insert")
          /\ candidate' = [candidate EXCEPT ![s] = NewRow(email)]
          /\ UNCHANGED tried
    /\ UNCHANGED <<tablevars, created, added>>

\* [mutant of InsertFake] createdCount++ before the error is looked at.
InsertFakeCounted(s) ==
    /\ pc[s] = "insert"
    /\ (Inserted(s) /\ NoFault) \/ Rejected(s) \/ Broken(s)
    /\ created' = [created EXCEPT ![s] = @ + 1]
    /\ added' = [added EXCEPT ![s] = @ + Cardinality(table' \ table)]
    /\ candidate' = [candidate EXCEPT ![s] = Blank]
    /\ Skip(s)

\* Create of a fake user; a failure is logged, and the loop goes on.
InsertFake(s) ==
    /\ pc[s] = "insert"
    /\ \/ Inserted(s) /\ NoFault /\ created' = [created EXCEPT ![s] = @ + 1]
       \/ (Rejected(s) \/ Broken(s)) /\ UNCHANGED created
    /\ added' = [added EXCEPT ![s] = @ + Cardinality(table' \ table)]
    /\ candidate' = [candidate EXCEPT ![s] = Blank]
    /\ Skip(s)

Finish(s) ==
    /\ pc[s] = "check" /\ tried[s] = Count
    /\ Go(s, "done")
    /\ UNCHANGED <<tablevars, tried, candidate, created, added, faults, hit>>

-----------------------------------------------------------------------------
(* The API beside them. *)

Register(email) ==
    /\ ~Has(email)
    /\ table' = table \union {NewRow(email)}
    /\ UNCHANGED <<now, dismissed, seedvars>>

Delete(row) ==
    /\ row \in table
    /\ table' = table \ {row}
    /\ dismissed' = (dismissed \/ row.email = Admin)
    /\ UNCHANGED <<now, seedvars>>

Tick == now < MaxTime /\ now' = now + 1 /\ UNCHANGED <<table, dismissed, seedvars>>

SeederStep(s) ==
    \/ FindAdmin(s) \/ CreateAdmin(s)
    \/ \E email \in Emails \ {Admin} : CheckFake(s, email)
    \/ InsertFake(s) \/ Finish(s)

Next ==
    \/ \E s \in Seeders : Run(s) \/ SeederStep(s) \/ Gone(s)
    \/ \E email \in Emails : Register(email)
    \/ \E row \in table : Delete(row)
    \/ Tick

Spec == Init /\ [][Next]_vars

\* A seeder that runs gets its statements answered.
Fairness == \A s \in Seeders : WF_vars(SeederStep(s))

FairSpec == Spec /\ Fairness

-----------------------------------------------------------------------------
\* The state is well-formed.
TypeOK ==
    /\ table \subseteq Row /\ now \in 0..MaxTime
    /\ pc \in [Seeders -> {"idle", "findAdmin", "createAdmin", "check", "insert",
                           "done", "failed"}]
    /\ tried \in [Seeders -> 0..Count]
    /\ candidate \in [Seeders -> Row]
    /\ created \in [Seeders -> 0..Count]
    /\ added \in [Seeders -> 0..Count]
    /\ faults \in 0..MaxFaults /\ hit \subseteq Seeders
    /\ dismissed \in BOOLEAN

\* "Safe to run repeatedly; skips existing records", "Automatically provisions a
\* default administrator": whoever seeds or registers at the same time, no email
\* is stored twice, and once a seeder is past the administrator there is one;
\* so there is when it failed although the database did not: it lost the race
\* to somebody who created it.
SafeToRepeat ==
    /\ \A row, other \in table : row.email = other.email => row = other
    /\ \A s \in Seeders :
          \/ pc[s] \in {"check", "insert", "done"}
          \/ pc[s] = "failed" /\ s \notin hit
          => Has(Admin) \/ dismissed

\* "Fake users seeded successfully" counts users that are really there, and no
\* more than were asked for; rows whose reply was lost are not in the count.
CountHonest ==
    \A s \in Seeders :
        /\ created[s] =< added[s] /\ added[s] =< Count
        /\ s \notin hit => created[s] = added[s]

\* A run ends although every email it draws may be taken.
SeedingEnds ==
    \A s \in Seeders : pc[s] = "findAdmin" ~> pc[s] \in {"idle", "done", "failed"}
=============================================================================
