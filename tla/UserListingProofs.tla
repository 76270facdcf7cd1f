-------------------------- MODULE UserListingProofs --------------------------
(***************************************************************************)
(* Proofs about UserSeeder, for any number of seeders, emails, ticks and   *)
(* errors: what repeated and concurrent seeding leaves in the table, and   *)
(* what the count of a run is worth. Then proofs about UserListing, which  *)
(* extends it, for tables and walks of any length: a page has as many      *)
(* items as its total promises, and a walk misses nobody.                  *)
(***************************************************************************)
EXTENDS UserListing, FiniteSetTheorems, SequenceTheorems, TLAPS

USE SeederAssumption

Places == {"idle", "findAdmin", "createAdmin", "check", "insert", "done", "failed"}

-----------------------------------------------------------------------------
(* Seeding: types.                                                            *)

TypeTable  == table \subseteq Row /\ now \in 0..MaxTime /\ dismissed \in BOOLEAN
TypeRun    == /\ pc \in [Seeders -> Places] /\ tried \in [Seeders -> 0..Count]
              /\ candidate \in [Seeders -> Row]
              /\ faults \in 0..MaxFaults /\ hit \subseteq Seeders
TypeCounts == created \in [Seeders -> Nat] /\ added \in [Seeders -> Nat]

Typed == TypeTable /\ TypeRun /\ TypeCounts

\* A seeder that inserts has a try left.
Room(s) == pc[s] = "insert" => tried[s] < Count

\* The row of a new user is a row.
LEMMA NewRows ==
    ASSUME TypeTable, NEW email \in Emails
    PROVE  NewRow(email) \in Row /\ Blank \in Row /\ NewRow(email).email = email
BY DEF TypeTable, NewRow, Row, Blank

\* How many rows an INSERT adds.
LEMMA Additions ==
    ASSUME NEW s \in Seeders, Inserted(s) \/ UNCHANGED tablevars
    PROVE  /\ Inserted(s) => Cardinality(table' \ table) = 1
           /\ UNCHANGED tablevars => Cardinality(table' \ table) = 0
           /\ Cardinality(table' \ table) \in {0, 1}
<1>1. ASSUME Inserted(s)
      PROVE  Cardinality(table' \ table) = 1
  <2>1. table' \ table = {candidate[s]}
    BY <1>1 DEF Inserted, Has
  <2> QED
    BY <2>1, FS_Singleton
<1>2. ASSUME UNCHANGED tablevars
      PROVE  Cardinality(table' \ table) = 0
  <2>1. table' \ table = {}
    BY <1>2 DEF tablevars
  <2> QED
    BY <2>1, FS_EmptySet
<1> QED
  BY <1>1, <1>2

\* An insert keeps the table typed.
LEMMA TypedInsert ==
    ASSUME TypeTable, TypeRun, NEW s \in Seeders, Inserted(s) \/ UNCHANGED tablevars
    PROVE  TypeTable'
BY DEF TypeTable, TypeRun, Inserted, tablevars

\* A fault is counted within its bound.
LEMMA TypedFault ==
    ASSUME faults \in 0..MaxFaults, hit \subseteq Seeders, NEW s \in Seeders,
           Fault(s) \/ NoFault
    PROVE  faults' \in 0..MaxFaults /\ hit' \subseteq Seeders
BY DEF Fault, NoFault

\* The steps of a seeder keep the types.
LEMMA TypedSeeder ==
    ASSUME Typed, NEW s \in Seeders, Room(s), NEW email \in Emails,
           \/ Run(s) \/ Gone(s) \/ FindAdmin(s) \/ CreateAdmin(s) \/ CheckFake(s, email)
           \/ InsertFake(s) \/ Finish(s)
    PROVE  Typed'
<1> USE DEF Typed
<1>1. CASE Run(s) \/ Finish(s)
  BY <1>1 DEF Run, Finish, Go, TypeTable, TypeRun, TypeCounts, tablevars, Places
<1>2. CASE Gone(s)
  BY <1>2, NewRows DEF Gone, Go, TypeTable, TypeRun, TypeCounts, tablevars, Places
<1>3. CASE FindAdmin(s)
  <2>1. TypeTable' /\ TypeCounts'
    BY <1>3 DEF FindAdmin, TypeTable, TypeCounts, tablevars
  <2>2. faults' \in 0..MaxFaults /\ hit' \subseteq Seeders
    BY <1>3, TypedFault DEF FindAdmin, TypeRun
  <2>3. NewRow(Admin) \in Row
    BY NewRows
  <2> QED
    BY <1>3, <2>1, <2>2, <2>3 DEF FindAdmin, Go, TypeRun, Places
<1>4. CASE CreateAdmin(s)
  <2>1. TypeTable' /\ TypeCounts'
    BY <1>4, TypedInsert DEF CreateAdmin, Rejected, Broken, TypeCounts
  <2>2. faults' \in 0..MaxFaults /\ hit' \subseteq Seeders
    BY <1>4, TypedFault DEF CreateAdmin, Rejected, Broken, TypeRun
  <2> QED
    BY <1>4, <2>1, <2>2, NewRows DEF CreateAdmin, Go, TypeRun, Places
<1>5. CASE CheckFake(s, email)
  <2>1. TypeTable' /\ TypeCounts'
    BY <1>5 DEF CheckFake, TypeTable, TypeCounts, tablevars
  <2>2. faults' \in 0..MaxFaults /\ hit' \subseteq Seeders
    BY <1>5, TypedFault DEF CheckFake, TypeRun
  <2>3. NewRow(email) \in Row
    BY NewRows
  <2>4. tried[s] < Count /\ tried[s] \in 0..Count
    BY <1>5 DEF CheckFake, TypeRun
  <2> QED
    BY <1>5, <2>1, <2>2, <2>3, <2>4 DEF CheckFake, Skip, Go, TypeRun, Places
<1>6. CASE InsertFake(s)
  <2>1. Inserted(s) \/ UNCHANGED tablevars
    BY <1>6 DEF InsertFake, Rejected, Broken
  <2>2. TypeTable'
    BY <2>1, TypedInsert
  <2>3. faults' \in 0..MaxFaults /\ hit' \subseteq Seeders
    BY <1>6, TypedFault DEF InsertFake, Rejected, Broken, TypeRun
  <2>4. Cardinality(table' \ table) \in Nat
    BY <2>1, Additions
  <2>5. TypeCounts'
    BY <1>6, <2>4 DEF InsertFake, TypeCounts
  <2>6. tried[s] < Count /\ tried[s] \in 0..Count
    BY <1>6 DEF InsertFake, Room, TypeRun
  <2> QED
    BY <1>6, <2>2, <2>3, <2>5, <2>6, NewRows DEF InsertFake, Skip, Go, TypeRun, Places
<1> QED
  BY <1>1, <1>2, <1>3, <1>4, <1>5, <1>6

\* Registrations, deletions and the clock keep the types and leave the seeders alone.
LEMMA TypedApi ==
    ASSUME Typed,
           \/ \E email \in Emails : Register(email)
           \/ \E row \in table : Delete(row)
           \/ Tick \/ UNCHANGED vars
    PROVE  Typed' /\ UNCHANGED seedvars
<1> USE DEF Typed
<1>1. ASSUME UNCHANGED seedvars
      PROVE  TypeRun' /\ TypeCounts'
  BY <1>1 DEF seedvars, TypeRun, TypeCounts
<1>2. ASSUME NEW email \in Emails, Register(email)
      PROVE  TypeTable'
  BY <1>2, NewRows DEF Register, TypeTable
<1>3. ASSUME NEW row \in table, Delete(row)
      PROVE  TypeTable'
  BY <1>3 DEF Delete, TypeTable
<1>4. Tick \/ UNCHANGED vars => TypeTable'
  BY DEF Tick, vars, tablevars, TypeTable
<1>5. UNCHANGED seedvars
  BY DEF Register, Delete, Tick, vars
<1> QED
  BY <1>1, <1>2, <1>3, <1>4, <1>5

-----------------------------------------------------------------------------
(* Seeding: the run of a seeder.                                              *)

\* Its count, and what it owes the administrator.
Counted(s) ==
    /\ created[s] =< added[s] /\ added[s] =< tried[s]
    /\ s \notin hit => created[s] = added[s]

PastAdmin(s) == pc[s] \in {"check", "insert", "done"} \/ (pc[s] = "failed" /\ s \notin hit)

Provisioned(s) ==
    /\ pc[s] = "createAdmin" => candidate[s].email = Admin
    /\ PastAdmin(s) => Has(Admin) \/ dismissed

OneRowPerEmail == \A row, other \in table : row.email = other.email => row = other

SeedInv == /\ Typed /\ OneRowPerEmail
           /\ \A s \in Seeders : Room(s) /\ Counted(s) /\ Provisioned(s)

\* What belongs to one seeder.
Untouched(q) ==
    /\ pc'[q] = pc[q] /\ tried'[q] = tried[q] /\ candidate'[q] = candidate[q]
    /\ created'[q] = created[q] /\ added'[q] = added[q]
    /\ q \in hit' <=> q \in hit

\* A step of one seeder leaves the variables of the others alone.
LEMMA Alone ==
    ASSUME Typed, NEW s \in Seeders, NEW email \in Emails,
           \/ Run(s) \/ Gone(s) \/ FindAdmin(s) \/ CreateAdmin(s) \/ CheckFake(s, email)
           \/ InsertFake(s) \/ Finish(s),
           NEW q \in Seeders, q # s
    PROVE  Untouched(q)
<1> USE DEF Typed, TypeRun, TypeCounts, Untouched, Go
<1>1. CASE Run(s) \/ Gone(s) \/ Finish(s)
  BY <1>1 DEF Run, Gone, Finish
<1>2. CASE FindAdmin(s)
  BY <1>2 DEF FindAdmin, Fault, NoFault
<1>3. CASE CreateAdmin(s)
  BY <1>3 DEF CreateAdmin, Rejected, Broken, Fault, NoFault
<1>4. CASE CheckFake(s, email)
  BY <1>4 DEF CheckFake, Skip, Fault, NoFault
<1>5. CASE InsertFake(s)
  BY <1>5 DEF InsertFake, Rejected, Broken, Skip, Fault, NoFault
<1> QED
  BY <1>1, <1>2, <1>3, <1>4, <1>5

\* The administrator stays, unless a client deletes it.
AdminStays == Has(Admin) \/ dismissed => Has(Admin)' \/ dismissed'

\* A seeder that a step leaves alone keeps its invariant while the administrator stays.
LEMMA Others ==
    ASSUME NEW q \in Seeders, Room(q), Counted(q), Provisioned(q), Untouched(q), AdminStays
    PROVE  Room(q)' /\ Counted(q)' /\ Provisioned(q)'
BY DEF Room, Counted, Provisioned, PastAdmin, Untouched, AdminStays

\* What the table goes through in a step of a seeder.
LEMMA SeederTable ==
    ASSUME Typed, OneRowPerEmail, NEW s \in Seeders, Inserted(s) \/ UNCHANGED tablevars
    PROVE  OneRowPerEmail' /\ AdminStays
<1>1. CASE Inserted(s)
  BY <1>1 DEF Inserted, OneRowPerEmail, Has, AdminStays
<1>2. CASE UNCHANGED tablevars
  BY <1>2 DEF tablevars, OneRowPerEmail, Has, AdminStays
<1> QED
  BY <1>1, <1>2

\* The steps of a seeder keep the invariant.
LEMMA SeederStepInv ==
    ASSUME SeedInv, NEW s \in Seeders, NEW email \in Emails,
           \/ Run(s) \/ Gone(s) \/ FindAdmin(s) \/ CreateAdmin(s) \/ CheckFake(s, email)
           \/ InsertFake(s) \/ Finish(s)
    PROVE  SeedInv'
<1>0. Typed /\ OneRowPerEmail /\ Room(s) /\ Counted(s) /\ Provisioned(s)
  BY DEF SeedInv
<1> USE <1>0
<1>1. Typed'
  BY TypedSeeder
<1>2. Inserted(s) \/ UNCHANGED tablevars
  <2>1. Run(s) \/ Gone(s) \/ FindAdmin(s) \/ CheckFake(s, email) \/ Finish(s)
        => UNCHANGED tablevars
    BY DEF Run, Gone, FindAdmin, CheckFake, Finish
  <2>2. CreateAdmin(s) \/ InsertFake(s) => Inserted(s) \/ UNCHANGED tablevars
    BY DEF CreateAdmin, InsertFake, Rejected, Broken
  <2> QED
    BY <2>1, <2>2
<1>3. OneRowPerEmail' /\ AdminStays
  BY <1>2, SeederTable
<1>4. Room(s)' /\ Counted(s)' /\ Provisioned(s)'
  <2> USE <1>3 DEF Go, AdminStays
  <2>1. created[s] \in Nat /\ added[s] \in Nat /\ tried[s] \in 0..Count
    BY DEF Typed, TypeRun, TypeCounts
  <2>2. CASE Run(s)
    BY <2>2 DEF Run, Typed, TypeRun, Room, Counted, Provisioned, PastAdmin
  <2>3. CASE Finish(s)
    BY <2>3 DEF Finish, Typed, TypeRun, Room, Counted, Provisioned, PastAdmin
  <2>4. CASE Gone(s)
    BY <2>4 DEF Gone, Typed, TypeRun, TypeCounts, Room, Counted, Provisioned, PastAdmin
  <2>5. CASE FindAdmin(s)
    <3>1. pc'[s] \in {"check", "createAdmin", "failed"} /\ UNCHANGED <<tried, created, added>>
      BY <2>5 DEF FindAdmin, Typed, TypeRun
    <3>2. pc'[s] = "check" => Has(Admin) /\ UNCHANGED hit
      BY <2>5 DEF FindAdmin, Typed, TypeRun, NoFault
    <3>3. pc'[s] = "createAdmin" => candidate'[s].email = Admin /\ UNCHANGED hit
      BY <2>5, NewRows DEF FindAdmin, Typed, TypeRun, NoFault
    <3>4. pc'[s] = "failed" => s \in hit'
      BY <2>5 DEF FindAdmin, Typed, TypeRun, Fault
    <3> QED
      BY <3>1, <3>2, <3>3, <3>4 DEF Room, Counted, Provisioned, PastAdmin
  <2>6. CASE CreateAdmin(s)
    <3>1. pc'[s] \in {"check", "failed"} /\ UNCHANGED <<tried, created, added>>
      BY <2>6 DEF CreateAdmin, Typed, TypeRun
    <3>2. candidate[s].email = Admin
      BY <2>6 DEF CreateAdmin, Provisioned
    <3>3. CASE Inserted(s) /\ NoFault
      <4>1. Has(Admin)'
        BY <3>2, <3>3 DEF Inserted, Has
      <4> QED
        BY <3>1, <3>3, <4>1 DEF NoFault, Room, Counted, Provisioned, PastAdmin
    <3>4. CASE Rejected(s)
      <4>1. Has(Admin)
        BY <3>2, <3>4 DEF Rejected, Has
      <4> QED
        BY <3>1, <3>4, <4>1 DEF Rejected, NoFault, Room, Counted, Provisioned, PastAdmin
    <3>5. CASE Broken(s) /\ pc'[s] = "failed"
      BY <3>1, <3>5 DEF Broken, Fault, Room, Counted, Provisioned, PastAdmin
    <3> QED
      BY <2>6, <3>3, <3>4, <3>5 DEF CreateAdmin, Typed, TypeRun
  <2>7. CASE CheckFake(s, email)
    <3>1. /\ pc[s] = "check" /\ tried[s] < Count /\ UNCHANGED <<created, added>>
          /\ pc'[s] \in {"check", "insert"}
          /\ pc'[s] = "insert" => UNCHANGED tried
          /\ tried'[s] \in {tried[s], tried[s] + 1}
          /\ s \notin hit' => s \notin hit
      BY <2>7 DEF CheckFake, Skip, NoFault, Fault, Typed, TypeRun
    <3> QED
      BY <2>1, <3>1 DEF Room, Counted, Provisioned, PastAdmin
  <2>8. CASE InsertFake(s)
    <3>1. pc[s] = "insert" /\ pc'[s] = "check" /\ tried'[s] = tried[s] + 1
      BY <2>8 DEF InsertFake, Skip, Typed, TypeRun
    <3>2. added'[s] = added[s] + Cardinality(table' \ table)
      BY <2>8 DEF InsertFake, Typed, TypeCounts
    <3>3. Cardinality(table' \ table) \in {0, 1}
      BY <1>2, Additions
    <3>4. \/ Inserted(s) /\ created'[s] = created[s] + 1 /\ UNCHANGED hit
          \/ Rejected(s) /\ UNCHANGED <<created, hit>>
          \/ UNCHANGED created /\ s \in hit'
      BY <2>8 DEF InsertFake, Rejected, Broken, NoFault, Fault, Typed, TypeCounts
    <3>5. /\ Inserted(s) => Cardinality(table' \ table) = 1
          /\ Rejected(s) => Cardinality(table' \ table) = 0
      BY <1>2, Additions DEF Rejected
    <3>6. Counted(s)'
      BY <2>1, <3>1, <3>2, <3>3, <3>4, <3>5 DEF Counted
    <3> QED
      BY <3>1, <3>6 DEF Room, Provisioned, PastAdmin
  <2> QED
    BY <2>2, <2>3, <2>4, <2>5, <2>6, <2>7, <2>8
<1>5. ASSUME NEW q \in Seeders, q # s
      PROVE  Room(q)' /\ Counted(q)' /\ Provisioned(q)'
  BY <1>3, <1>5, Alone, Others DEF SeedInv
<1> QED
  BY <1>1, <1>3, <1>4, <1>5 DEF SeedInv

\* Registrations, deletions and the clock keep it.
LEMMA ApiStepInv ==
    ASSUME SeedInv,
           \/ \E email \in Emails : Register(email)
           \/ \E row \in table : Delete(row)
           \/ Tick \/ UNCHANGED vars
    PROVE  SeedInv'
<1>1. Typed' /\ UNCHANGED seedvars
  BY TypedApi DEF SeedInv
<1>2. OneRowPerEmail' /\ AdminStays
  <2>1. ASSUME NEW email \in Emails, Register(email)
        PROVE  OneRowPerEmail' /\ AdminStays
    BY <2>1 DEF Register, SeedInv, OneRowPerEmail, Has, AdminStays, NewRow
  <2>2. ASSUME NEW row \in table, Delete(row)
        PROVE  OneRowPerEmail' /\ AdminStays
    BY <2>2 DEF Delete, SeedInv, OneRowPerEmail, Has, AdminStays
  <2>3. Tick \/ UNCHANGED vars => OneRowPerEmail' /\ AdminStays
    BY DEF Tick, vars, tablevars, SeedInv, OneRowPerEmail, Has, AdminStays
  <2> QED
    BY <2>1, <2>2, <2>3
<1>3. \A q \in Seeders : Untouched(q)
  BY <1>1 DEF seedvars, Untouched
<1> QED
  BY <1>1, <1>2, <1>3, Others DEF SeedInv

\* Whoever seeds, registers, deletes or fails, every seeder keeps its count, and
\* has an administrator once it is past that statement.
THEOREM SeederInvariant == Spec => []SeedInv
<1>1. Init => SeedInv
  <2> SUFFICES ASSUME Init PROVE SeedInv
    OBVIOUS
  <2>1. Typed
    <3>1. Blank \in Row
      BY DEF Blank, Row
    <3>2. TypeTable
      <4>1. \A e \in Emails : [email |-> e, createdAt |-> 0] \in Row
        BY DEF Row
      <4>2. table = {} \/ \E e \in Emails : table = {[email |-> e, createdAt |-> 0]}
        BY DEF Init
      <4>3. table \subseteq Row
        BY <4>1, <4>2
      <4>4. now = 0 /\ dismissed = FALSE
        BY DEF Init
      <4>5. now \in 0..MaxTime
        BY <4>4
      <4> QED
        BY <4>3, <4>4, <4>5 DEF TypeTable
    <3>3. TypeRun /\ TypeCounts
      BY <3>1 DEF Init, TypeRun, TypeCounts, Places
    <3> QED
      BY <3>2, <3>3 DEF Typed
  <2>2. OneRowPerEmail
    BY DEF Init, OneRowPerEmail
  <2>3. \A s \in Seeders : Room(s) /\ Counted(s) /\ Provisioned(s)
    BY DEF Init, Room, Counted, Provisioned, PastAdmin
  <2> QED
    BY <2>1, <2>2, <2>3 DEF SeedInv
<1>2. SeedInv /\ [Next]_vars => SeedInv'
  BY SeederStepInv, ApiStepInv DEF Next, SeederStep
<1> QED
  BY <1>1, <1>2, PTL DEF Spec

\* The state is well-formed, and no run tries more often than it was told to.
THEOREM SeederTypeCorrect == Spec => []TypeOK
<1>1. SeedInv => TypeOK
  <2> SUFFICES ASSUME SeedInv PROVE TypeOK
    OBVIOUS
  <2>1. \A s \in Seeders : created[s] \in 0..Count /\ added[s] \in 0..Count
    BY DEF SeedInv, Typed, TypeRun, TypeCounts, Counted
  <2> QED
    BY <2>1 DEF SeedInv, Typed, TypeTable, TypeRun, TypeCounts, TypeOK, Places
<1> QED
  BY <1>1, SeederInvariant, PTL

\* Seeding is safe to repeat and to run several times at once: no email twice,
\* and an administrator behind every seeder that went past it.
THEOREM SeedingIsSafe == Spec => []SafeToRepeat
<1>1. SeedInv => SafeToRepeat
  BY DEF SeedInv, OneRowPerEmail, Provisioned, PastAdmin, SafeToRepeat
<1> QED
  BY <1>1, SeederInvariant, PTL

\* The count a seeder reports is that of users it added, and falls short of them
\* only when the database failed it.
THEOREM CountIsHonest == Spec => []CountHonest
<1>1. SeedInv => CountHonest
  BY DEF SeedInv, Typed, TypeRun, TypeCounts, Counted, CountHonest
<1> QED
  BY <1>1, SeederInvariant, PTL
HIDE SeederAssumption

-----------------------------------------------------------------------------
(* Listing: ranks and slices.                                                 *)

\* How many rows come before this one, whatever the database does about ties.
Rank(rows, row) == Cardinality({other \in rows : Newer(other, row)})

Tied(rows) == \E row, other \in rows : row # other /\ row.createdAt = other.createdAt

\* A finite set has a rank for every row, and additions only raise it.
LEMMA RankGrows ==
    ASSUME NEW rows, NEW more, IsFiniteSet(more), rows \subseteq more, NEW row
    PROVE  /\ Rank(rows, row) \in Nat /\ Rank(more, row) \in Nat
           /\ Rank(rows, row) =< Rank(more, row)
<1> DEFINE Before(set) == {other \in set : Newer(other, row)}
<1>1. IsFiniteSet(Before(more))
  BY FS_Subset
<1>2. IsFiniteSet(Before(rows)) /\ Cardinality(Before(rows)) =< Cardinality(Before(more))
  BY <1>1, FS_Subset
<1> QED
  BY <1>1, <1>2, FS_CardinalityType DEF Rank

\* An order of the rows is a sequence that has each of them once.
LEMMA OrderFacts ==
    ASSUME NEW rows, IsFiniteSet(rows), NEW q \in Orders(rows)
    PROVE  /\ Cardinality(rows) \in Nat
           /\ q \in Seq(rows) /\ Len(q) = Cardinality(rows)
           /\ \A i, j \in 1..Len(q) : i # j => q[i] # q[j]
           /\ \A i, j \in 1..Len(q) : i < j => ~Newer(q[j], q[i])
           /\ \A row \in rows : \E i \in 1..Len(q) : q[i] = row
<1> DEFINE n == Cardinality(rows)
<1>1. n \in Nat
  BY FS_CardinalityType
<1> HIDE DEF n
<1>2. q \in [1..n -> rows] /\ \A i, j \in 1..n : i # j => q[i] # q[j]
  BY DEF Orders, SetToSeqs, n
<1>3. q \in Seq(rows) /\ Len(q) = n
  BY <1>1, <1>2
<1>4. \A i, j \in 1..n : i < j => ~Newer(q[j], q[i])
  BY <1>2 DEF Orders
<1>5. q \in Surjection(1..n, rows)
  <2>1. q \in Injection(1..n, rows)
    BY <1>2 DEF Injection, IsInjective
  <2>2. Cardinality(1..n) = n
    BY <1>1, FS_Interval
  <2> QED
    BY <2>1, <2>2, FS_Injection DEF n
<1>6. \A row \in rows : \E i \in 1..n : q[i] = row
  BY <1>5 DEF Surjection
<1> QED
  BY <1>1, <1>2, <1>3, <1>4, <1>6 DEF n

\* Without ties the place of a row in the order is its rank.
LEMMA PlaceIsRank ==
    ASSUME NEW rows \in SUBSET Row, IsFiniteSet(rows), ~Tied(rows),
           NEW q \in Orders(rows), NEW i \in 1..Len(q)
    PROVE  Rank(rows, q[i]) = i - 1
<1>1. /\ Len(q) \in Nat /\ q \in [1..Len(q) -> rows]
      /\ \A j, k \in 1..Len(q) : j # k => q[j] # q[k]
      /\ \A j, k \in 1..Len(q) : j < k => ~Newer(q[k], q[j])
      /\ \A row \in rows : \E j \in 1..Len(q) : q[j] = row
  BY OrderFacts
<1> DEFINE Before == {other \in rows : Newer(other, q[i])}
           f == [j \in 1..(i - 1) |-> q[j]]
<1>2. \A j \in 1..Len(q) : q[j] \in Before <=> j < i
  <2> SUFFICES ASSUME NEW j \in 1..Len(q) PROVE q[j] \in Before <=> j < i
    OBVIOUS
  <2>1. q[i] \in rows /\ q[j] \in rows
    BY <1>1
  <2>2. q[i].createdAt \in Int /\ q[j].createdAt \in Int
    BY <2>1 DEF Row
  <2>3. j # i => q[i].createdAt # q[j].createdAt
    BY <1>1, <2>1 DEF Tied
  <2>4. j < i => ~Newer(q[i], q[j])
    BY <1>1
  <2>5. i < j => ~Newer(q[j], q[i])
    BY <1>1
  <2> QED
    BY <2>1, <2>2, <2>3, <2>4, <2>5 DEF Newer
<1>3. 1..(i - 1) \subseteq 1..Len(q)
  BY <1>1
<1>4. f \in [1..(i - 1) -> Before]
  BY <1>2, <1>3
<1>5. f \in Surjection(1..(i - 1), Before)
  <2> SUFFICES ASSUME NEW row \in Before PROVE \E j \in 1..(i - 1) : f[j] = row
    BY <1>4 DEF Surjection
  <2>1. PICK j \in 1..Len(q) : q[j] = row
    BY <1>1
  <2>2. j < i
    BY <1>2, <2>1
  <2> QED
    BY <1>1, <2>1, <2>2
<1>6. f \in Injection(1..(i - 1), Before)
  BY <1>1, <1>3, <1>4 DEF Injection, IsInjective
<1>7. IsFiniteSet(1..(i - 1)) /\ Cardinality(1..(i - 1)) = i - 1
  <2>1. i - 1 \in Nat
    BY <1>1
  <2> DEFINE k == i - 1
  <2> HIDE DEF k
  <2>2. k \in Nat => IsFiniteSet(1..k) /\ Cardinality(1..k) = k
    BY FS_Interval
  <2> QED
    BY <2>1, <2>2 DEF k
<1>8. Cardinality(Before) = i - 1
  BY <1>5, <1>6, <1>7, FS_Surjection
<1> QED
  BY <1>8 DEF Rank

\* LIMIT and OFFSET: how many rows, and which.
Fit(left, limit) == IF left < 0 THEN 0 ELSE IF left < limit THEN left ELSE limit
OnPage(i, offset, limit) == offset < i /\ i =< offset + limit

\* What Slice returns: how many items, and which.
LEMMA SliceFacts ==
    ASSUME NEW S, NEW q \in Seq(S), NEW offset \in Nat, NEW limit \in Nat
    PROVE  /\ Slice(q, offset, limit) \in Seq(S)
           /\ Len(Slice(q, offset, limit)) = Fit(Len(q) - offset, limit)
           /\ \A row : row \in ToSet(Slice(q, offset, limit)) <=>
                 \E i \in 1..Len(q) : OnPage(i, offset, limit) /\ row = q[i]
<1> DEFINE last == IF offset + limit < Len(q) THEN offset + limit ELSE Len(q)
           s == SubSeq(q, offset + 1, last)
<1>1. Len(q) \in Nat /\ last \in 0..Len(q) /\ last \in Nat
  OBVIOUS
<1>2. /\ s \in Seq(S)
      /\ Len(s) = IF offset + 1 =< last THEN last - offset ELSE 0
      /\ \A j \in 1..Len(s) : s[j] = q[offset + j]
  <2>1. \A i \in (offset + 1)..last : q[i] \in S
    BY <1>1, ElementOfSeq
  <2> QED
    BY <1>1, <2>1, SubSeqProperties
<1>3. \A row : row \in ToSet(s) <=> \E j \in 1..Len(s) : row = s[j]
  <2>1. DOMAIN s = 1..Len(s)
    BY <1>2, LenProperties
  <2> QED
    BY <2>1 DEF ToSet
<1> HIDE DEF s
<1>4. ASSUME NEW row
      PROVE  (\E j \in 1..Len(s) : row = s[j]) <=>
             \E i \in 1..Len(q) : offset < i /\ i =< offset + limit /\ row = q[i]
  <2>1. ASSUME NEW j \in 1..Len(s), row = s[j]
        PROVE  \E i \in 1..Len(q) : offset < i /\ i =< offset + limit /\ row = q[i]
    <3>1. /\ offset + j \in 1..Len(q) /\ offset < offset + j
          /\ offset + j =< offset + limit
      BY <1>1, <1>2
    <3> QED
      BY <1>2, <2>1, <3>1
  <2>2. ASSUME NEW i \in 1..Len(q), offset < i, i =< offset + limit, row = q[i]
        PROVE  \E j \in 1..Len(s) : row = s[j]
    <3>1. i - offset \in 1..Len(s) /\ offset + (i - offset) = i
      BY <1>1, <1>2, <2>2
    <3> QED
      BY <1>2, <2>2, <3>1
  <2> QED
    BY <2>1, <2>2
<1>5. Slice(q, offset, limit) = s
  BY DEF Slice, s
<1>6. Len(s) = Fit(Len(q) - offset, limit)
  BY <1>1, <1>2 DEF Fit
<1>7. s \in Seq(S)
  BY <1>2
<1>8. \A row : row \in ToSet(s) <=>
         \E i \in 1..Len(q) : OnPage(i, offset, limit) /\ row = q[i]
  BY <1>3, <1>4 DEF OnPage
<1> HIDE DEF last
<1> QED
  BY <1>5, <1>6, <1>7, <1>8

-----------------------------------------------------------------------------
(* Listing: the client.                                                       *)

ClientTyped ==
    /\ walk \in {"off", "asked", "counted", "answered", "over"}
    /\ page \in Nat \ {0} /\ size \in Sizes \union {DefaultSize}
    /\ total \in 0..Cardinality(Emails)
    /\ items \in Seq(Row) /\ Len(items) =< UsedSize
    /\ seen \subseteq Row /\ first \subseteq Row /\ repeated \in BOOLEAN
    /\ trouble \subseteq {"deleted", "grew", "between", "tied"}

Underway == walk \in {"asked", "counted", "answered"}

\* Rows of lower rank are behind the client.
Past == Offset(UsedPage, UsedSize) + IF walk = "answered" THEN UsedSize ELSE 0

\* Nothing but new rows, and none between the two statements.
Quiet == trouble \subseteq {"grew"}

\* What the client has not seen of the first rows is still ahead of it.
UnseenAhead ==
    Underway /\ Quiet =>
        first \subseteq table /\ \A row \in first \ seen : Rank(table, row) >= Past

\* A count is true until the table changes, and leaves room for what is unseen.
TotalCounted == walk = "counted" /\ "between" \notin trouble => total = Cardinality(table)
UnseenCounted == walk = "answered" /\ Quiet => \A row \in first \ seen : Past < total

\* While the table is left alone, what has been seen is behind the client.
SeenBehind ==
    Underway /\ trouble = {} =>
        /\ first = table /\ ~repeated
        /\ \A row \in seen : row \in table /\ Rank(table, row) < Past

\* A client that is not reading has forgotten what it read.
Forgotten == walk = "off" => items = <<>> /\ seen = {} /\ ~repeated

WalkInv ==
    /\ ClientTyped /\ Forgotten /\ UnseenAhead /\ TotalCounted /\ UnseenCounted /\ SeenBehind
    /\ PageMatchesTotal /\ WalkIsFaithful

\* The clamps of the usecase leave numbers to compute with.
LEMMA Clamped ==
    ASSUME ClientTyped
    PROVE  /\ UsedPage = page /\ UsedSize \in Nat \ {0} /\ size \in Int
           /\ Honoured => UsedSize = size
           /\ Offset(UsedPage, UsedSize) \in Nat /\ Past \in Nat
<1>1. UsedPage = page /\ page \in Nat \ {0} /\ size \in Int /\ UsedSize \in Nat \ {0}
  BY ListingAssumption DEF ClientTyped, UsedPage, UsedSize
<1>2. Offset(UsedPage, UsedSize) \in Nat
  BY <1>1 DEF Offset
<1>3. Honoured => UsedSize = size
  BY <1>1, ListingAssumption DEF Honoured, UsedSize
<1> QED
  BY <1>1, <1>2, <1>3 DEF Past

\* The next page begins where this one ends.
LEMMA NextOffset ==
    ASSUME NEW p \in Nat \ {0}, NEW limit \in Nat
    PROVE  Offset(p + 1, limit) = Offset(p, limit) + limit
BY DEF Offset

\* Beyond total_pages there is nothing left.
LEMMA LastPage ==
    ASSUME total \in Nat, size \in Nat \ {0}, page \in Nat, ~(page < TotalPages)
    PROVE  total =< page * size
<1> DEFINE d == (total + size - 1) \div size
<1>1. d \in Int /\ total + size - 1 < d * size + size
  OBVIOUS
<1>2. d =< page
  BY DEF TotalPages
<1>3. d * size =< page * size
  BY <1>1, <1>2
<1> HIDE DEF d
<1> QED
  BY <1>1, <1>3

\* There are no more rows than emails.
LEMMA RowsAreFinite ==
    ASSUME NEW rows \in SUBSET Row,
           \A row, other \in rows : row.email = other.email => row = other
    PROVE  IsFiniteSet(rows) /\ Cardinality(rows) \in 0..Cardinality(Emails)
<1> DEFINE f == [row \in rows |-> row.email]
<1>1. f \in Injection(rows, Emails)
  BY DEF Row, Injection, IsInjective
<1>2. IsFiniteSet(rows) /\ Cardinality(rows) =< Cardinality(Emails)
  BY <1>1, FS_Injection, ListingAssumption
<1> QED
  BY <1>2, FS_CardinalityType, ListingAssumption

\* What one statement of FindAll makes of the walk.
LEMMA FindPage ==
    ASSUME SeedInv, WalkInv, FindUsers
    PROVE  WalkInv'
<1> DEFINE off == Offset(UsedPage, UsedSize)
           lim == UsedSize
<1>1. /\ UsedPage = page /\ off \in Nat /\ lim \in Nat \ {0} /\ Past = off
      /\ UNCHANGED <<UsedPage, UsedSize, Offset(UsedPage, UsedSize)>> /\ Past' = off + lim
  <2>1. UNCHANGED <<UsedPage, UsedSize, Offset(UsedPage, UsedSize)>>
    BY DEF FindUsers, UsedPage, UsedSize
  <2> QED
    BY <2>1, Clamped DEF WalkInv, FindUsers, Past
<1> HIDE DEF off, lim
<1>2. IsFiniteSet(table) /\ Cardinality(table) \in Nat /\ table \subseteq Row
  BY RowsAreFinite, FS_CardinalityType DEF SeedInv, Typed, TypeTable, OneRowPerEmail
<1>3. PICK q \in Orders(table) : items' = Slice(q, off, lim)
  BY DEF FindUsers, off, lim
<1>4. /\ q \in Seq(table) /\ Len(q) = Cardinality(table)
      /\ \A row \in table : \E i \in 1..Len(q) : q[i] = row
  BY <1>2, <1>3, OrderFacts
<1>5. /\ items' \in Seq(table) /\ Len(items') = Fit(Len(q) - off, lim)
      /\ \A row : row \in ToSet(items') <=>
            \E i \in 1..Len(q) : OnPage(i, off, lim) /\ row = q[i]
  <2>1. off \in Nat /\ lim \in Nat /\ q \in Seq(table)
    BY <1>1, <1>4
  <2>2. Slice(q, off, lim) \in Seq(table)
    BY <2>1, SliceFacts
  <2>3. Len(Slice(q, off, lim)) = Fit(Len(q) - off, lim)
    BY <2>1, SliceFacts
  <2>4. \A row : row \in ToSet(Slice(q, off, lim)) <=>
           \E i \in 1..Len(q) : OnPage(i, off, lim) /\ row = q[i]
    BY <2>1, SliceFacts
  <2> QED
    BY <1>3, <2>2, <2>3, <2>4
<1>6. ToSet(items') \subseteq table
  BY <1>4, <1>5, ElementOfSeq
<1>7. ClientTyped'
  <2>1. items' \in Seq(Row)
    BY <1>2, <1>5, SeqMonotonic
  <2>2. Len(items') =< UsedSize'
    BY <1>1, <1>2, <1>4, <1>5 DEF lim, Fit
  <2>3. seen' \subseteq Row /\ repeated' \in BOOLEAN
    BY <1>2, <1>6 DEF FindUsers, WalkInv, ClientTyped
  <2>4. trouble' \subseteq {"deleted", "grew", "between", "tied"}
    BY DEF FindUsers, WalkInv, ClientTyped
  <2> QED
    BY <2>1, <2>2, <2>3, <2>4 DEF FindUsers, WalkInv, ClientTyped
<1>8. trouble \subseteq trouble' /\ ("tied" \notin trouble' => ~Tied(table))
  BY DEF FindUsers, Tied
<1>9. ASSUME ~Tied(table), NEW i \in 1..Len(q)
      PROVE  Rank(table, q[i]) = i - 1
  BY <1>2, <1>3, <1>9, PlaceIsRank
<1>10. "between" \notin trouble' => total = Len(q)
  BY <1>4, <1>8 DEF FindUsers, WalkInv, TotalCounted
<1>11. ASSUME Quiet', NEW row \in first' \ seen'
       PROVE  row \in table /\ Rank(table, row) >= off + lim /\ off + lim < total
  <2>1. Quiet /\ ~Tied(table) /\ total = Len(q)
    BY <1>8, <1>10, <1>11 DEF Quiet
  <2>2. row \in first \ seen /\ row \notin ToSet(items')
    BY DEF FindUsers
  <2>3. row \in table /\ Rank(table, row) >= off
    BY <1>1, <2>1, <2>2 DEF FindUsers, WalkInv, UnseenAhead, Underway
  <2>4. PICK i \in 1..Len(q) : q[i] = row
    BY <1>4, <2>3
  <2>5. Rank(table, row) = i - 1
    BY <1>9, <2>1, <2>4
  <2>6. ~OnPage(i, off, lim)
    BY <1>5, <2>2, <2>4
  <2>7. Len(q) \in Nat /\ i \in Nat /\ i =< Len(q)
    BY <1>4
  <2> QED
    BY <1>1, <2>1, <2>3, <2>5, <2>6, <2>7 DEF OnPage
<1>12. UnseenAhead' /\ UnseenCounted'
  <2>1. Quiet' => first' \subseteq table'
    BY <1>8 DEF FindUsers, WalkInv, UnseenAhead, Underway, Quiet, vars, tablevars
  <2>2. UNCHANGED <<table, total>>
    BY DEF FindUsers, vars, tablevars
  <2> QED
    BY <1>1, <1>11, <2>1, <2>2 DEF UnseenAhead, UnseenCounted
<1>13. SeenBehind'
  <2> SUFFICES ASSUME trouble' = {}
               PROVE  /\ first' = table' /\ ~repeated'
                      /\ \A row \in seen' : row \in table' /\ Rank(table', row) < Past'
    BY DEF SeenBehind
  <2>1. trouble = {} /\ ~Tied(table) /\ table' = table
    BY <1>8 DEF FindUsers, vars, tablevars
  <2>2. /\ first = table /\ ~repeated
        /\ \A row \in seen : row \in table /\ Rank(table, row) < off
    BY <1>1, <2>1 DEF FindUsers, WalkInv, SeenBehind, Underway
  <2>3. \A row \in ToSet(items') : /\ row \in table
                                  /\ off =< Rank(table, row) /\ Rank(table, row) < off + lim
    <3> SUFFICES ASSUME NEW row \in ToSet(items')
                 PROVE  /\ row \in table
                        /\ off =< Rank(table, row) /\ Rank(table, row) < off + lim
      OBVIOUS
    <3>1. PICK i \in 1..Len(q) : OnPage(i, off, lim) /\ row = q[i]
      BY <1>5
    <3>2. Rank(table, row) = i - 1 /\ i \in Int
      BY <1>9, <2>1, <3>1
    <3> QED
      BY <1>1, <1>6, <3>1, <3>2 DEF OnPage
  <2>4. ToSet(items') \intersect seen = {}
    <3> SUFFICES ASSUME NEW row \in ToSet(items'), row \in seen PROVE FALSE
      OBVIOUS
    <3>1. Rank(table, row) \in Nat
      BY <1>2, RankGrows
    <3> QED
      BY <1>1, <2>2, <2>3, <3>1
  <2>5. ~repeated' /\ first' = table' /\ seen' = seen \union ToSet(items')
    BY <2>1, <2>2, <2>4 DEF FindUsers
  <2>6. ASSUME NEW row \in seen'
        PROVE  row \in table' /\ Rank(table', row) < Past'
    <3>1. row \in table /\ Rank(table, row) < off + lim
      <4>1. CASE row \in ToSet(items')
        BY <2>3, <4>1
      <4>2. CASE row \in seen
        <5>1. Rank(table, row) \in Nat
          BY <1>2, RankGrows
        <5> QED
          BY <1>1, <2>2, <4>2, <5>1
      <4> QED
        BY <2>5, <2>6, <4>1, <4>2
    <3> QED
      BY <1>1, <2>1, <3>1
  <2> QED
    BY <2>5, <2>6
<1>14. PageMatchesTotal'
  <2> SUFFICES ASSUME "between" \notin trouble'
               PROVE  Len(items') = Fit(total - off, lim)
    <3>1. total' = total /\ UsedSize' = lim /\ Offset(UsedPage, UsedSize)' = off
      BY <1>1 DEF FindUsers, lim, off
    <3> QED
      BY <3>1 DEF PageMatchesTotal, Fit, off
  <2> QED
    BY <1>5, <1>10
<1>15. Forgotten' /\ TotalCounted' /\ WalkIsFaithful'
  BY DEF FindUsers, Forgotten, TotalCounted, WalkIsFaithful
<1> QED
  BY <1>7, <1>12, <1>13, <1>14, <1>15 DEF WalkInv

\* A client that asks for the next page has passed what it has seen.
LEMMA AskNextPage ==
    ASSUME WalkInv, NextPage
    PROVE  WalkInv'
<1>1. /\ UsedPage = page /\ page \in Nat \ {0} /\ UsedSize \in Nat \ {0} /\ total \in Nat
      /\ size \in Int /\ Honoured => UsedSize = size
  <2>1. total \in Nat
    BY FS_CardinalityType DEF WalkInv, ClientTyped
  <2> QED
    BY <2>1, Clamped DEF WalkInv, ClientTyped
<1>2. ClientTyped'
  <2>1. UsedSize' = UsedSize /\ items' = <<>> /\ page' \in Nat \ {0}
    BY <1>1 DEF NextPage, UsedSize
  <2> QED
    BY <1>1, <2>1 DEF NextPage, WalkInv, ClientTyped
<1>3. CASE walk' = "asked"
  <2>1. page' = page + 1 /\ UsedSize' = UsedSize /\ UsedPage' = page + 1
    <3>1. page' = page + 1 /\ UNCHANGED size
      BY <1>3 DEF NextPage
    <3> QED
      BY <1>1, <3>1 DEF UsedSize, UsedPage
  <2>2. Past' = Past
    BY <1>1, <1>3, <2>1, NextOffset DEF NextPage, Past, Offset
  <2>3. UNCHANGED <<table, first, seen, trouble, repeated>> /\ walk = "answered"
    BY DEF NextPage, vars, tablevars
  <2>4. UnseenAhead' /\ SeenBehind'
    BY <2>2, <2>3 DEF WalkInv, UnseenAhead, SeenBehind, Underway, Quiet
  <2> QED
    BY <1>2, <1>3, <2>4
       DEF WalkInv, Forgotten, TotalCounted, UnseenCounted, PageMatchesTotal,
           WalkIsFaithful
<1>4. CASE walk' = "over"
  <2>1. ~(page < TotalPages) /\ walk = "answered"
    BY <1>4 DEF NextPage
  <2>2. UNCHANGED <<size, page, first, seen, trouble, repeated>>
    BY <1>4 DEF NextPage
  <2>3. ASSUME Honoured, Quiet
        PROVE  first \subseteq seen
    <3>1. size \in Nat \ {0} /\ UsedSize = size
      BY <1>1, <2>3 DEF Honoured
    <3>2. total =< page * size
      BY <1>1, <2>1, <3>1, LastPage
    <3>3. Past = page * size
      BY <1>1, <2>1, <3>1 DEF Past, Offset
    <3>4. page * size \in Nat
      BY <1>1, <3>1
    <3>5. \A row \in first \ seen : Past < total
      BY <2>1, <2>3 DEF WalkInv, UnseenCounted
    <3> QED
      BY <1>1, <3>2, <3>3, <3>4, <3>5
  <2>4. trouble = {} => ~repeated
    BY <2>1 DEF WalkInv, SeenBehind, Underway
  <2>5. WalkIsFaithful'
    BY <2>2, <2>3, <2>4 DEF WalkIsFaithful, Honoured, Quiet
  <2> QED
    BY <1>2, <1>4, <2>5
       DEF WalkInv, Forgotten, UnseenAhead, TotalCounted, UnseenCounted, SeenBehind,
           Underway, PageMatchesTotal
<1> QED
  BY <1>3, <1>4 DEF NextPage

\* The steps of the client that show it nothing keep the invariant.
LEMMA OtherClientSteps ==
    ASSUME SeedInv, WalkInv,
           \/ \E asked \in Sizes : Begin(asked)
           \/ CountUsers \/ ListFails \/ Forget
           \/ UNCHANGED listingvars
    PROVE  WalkInv'
<1> USE DEF WalkInv, Underway, Quiet
<1>1. IsFiniteSet(table) /\ Cardinality(table) \in 0..Cardinality(Emails) /\ table \subseteq Row
  BY RowsAreFinite DEF SeedInv, Typed, TypeTable, OneRowPerEmail
<1>2. ASSUME NEW asked \in Sizes, Begin(asked)
      PROVE  WalkInv'
  <2>1. /\ page' = 1 /\ UsedPage' = 1 /\ UsedSize' \in Nat \ {0}
        /\ size' \in Sizes \union {DefaultSize}
    BY <1>2, ListingAssumption DEF Begin, UsedPage, UsedSize
  <2>2. /\ walk = "off" /\ walk' = "asked" /\ items' = <<>> /\ seen' = {}
        /\ repeated' = FALSE /\ first' = table /\ table' = table
    BY <1>2 DEF Begin, Forgotten, ClientTyped, vars, tablevars
  <2>3. ClientTyped'
    BY <1>1, <1>2, <2>1, <2>2 DEF Begin, ClientTyped
  <2>4. Past' = 0
    <3>1. Past' = Offset(1, UsedSize')
      BY <2>1, <2>2 DEF Past, Offset
    <3>2. \A limit \in Nat : Offset(1, limit) = 0
      BY DEF Offset
    <3> QED
      BY <2>1, <3>1, <3>2
  <2>5. \A row : Rank(table, row) \in Nat
    BY <1>1, RankGrows
  <2>6. UnseenAhead' /\ SeenBehind'
    BY <2>2, <2>4, <2>5 DEF UnseenAhead, SeenBehind
  <2> QED
    BY <2>2, <2>3, <2>6
       DEF Forgotten, TotalCounted, UnseenCounted, PageMatchesTotal, WalkIsFaithful
<1>3. CASE CountUsers
  <2>1. ClientTyped'
    BY <1>1, <1>3 DEF CountUsers, ClientTyped, UsedSize
  <2>2. Past' = Past /\ UNCHANGED <<table, first, seen, trouble, repeated>>
    BY <1>3 DEF CountUsers, Past, Offset, UsedPage, UsedSize, vars, tablevars
  <2>3. UnseenAhead' /\ SeenBehind'
    BY <1>3, <2>2 DEF CountUsers, UnseenAhead, SeenBehind
  <2> QED
    BY <1>3, <2>1, <2>2, <2>3
       DEF CountUsers, Forgotten, TotalCounted, UnseenCounted, PageMatchesTotal,
           WalkIsFaithful
<1>4. CASE ListFails \/ Forget
  <2>1. Forgets
    BY <1>4 DEF ListFails, Forget
  <2>2. Len(items') =< UsedSize' /\ items' \in Seq(Row)
    BY <2>1, ListingAssumption DEF Forgets, UsedSize
  <2>3. total' \in 0..Cardinality(Emails)
    BY <2>1, FS_CardinalityType, ListingAssumption DEF Forgets
  <2>4. ClientTyped'
    <3>1. /\ walk' = "off" /\ page' = 1 /\ size' = DefaultSize
          /\ seen' = {} /\ first' = {} /\ repeated' = FALSE /\ trouble' = {}
      BY <2>1 DEF Forgets
    <3>2. /\ seen' \subseteq Row /\ first' \subseteq Row /\ repeated' \in BOOLEAN
          /\ trouble' \subseteq {"deleted", "grew", "between", "tied"}
      BY <3>1
    <3>3. /\ walk' \in {"off", "asked", "counted", "answered", "over"}
          /\ page' \in Nat \ {0} /\ size' \in Sizes \union {DefaultSize}
      BY <3>1
    <3> QED
      BY <2>2, <2>3, <3>2, <3>3 DEF ClientTyped
  <2> QED
    BY <2>1, <2>4 DEF Forgets, Forgotten, UnseenAhead, TotalCounted, UnseenCounted,
                      SeenBehind, PageMatchesTotal, WalkIsFaithful
<1>5. CASE UNCHANGED listingvars
  BY <1>5 DEF listingvars, walkvars, vars, tablevars, ClientTyped, Forgotten, UnseenAhead,
              TotalCounted, UnseenCounted, SeenBehind, PageMatchesTotal, WalkIsFaithful,
              UsedSize, UsedPage, Offset, Past, Honoured
<1> QED
  BY <1>2, <1>3, <1>4, <1>5

\* Others change the table under the client.
LEMMA TableChanges ==
    ASSUME SeedInv, SeedInv', WalkInv, Beside(Next)
    PROVE  WalkInv'
<1>1. UNCHANGED <<walk, page, size, total, items, seen, repeated, first>>
  BY DEF Beside
<1>2. UNCHANGED <<UsedPage, UsedSize, Offset(UsedPage, UsedSize), Past>>
  BY <1>1 DEF UsedPage, UsedSize, Offset, Past
<1>3. trouble \subseteq trouble'
  BY DEF Beside
<1>4. ASSUME Underway
      PROVE  /\ Quiet' => Quiet /\ table \subseteq table'
             /\ trouble' = {} => trouble = {} /\ table' = table
             /\ "between" \notin trouble' /\ walk = "counted" => table' = table
  BY <1>3, <1>4 DEF Beside, Underway, Quiet, Noticed
<1>5. ClientTyped'
  <2>1. trouble' \subseteq {"deleted", "grew", "between", "tied"}
    BY DEF Beside, WalkInv, ClientTyped, Noticed
  <2> QED
    BY <1>1, <1>2, <2>1 DEF WalkInv, ClientTyped
<1>6. UnseenAhead'
  <2> SUFFICES ASSUME Underway, Quiet'
               PROVE  /\ first \subseteq table'
                      /\ \A row \in first \ seen : Rank(table', row) >= Past
    BY <1>1, <1>2 DEF UnseenAhead, Underway
  <2>1. /\ table \subseteq table' /\ first \subseteq table
        /\ \A row \in first \ seen : Rank(table, row) >= Past
    BY <1>4 DEF WalkInv, UnseenAhead
  <2>2. \A row : /\ Rank(table, row) \in Nat /\ Rank(table', row) \in Nat
                 /\ Rank(table, row) =< Rank(table', row)
    <3>1. IsFiniteSet(table')
      BY RowsAreFinite DEF SeedInv, Typed, TypeTable, OneRowPerEmail
    <3> QED
      BY <2>1, <3>1, RankGrows
  <2>3. Past \in Nat
    BY Clamped DEF WalkInv
  <2> QED
    BY <2>1, <2>2, <2>3
<1>7. TotalCounted' /\ SeenBehind'
  <2>1. TotalCounted'
    BY <1>1, <1>3, <1>4 DEF WalkInv, TotalCounted, Underway
  <2>2. SeenBehind'
    BY <1>1, <1>2, <1>4 DEF WalkInv, SeenBehind, Underway
  <2> QED
    BY <2>1, <2>2
<1>8. UnseenCounted' /\ PageMatchesTotal'
  <2>1. UnseenCounted'
    BY <1>1, <1>2, <1>3 DEF WalkInv, UnseenCounted, Quiet
  <2>2. PageMatchesTotal'
    BY <1>1, <1>2, <1>3 DEF WalkInv, PageMatchesTotal
  <2> QED
    BY <2>1, <2>2
<1>9. WalkIsFaithful' /\ Forgotten'
  BY <1>1, <1>3 DEF WalkInv, WalkIsFaithful, Forgotten, Honoured
<1> QED
  BY <1>5, <1>6, <1>7, <1>8, <1>9 DEF WalkInv

-----------------------------------------------------------------------------
(* Listing: the theorems.                                                     *)

\* The client only reads: what it adds to UserSeeder changes none of its state.
THEOREM ListingIsSeeding == ListingSpec => Spec
<1>1. ListingInit => Init
  BY DEF ListingInit
<1>2. [ListingNext]_listingvars => [Next]_vars
  BY DEF ListingNext, Begin, CountUsers, FindUsers, ListFails, NextPage, Forget, Forgets,
         Beside, listingvars
<1> QED
  BY <1>1, <1>2, PTL DEF ListingSpec, Spec

\* So seeding is safe and its counts are true under the eyes of any reader.
THEOREM ReadersDisturbNobody == ListingSpec => [](SafeToRepeat /\ CountHonest)
BY ListingIsSeeding, SeedingIsSafe, CountIsHonest, PTL

\* Where the client is in the table, and what it has seen of it.
THEOREM WalkInvariant == ListingSpec => []WalkInv
<1>1. ListingInit => WalkInv
  <2> SUFFICES ASSUME ListingInit PROVE WalkInv
    OBVIOUS
  <2>1. UsedSize \in Nat /\ Len(items) =< UsedSize /\ items \in Seq(Row)
    BY ListingAssumption DEF ListingInit, UsedSize
  <2>2. Cardinality(Emails) \in Nat
    BY ListingAssumption, FS_CardinalityType
  <2>3. ClientTyped
    <3>1. /\ walk = "off" /\ page = 1 /\ size = DefaultSize /\ total = 0
          /\ seen = {} /\ first = {} /\ repeated = FALSE /\ trouble = {}
      BY DEF ListingInit
    <3>2. total \in 0..Cardinality(Emails)
      BY <2>2, <3>1
    <3>3. /\ seen \subseteq Row /\ first \subseteq Row /\ repeated \in BOOLEAN
          /\ trouble \subseteq {"deleted", "grew", "between", "tied"}
      BY <3>1
    <3>4. /\ walk \in {"off", "asked", "counted", "answered", "over"}
          /\ page \in Nat \ {0} /\ size \in Sizes \union {DefaultSize}
      BY <3>1
    <3> QED
      BY <2>1, <3>2, <3>3, <3>4 DEF ClientTyped
  <2> QED
    BY <2>3 DEF ListingInit, WalkInv, Forgotten, UnseenAhead, TotalCounted, UnseenCounted,
                SeenBehind, Underway, PageMatchesTotal, WalkIsFaithful
<1>2. SeedInv /\ SeedInv' /\ WalkInv /\ [ListingNext]_listingvars => WalkInv'
  BY FindPage, AskNextPage, OtherClientSteps, TableChanges DEF ListingNext
<1> QED
  BY <1>1, <1>2, ListingIsSeeding, SeederInvariant, PTL DEF ListingSpec

\* The client's variables are well-formed: no page is longer than its size, and
\* no count exceeds the number of emails.
THEOREM ListingTypeCorrect == ListingSpec => []ListingTypeOK
<1>1. TypeOK /\ WalkInv => ListingTypeOK
  <2> SUFFICES ASSUME TypeOK, WalkInv PROVE ListingTypeOK
    OBVIOUS
  <2>1. ToSet(items) \subseteq Row
    BY ElementOfSeq, LenProperties DEF WalkInv, ClientTyped, ToSet
  <2> QED
    BY <2>1 DEF WalkInv, ClientTyped, ListingTypeOK
<1> QED
  BY <1>1, WalkInvariant, ListingIsSeeding, SeederTypeCorrect, PTL

\* FindAll: if the table does not change between its two statements, the total it
\* returns says how many rows are on the page, whatever page and size were asked for.
THEOREM PagesMatchTotals == ListingSpec => []PageMatchesTotal
BY WalkInvariant, PTL DEF WalkInv

\* GET /users: a client that reads up to total_pages has seen everybody who was
\* there at the beginning, in the circumstances that WalkIsFaithful names.
THEOREM WalksAreFaithful == ListingSpec => []WalkIsFaithful
BY WalkInvariant, PTL DEF WalkInv
=============================================================================
