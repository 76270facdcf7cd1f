----------------------------- MODULE UserListing -----------------------------
(***************************************************************************)
(* GET /users: GetAll of the handler and the usecase, FindAll of the       *)
(* repository with its two statements, Paginated of pkg/response. A client *)
(* reads page after page up to the total_pages of its last response, while *)
(* seeders and other requests change the table between any two statements. *)
(***************************************************************************)
EXTENDS UserSeeder, SequencesExt

CONSTANTS
    DefaultSize, MaxSize,   \* 10 and 100
    Sizes                   \* BOUND: values of page_size

\* Emails are of bounded length (varchar(150)).
ASSUME ListingAssumption ==
    /\ DefaultSize \in Nat \ {0} /\ MaxSize \in Nat /\ Sizes \subseteq Int
    /\ IsFiniteSet(Emails)

VARIABLES
    walk,       \* the client: "off", "asked", "counted", "answered" or "over"
    page,       \* the page it asks for
    size,       \* the page_size it asks for
    total,      \* the result of Count
    items,      \* the result of Find, and then of the response
    seen,       \* history: the rows of all its responses
    repeated,   \* history: whether a row came twice
    first,      \* history: the rows that were there when it began
    trouble     \* history: what happened to the table meanwhile

walkvars    == <<walk, page, size, total, items, seen, repeated, first, trouble>>
listingvars == <<vars, walkvars>>

-----------------------------------------------------------------------------
(* The arithmetic of a page. *)

UsedPage == IF page < 1 THEN 1 ELSE page
UsedSize == IF size < 1 \/ size > MaxSize THEN DefaultSize ELSE size
Offset(p, limit) == (p - 1) * limit

\* [mutant of TotalPages] the last page, if it is not full, is not counted.
TotalPagesFloor == IF size > 0 THEN total \div size ELSE 0

\* Paginated divides by the size that was asked for, not by the one used.
TotalPages == IF size > 0 THEN (total + size - 1) \div size ELSE 0

\* ORDER BY created_at DESC leaves the order of equal times to the database.
Newer(row, other) == row.createdAt > other.createdAt
Orders(rows) ==
    {q \in SetToSeqs(rows) :
        \A i, j \in DOMAIN q : i < j => ~Newer(q[j], q[i])}

\* [mutant of Slice] one row too many.
SliceOneMore(q, offset, limit) ==
    SubSeq(q, offset + 1, IF offset + limit < Len(q) THEN offset + limit + 1 ELSE Len(q))

\* LIMIT and OFFSET.
Slice(q, offset, limit) ==
    SubSeq(q, offset + 1, IF offset + limit < Len(q) THEN offset + limit ELSE Len(q))

-----------------------------------------------------------------------------
ListingInit ==
    /\ Init
    /\ walk = "off" /\ page = 1 /\ size = DefaultSize
    /\ total = 0 /\ items = <<>>
    /\ seen = {} /\ repeated = FALSE /\ first = {} /\ trouble = {}

\* A client begins to read the users.
Begin(asked) ==
    /\ walk = "off"
    /\ walk' = "asked"
    /\ page' = 1 /\ size' = asked
    /\ first' = table
    /\ UNCHANGED <<vars, total, items, seen, repeated, trouble>>

\* SELECT count(*)
CountUsers ==
    /\ walk = "asked"
    /\ walk' = "counted"
    /\ total' = Cardinality(table)
    /\ UNCHANGED <<vars, page, size, items, seen, repeated, first, trouble>>

\* SELECT ... ORDER BY created_at DESC LIMIT ... OFFSET ..., and the response.
FindUsers ==
    /\ walk = "counted"
    /\ walk' = "answered"
    /\ \E q \in Orders(table) :
          items' = Slice(q, Offset(UsedPage, UsedSize), UsedSize)
    /\ seen' = seen \union ToSet(items')
    /\ repeated' = (repeated \/ ToSet(items') \intersect seen # {})
    /\ trouble' = trouble \union
          IF \E row, other \in table : row # other /\ row.createdAt = other.createdAt
          THEN {"tied"} ELSE {}
    /\ UNCHANGED <<vars, page, size, total, first>>

\* The client asks for the next page, if total_pages says there is one.
NextPage ==
    /\ walk = "answered"
    /\ IF page < TotalPages THEN walk' = "asked" /\ page' = page + 1
                            ELSE walk' = "over" /\ UNCHANGED page
    /\ items' = <<>>
    /\ UNCHANGED <<vars, size, total, seen, repeated, first, trouble>>

\* The client forgets what it has read.
Forgets ==
    /\ walk' = "off" /\ page' = 1 /\ size' = DefaultSize
    /\ total' = 0 /\ items' = <<>>
    /\ seen' = {} /\ repeated' = FALSE /\ first' = {} /\ trouble' = {}
    /\ UNCHANGED vars

Forget == walk = "over" /\ Forgets

\* Either statement fails: the client gets 500 and gives up.
ListFails == walk \in {"asked", "counted"} /\ Forgets

\* What a change of the table means to a client in the middle of its walk.
Noticed ==
    (IF table \ table' # {} THEN {"deleted"} ELSE {})
    \union (IF table' \ table # {} THEN {"grew"} ELSE {})
    \union (IF table' # table /\ walk = "counted" THEN {"between"} ELSE {})

Beside(action) ==
    /\ action
    /\ trouble' = IF walk \in {"asked", "counted", "answered"}
                  THEN trouble \union Noticed ELSE trouble
    /\ UNCHANGED <<walk, page, size, total, items, seen, repeated, first>>

ListingNext ==
    \/ \E asked \in Sizes : Begin(asked)
    \/ CountUsers \/ FindUsers \/ ListFails \/ NextPage \/ Forget
    \/ Beside(Next)

ListingSpec == ListingInit /\ [][ListingNext]_listingvars

-----------------------------------------------------------------------------
\* The client's own variables are well-formed.
ListingTypeOK ==
    /\ TypeOK
    /\ walk \in {"off", "asked", "counted", "answered", "over"}
    /\ page \in Nat \ {0} /\ size \in Sizes \union {DefaultSize}
    /\ total \in 0..Cardinality(Emails)
    /\ ToSet(items) \subseteq Row /\ Len(items) =< UsedSize
    /\ seen \subseteq Row /\ first \subseteq Row /\ repeated \in BOOLEAN
    /\ trouble \subseteq {"deleted", "grew", "between", "tied"}

Honoured == size \in 1..MaxSize

\* total_items of a response tells how many items its page has, unless the
\* table changed between the two statements of FindAll.
PageMatchesTotal ==
    walk = "answered" /\ "between" \notin trouble =>
        LET left == total - Offset(UsedPage, UsedSize) IN
        Len(items) = IF left < 0 THEN 0 ELSE IF left < UsedSize THEN left ELSE UsedSize

\* Reading up to total_pages shows everybody who was there at the beginning,
\* although users are added on the way, as long as nobody is deleted, no
\* creation times are equal, and nobody is added between Count and Find. Nobody
\* is shown twice either while the table is left alone. The page_size has to be
\* one the service honours: above 100 it uses 10 and total_pages does not, so the
\* walk ends too early.
WalkIsFaithful ==
    walk = "over" =>
        /\ Honoured /\ trouble \subseteq {"grew"} => first \subseteq seen
        /\ trouble = {} => ~repeated
=============================================================================
