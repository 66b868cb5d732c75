----------------------------- MODULE IterSearch -----------------------------
(***************************************************************************)
(* Client.iter_search (and the async and namespace ones, the same loop):   *)
(* a generator that reads a result set a page at a time, each search       *)
(* starting after the sort values of the last hit it was given.            *)
(*                                                                         *)
(* A row is its place in the sort order, _id tiebreaker included, so a     *)
(* document whose sort field changes leaves one place for another.  Rows   *)
(* come and go while the consumer works through a page.  The rows of the   *)
(* index are spread over claims; the node is external and answers from the *)
(* claims it reaches.                                                      *)
(***************************************************************************)
EXTENDS Integers, FiniteSets

CONSTANTS
    Rows,             \* the places in the sort order
    Claims,           \* the units the index is spread over
    ClaimOf,          \* the claim that holds a row
    PageSize,         \* page_size
    Strictness,       \* the values of require_complete: TRUE, FALSE
    SortValues,       \* whether hits carry their sort values: TRUE, FALSE
    Obedience         \* whether the node follows search_after: TRUE, FALSE

ASSUME IterAssumption ==
    /\ Rows \subseteq Nat \ {0} /\ IsFiniteSet(Rows)
    /\ IsFiniteSet(Claims)
    /\ ClaimOf \in [Rows -> Claims]
    /\ PageSize \in Nat \ {0}
    /\ Strictness \subseteq BOOLEAN
    /\ SortValues \subseteq BOOLEAN
    /\ Obedience \subseteq BOOLEAN

VARIABLES
    live,     \* the rows in the index
    stable,   \* history: the rows in it since the iteration began
    obeys,    \* this node follows search_after
    require_complete,
    pc,       \* where the generator is
    cursor,   \* the cursor of the next search, 0 before the first page
    page,     \* the hits of the page in hand
    sorted,   \* whether they carry sort values
    left,     \* those the consumer has not been given
    given     \* history: how often the consumer was given each row (2: or more)

index == <<live, stable>>
setting == <<obeys, require_complete>>
pageInHand == <<page, sorted, left>>
vars == <<index, setting, pc, cursor, pageInHand, given>>

-----------------------------------------------------------------------------
(* The node.                                                               *)

\* Slip: ask for one row more, to see whether another page follows.
Size_Lookahead == PageSize + 1

\* The size the client asks for.
Size == PageSize

\* The first rows of a set in sort order, as many as were asked for.
IsFirstOf(hits, from) ==
    /\ hits \subseteq from
    /\ \A r \in hits, s \in from : s < r => s \in hits
    /\ Cardinality(hits) = Size \/ (hits = from /\ Cardinality(from) < Size)

\* A search that reaches the claims of "reached".
Matching(reached) ==
    { r \in live : ClaimOf[r] \in reached /\ (obeys => r > cursor) }

\* What an answer says of itself.  The "partial" flag or the count of served
\* claims may each be wrong, but not both when a claim went unserved.
Reports(reached) ==
    { report \in [partial : BOOLEAN, served : {Cardinality(reached), Cardinality(Claims)}] :
        reached # Claims => report.partial \/ report.served < Cardinality(Claims) }

-----------------------------------------------------------------------------
(* The generator.                                                          *)

\* Slip: trust the flag alone.
Complete_FlagOnly(report) == ~report.partial

\* _check_complete does not raise.
Complete(report) == ~report.partial /\ report.served >= Cardinality(Claims)

Init ==
    /\ live \in SUBSET Rows
    /\ stable = live
    /\ obeys \in Obedience
    /\ require_complete \in Strictness
    /\ pc = "search"
    /\ cursor = 0
    /\ page = {} /\ left = {}
    /\ sorted = TRUE
    /\ given = [r \in Rows |-> 0]

\* self.search returns a page, or IncompleteResult is raised.
Search ==
    /\ pc = "search"
    /\ \E reached \in SUBSET Claims, carries \in SortValues :
       \E hits \in SUBSET Matching(reached), report \in Reports(reached) :
          /\ IsFirstOf(hits, Matching(reached))
          /\ IF require_complete /\ ~Complete(report)
             THEN pc' = "raised" /\ UNCHANGED pageInHand
             ELSE /\ pc' = "page"
                  /\ page' = hits
                  /\ left' = hits
                  /\ sorted' = carries
    /\ UNCHANGED <<index, setting, cursor, given>>

\* self.search raises what the transport raised.
SearchFails ==
    /\ pc = "search"
    /\ pc' = "raised"
    /\ UNCHANGED <<index, setting, cursor, pageInHand, given>>

\* yield from page.hits: the consumer asks for the next hit.
Yield ==
    /\ pc = "page"
    /\ \E r \in left :
          /\ \A s \in left : r <= s
          /\ left' = left \ {r}
          /\ given' = [given EXCEPT ![r] = IF @ < 2 THEN @ + 1 ELSE 2]
    /\ UNCHANGED <<index, setting, pc, cursor, page, sorted>>

\* Slip: the first hit of the page.
CursorHit_First(r) == \A s \in page : r <= s

\* The hit whose sort values are the next cursor: the last of the page.
CursorHit(r) == \A s \in page : s <= r

\* Slip: no check that the cursor moved.
Stuck_Unchecked(r) == FALSE

\* "search_after made no progress".
Stuck(r) == r = cursor

\* The page is used up: _cursor_of.  It returns None after an empty page, and
\* raises when the last hit has no sort values or is the cursor of before.
NextCursor ==
    /\ pc = "page"
    /\ left = {}
    /\ \/ /\ page = {}
          /\ pc' = "done"
          /\ UNCHANGED cursor
       \/ \E r \in page :
             /\ CursorHit(r)
             /\ IF ~sorted \/ Stuck(r)
                THEN pc' = "raised" /\ UNCHANGED cursor
                ELSE pc' = "search" /\ cursor' = r
    /\ UNCHANGED <<index, setting, pageInHand, given>>

\* The consumer leaves its loop while the generator waits at a yield.
Abandon ==
    /\ pc = "page"
    /\ left # page
    /\ pc' = "abandoned"
    /\ UNCHANGED <<index, setting, cursor, pageInHand, given>>

-----------------------------------------------------------------------------
(* Other writers.                                                          *)

Insert(r) ==
    /\ r \notin live
    /\ live' = live \cup {r}
    /\ UNCHANGED <<stable, setting, pc, cursor, pageInHand, given>>

Remove(r) ==
    /\ r \in live
    /\ live' = live \ {r}
    /\ stable' = stable \ {r}
    /\ UNCHANGED <<setting, pc, cursor, pageInHand, given>>

-----------------------------------------------------------------------------
Iterate == Search \/ SearchFails \/ Yield \/ NextCursor

Next == Iterate \/ Abandon \/ \E r \in Rows : Insert(r) \/ Remove(r)

Spec == Init /\ [][Next]_vars

\* A search returns or raises (see Transport), and the consumer asks for the
\* next hit until it leaves.  Nothing makes anybody write, stop writing or
\* leave.
FairSpec == Spec /\ WF_vars(Iterate)

-----------------------------------------------------------------------------
(* Properties.                                                             *)

\* The ranges of the variables; a page is never longer than page_size.
TypeOK ==
    /\ live \in SUBSET Rows /\ stable \in SUBSET live
    /\ obeys \in BOOLEAN /\ require_complete \in BOOLEAN
    /\ pc \in {"search", "page", "done", "raised", "abandoned"}
    /\ cursor \in Rows \cup {0}
    /\ page \in SUBSET Rows /\ left \in SUBSET page
    /\ sorted \in BOOLEAN
    /\ given \in [Rows -> 0..2]
    /\ Cardinality(page) <= PageSize

\* Each hit sorts after every hit given before it, across pages and whatever
\* is written meanwhile: none is repeated and the order is kept, as long as
\* the node follows search_after.
GivenInOrder ==
    [][\A r \in Rows : obeys /\ given'[r] > given[r]
                       => \A s \in Rows : given[s] > 0 => s < r]_vars

\* With require_complete, an iteration that ends without an exception has
\* given every row that was there all the time: no page boundary, write,
\* missed claim or disobedient node makes it skip one.
CompleteMeansAll ==
    require_complete /\ pc = "done" => \A r \in stable : given[r] > 0

\* The iteration ends.
IterationEnds == <>(pc \in {"done", "raised", "abandoned"})

\* From some time on nobody adds rows the iteration has still to come to.
QuietAhead == <>[][\A r \in live' \ live : r < cursor]_live

\* From some time on nobody writes at all.
Quiet == <>[][FALSE]_live

\* It does when the node follows search_after and its rows do not grow for
\* ever ahead of it, or when the pages are complete and the writers come to
\* rest ("an iterator that never ends is worse than one that fails",
\* _cursor_of).  In the remaining cases it need not end, whatever the node
\* says of itself: when it ignores search_after, and reaches other claims on
\* each page or writers change what its first page is, the cursor alternates,
\* and _cursor_of compares it with the one before it only.
CompleteOrObedientEnds ==
    (obeys /\ QuietAhead) \/ (require_complete /\ Quiet) => IterationEnds
=============================================================================
