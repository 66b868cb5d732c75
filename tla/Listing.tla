------------------------------ MODULE Listing -------------------------------
(***************************************************************************)
(* Client.list_indexes and Namespaces.list (and the async ones, the same   *)
(* loops): a list read page by page, following next_after until a page     *)
(* comes without it, while other clients create and delete names.          *)
(*                                                                         *)
(* A name is its place in the order of the listing.  An index is in the    *)
(* catalog of the node that answers.  A namespace is recorded by the peer  *)
(* that served its first write, and each page merges the catalogs of the   *)
(* peers the node reaches for it.  System names are hidden after a page is *)
(* cut, so a page in the middle may be short, or empty.                    *)
(***************************************************************************)
EXTENDS Integers, FiniteSets

CONSTANTS
    Names,        \* the places in the order of the listing
    Hidden,       \* those of system indexes, in the catalog but never shown
    Peers,        \* the nodes of the mesh
    RecordedBy,   \* the peer that records a namespace
    Limit,        \* the entries the node cuts a page to
    Kinds,        \* what is listed: "indexes", "namespaces"
    MaxWrites     \* bound: names created and deleted during the listing

ASSUME ListingAssumption ==
    /\ Names \subseteq Nat \ {0} /\ IsFiniteSet(Names)
    /\ Hidden \subseteq Names
    /\ RecordedBy \in [Names -> Peers]
    /\ Limit \in Nat \ {0}
    /\ Kinds \subseteq {"indexes", "namespaces"}
    /\ MaxWrites \in Nat

VARIABLES
    present,   \* the names in the catalogs
    stable,    \* history: those in them since the listing began
    writes,    \* history: names created and deleted so far
    kind,      \* what is listed
    pc,        \* where the loop is: "page", "done", "raised"
    after,     \* the cursor of the next page, 0 before the first
    out,       \* how often each name is in the list (2: or more)
    partial    \* the floor mark the loop keeps

catalog == <<present, stable, writes>>
vars == <<catalog, kind, pc, after, out, partial>>

-----------------------------------------------------------------------------
(* The node.                                                               *)

\* The entries beyond the cursor that the node sees through the peers reached.
Ahead(reached) ==
    { n \in present : n > after /\ (kind = "namespaces" => RecordedBy[n] \in reached) }

\* The first entries, as many as a page holds.
IsCut(cut, entries) ==
    /\ cut \subseteq entries
    /\ \A n \in cut, o \in entries : o < n => o \in cut
    /\ Cardinality(cut) = Limit \/ (cut = entries /\ Cardinality(entries) < Limit)

\* The next_after of a page: 0 for absent, else its last entry.  It is there
\* when entries remain, and may be there after a page that is just full.
IsNextAfter(next, cut, entries) ==
    \/ next = 0 /\ cut = entries
    \/ next \in cut /\ Cardinality(cut) = Limit /\ \A n \in cut : n <= next

-----------------------------------------------------------------------------
(* The loop.                                                               *)

Init ==
    /\ present \in SUBSET Names
    /\ stable = present
    /\ writes = 0
    /\ kind \in Kinds
    /\ pc = "page"
    /\ after = 0
    /\ out = [n \in Names |-> 0]
    /\ partial = FALSE

\* Slip: the mark of the last page replaces those before it.
Mark_Last(incomplete) == incomplete

\* partial or bool(page.partial); a page of indexes has no such field.
Mark(incomplete) == partial \/ incomplete

\* Slip: a page that shows fewer entries than asked for is taken for the last.
Follows_FullPage(next, shown) == next # 0 /\ Cardinality(shown) = Limit

\* Slip: the loop goes on until a page shows nothing.
Follows_UntilEmpty(next, shown) == shown # {}

\* Another page is fetched: next_after is there, however short the page.
Follows(next, shown) == next # 0

\* Slip: each turn of the loop asks for the first page.
Cursor_Kept(next) == after

\* The cursor of the next page.
Cursor(next) == next

\* A page comes: its entries join the list, and the loop goes on or returns.
Page ==
    /\ pc = "page"
    /\ \E reached \in SUBSET Peers :
       \E cut \in SUBSET Ahead(reached), next \in Names \cup {0} :
          LET shown == cut \ Hidden
          IN  /\ IsCut(cut, Ahead(reached))
              /\ IsNextAfter(next, cut, Ahead(reached))
              /\ out' = [n \in Names |->
                           IF n \in shown /\ out[n] < 2 THEN out[n] + 1 ELSE out[n]]
              /\ partial' = Mark(kind = "namespaces" /\ reached # Peers)
              /\ IF Follows(next, shown)
                 THEN after' = Cursor(next) /\ UNCHANGED pc
                 ELSE pc' = "done" /\ UNCHANGED after
    /\ UNCHANGED <<catalog, kind>>

\* The call for a page raises (see Transport) or its task is cancelled: the
\* exception leaves the loop and the list it built goes with it.
PageFails ==
    /\ pc = "page"
    /\ pc' = "raised"
    /\ out' = [n \in Names |-> 0]
    /\ UNCHANGED <<catalog, kind, after, partial>>

-----------------------------------------------------------------------------
(* Other clients.                                                          *)

Write ==
    /\ writes < MaxWrites
    /\ writes' = writes + 1
    /\ UNCHANGED <<kind, pc, after, out, partial>>

Create(n) ==
    /\ n \notin present
    /\ present' = present \cup {n}
    /\ UNCHANGED stable
    /\ Write

Delete(n) ==
    /\ n \in present
    /\ present' = present \ {n}
    /\ stable' = stable \ {n}
    /\ Write

-----------------------------------------------------------------------------
List == Page \/ PageFails

Next == List \/ \E n \in Names : Create(n) \/ Delete(n)

Spec == Init /\ [][Next]_vars

\* A call for a page returns or raises (see Transport).  Nothing makes
\* anybody create or delete a name.
FairSpec == Spec /\ WF_vars(List)

-----------------------------------------------------------------------------
(* Properties.                                                             *)

Listed == { n \in Names : out[n] > 0 }

\* The ranges of the variables.  No system name is listed, nor any name that
\* a later page could still bring, and an exception leaves no list.
TypeOK ==
    /\ present \in SUBSET Names /\ stable \in SUBSET present
    /\ writes \in 0..MaxWrites
    /\ kind \in Kinds
    /\ pc \in {"page", "done", "raised"}
    /\ after \in Names \cup {0}
    /\ out \in [Names -> 0..2]
    /\ partial \in BOOLEAN
    /\ \A n \in Listed : n \notin Hidden /\ pc # "raised" /\ (pc = "page" => n <= after)

\* A name is listed at most once, however it is deleted and created again
\* between two pages.
ListedOnce == \A n \in Names : out[n] <= 1

\* "The convenient method is the complete one" (list_indexes), and a list of
\* namespaces that is not marked a floor is an answer: a list that is returned
\* unmarked has every name that was there from its first page to its last,
\* short pages, writers and unreachable peers notwithstanding.
WholeUnlessPartial ==
    pc = "done" /\ ~partial => stable \ Hidden \subseteq Listed

\* The loop ends: every page moves the cursor.
ListingEnds == <>(pc # "page")

\* What the listing is to its caller (Scan): one ordered reading of the
\* changing catalog, that is whole or says that it is a floor.
Outcome ==
    IF pc = "page" THEN "none"
    ELSE IF pc = "raised" THEN "raised"
    ELSE IF partial THEN "floor" ELSE "whole"

AbstractScan ==
    INSTANCE Scan WITH Rows <- Names \ Hidden, present <- present \ Hidden,
                       stable <- stable \ Hidden, given <- Listed, outcome <- Outcome

ReadsAsOneScan == AbstractScan!Spec
=============================================================================
