----------------------------- MODULE MCRequests -----------------------------
(* Instances of Requests for TLC. *)
EXTENDS Requests

AllFields == UNION { Fields(m) : m \in DOMAIN Table }

\* Below, at and above the bounds; every false value is 0.
Around(lowest, highest) == {lowest - 1, lowest, highest, highest + 1}
AtTheBounds ==
    ("size" :> Around(0, 10000) @@ "from" :> {-1, 0, 1} @@ "deadline_ms" :> {-1, 0, 1, 2} @@
     "k" :> {-101, 0, 1, 100, 101} @@ "everyHours" :> Around(1, 168) @@
     "limit" :> Around(1, 10000) @@ "max_num_segments" :> {-1, 0, 1, 2} @@
     "replication_factor" :> {-1, 0, 1, 2} @@ "wait_for_timeout_ms" :> {-1, 0, 1} @@
     "wait_for" :> {0, 1, Malformed} @@ "prefix" :> {0, 1, Malformed} @@
     "placement" :> {0, 1, Malformed})
    @@ [f \in AllFields |-> {0, 1}]

\* Any two options beside the required ones, and what a page depends on.
Pairs == { {a, b} : a, b \in AllFields }
PairsAndPages ==
    Pairs \cup SUBSET {"size", "from", "sort", "search_after"}

EveryMethod == DOMAIN Table
OnlyRecall == {"recall"}
=============================================================================
