----------------------------- MODULE MCListing ------------------------------
(* Instances of Listing for TLC. *)
EXTENDS Listing

FiveNames == 1..5
TwoPeers == {"p", "q"}

\* Neighbours are recorded by different peers; a pair of them is hidden, so
\* that a whole page of two can be empty.
Alternating == [n \in FiveNames |-> IF n % 2 = 1 THEN "p" ELSE "q"]
TwoHidden == {2, 3}
=============================================================================
