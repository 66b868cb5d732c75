---------------------------- MODULE MCIterSearch ----------------------------
(* Instances of IterSearch for TLC. *)
EXTENDS IterSearch

FourRows == 1..4
TwoClaims == {"a", "b"}

\* Neighbours in the sort order lie in different claims.
Alternating == [r \in FourRows |-> IF r % 2 = 1 THEN "a" ELSE "b"]
=============================================================================
