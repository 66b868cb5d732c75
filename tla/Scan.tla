-------------------------------- MODULE Scan --------------------------------
(***************************************************************************)
(* What a reading of a changing catalog promises its caller, whatever the  *)
(* pages it is read in: rows are given in order, each once and out of the  *)
(* catalog as it is at that moment, and a reading that ends without saying *)
(* that it is a floor has given every row that was there all the time.     *)
(***************************************************************************)
EXTENDS Integers

CONSTANT Rows

VARIABLES
    present,   \* the rows that a reading may be given
    stable,    \* history: those there since the reading began
    given,     \* the rows given so far
    outcome    \* "none", "whole", "floor" or "raised"

vars == <<present, stable, given, outcome>>

Init ==
    /\ present \in SUBSET Rows
    /\ stable = present
    /\ given = {}
    /\ outcome = "none"

\* Rows are given, all after those given before; it may be the last time.
Give(rows, end) ==
    /\ outcome = "none"
    /\ rows \subseteq present
    /\ \A r \in given, s \in rows : r < s
    /\ given' = given \cup rows
    /\ end = "whole" => stable \subseteq given'
    /\ outcome' = end
    /\ UNCHANGED <<present, stable>>

\* The reading fails; what it gave is lost with it.
Raise ==
    /\ outcome = "none"
    /\ outcome' = "raised"
    /\ given' = {}
    /\ UNCHANGED <<present, stable>>

\* The catalog changes under the reading.
Change ==
    /\ present' \in SUBSET Rows
    /\ stable' = stable \cap present'
    /\ UNCHANGED <<given, outcome>>

Next ==
    \/ \E rows \in SUBSET Rows, end \in {"none", "whole", "floor"} : Give(rows, end)
    \/ Raise
    \/ Change

Spec == Init /\ [][Next]_vars
=============================================================================
