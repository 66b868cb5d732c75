------------------------ MODULE TransportRefinement --------------------------
(***************************************************************************)
(* Transport implements RemoteCall: everything between the start of a call *)
(* and its end is hidden, and only an operation that makes something new   *)
(* each time is not repeatable.  index_exists' False is the node's 404, so *)
(* it counts with the exceptions.                                          *)
(***************************************************************************)
EXTENDS Transport

StatusOf(c) ==
    CASE pc[c] = "idle"                                  -> "idle"
      [] pc[c] = "done" /\ outcome[c].kind = "value" -> "returned"
      [] pc[c] = "done" /\ outcome[c].kind # "value" -> "raised"
      [] OTHER                                           -> "pending"

Promise == INSTANCE RemoteCall WITH
    Limit <- Attempts,
    status <- [c \in Calls |-> StatusOf(c)],
    repeatable <- [c \in Calls |-> op[c].effect # "append"],
    effects <- landed

\* The client keeps the promise of RemoteCall, its liveness included: a call
\* that was made ends, with a value only if it took effect, and an appending
\* write takes effect at most once.
KeepsPromise == Promise!Spec
=============================================================================
