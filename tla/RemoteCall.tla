----------------------------- MODULE RemoteCall ------------------------------
(***************************************************************************)
(* What the client promises of a method call, with no word of attempts,    *)
(* refusals, sleeps or responses: the call ends with a value or an         *)
(* exception; it has taken effect if it ended with a value; and what it    *)
(* does takes effect at most once unless it may be repeated, and at most   *)
(* Limit times then.  An exception promises nothing: the effect may        *)
(* have happened, and may still happen after it.                           *)
(***************************************************************************)
EXTENDS Naturals

CONSTANTS
    Calls,
    Limit     \* how often a repeatable call may take effect

VARIABLES
    status,      \* idle, pending, returned or raised
    repeatable,  \* whether doing it again is harmless
    effects      \* how often it was done

vars == <<status, repeatable, effects>>

Init ==
    /\ status = [c \in Calls |-> "idle"]
    /\ repeatable \in [Calls -> BOOLEAN]
    /\ effects = [c \in Calls |-> 0]

Call(c) ==
    /\ status[c] = "idle"
    /\ status' = [status EXCEPT ![c] = "pending"]
    /\ UNCHANGED <<repeatable, effects>>

\* The node does it: while the caller waits, or after it was told of a failure.
TakeEffect(c) ==
    /\ status[c] \in {"pending", "raised"}
    /\ effects[c] = 0 \/ (repeatable[c] /\ effects[c] < Limit)
    /\ effects' = [effects EXCEPT ![c] = @ + 1]
    /\ UNCHANGED <<status, repeatable>>

ReturnValue(c) ==
    /\ status[c] = "pending"
    /\ effects[c] > 0
    /\ status' = [status EXCEPT ![c] = "returned"]
    /\ UNCHANGED <<repeatable, effects>>

RaiseError(c) ==
    /\ status[c] = "pending"
    /\ status' = [status EXCEPT ![c] = "raised"]
    /\ UNCHANGED <<repeatable, effects>>

Next == \E c \in Calls : Call(c) \/ TakeEffect(c) \/ ReturnValue(c) \/ RaiseError(c)

Spec ==
    /\ Init /\ [][Next]_vars
    /\ \A c \in Calls : WF_vars(ReturnValue(c) \/ RaiseError(c))
=============================================================================
