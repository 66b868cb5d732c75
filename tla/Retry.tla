-------------------------------- MODULE Retry --------------------------------
(***************************************************************************)
(* The retry policy of the client: the fields of the frozen dataclass      *)
(* Retry in _wire.py, its validation, and the two decisions it takes:      *)
(* whether a request may be sent twice, and how long to wait before doing  *)
(* so.  Times are whole ticks; the instances take half a second per tick,  *)
(* the default backoff.  retry=None is the policy with Attempts = 1.       *)
(***************************************************************************)
EXTENDS Integers

CONSTANTS
    Attempts,   \* total attempts, including the first
    MaxDelay,   \* the longest single wait, in ticks
    Backoff,    \* the first wait when the node gave no hint, in ticks
    Statuses    \* the statuses worth retrying

\* What Retry.__post_init__ enforces.  The powers are the doubling factors of
\* the backoff, stated because the provers know nothing of exponents.
ASSUME RetryAssumption ==
    /\ Attempts \in Nat \ {0}
    /\ MaxDelay \in Nat
    /\ Backoff \in Nat
    /\ Statuses \subseteq Nat
    /\ \A n \in 0..(Attempts - 1) : 2^n \in Nat

\* Python's None where a number is expected: no hint, or "give up".
None == -1

Smaller(a, b) == IF a <= b THEN a ELSE b

-----------------------------------------------------------------------------
(* Which requests may be sent twice.                                       *)

\* Methods that are safe to send twice by HTTP's own definition.
IdempotentMethods == {"GET", "HEAD", "PUT", "DELETE", "OPTIONS"}

\* Slip: every operation counts as repeatable.
IsIdempotent_Always(o) == TRUE

\* The operation's own declaration when it makes one, else its method.
IsIdempotent(o) ==
    IF o.declared # "unset" THEN o.declared = "yes" ELSE o.method \in IdempotentMethods

-----------------------------------------------------------------------------
(* How long to wait before attempt + 1, or None to give up.  attempt       *)
(* counts from 1 and is the one that just failed.                          *)

Doubled(attempt) == Backoff * 2^(attempt - 1)

\* Slip: the hint is not looked at.
Delay_Unhinted(attempt, err) ==
    IF err.status \notin Statuses \/ attempt >= Attempts THEN None
    ELSE Smaller(Doubled(attempt), MaxDelay)

\* Slip: the attempts are never counted.
Delay_NoLimit(attempt, err) ==
    IF err.status \notin Statuses THEN None ELSE Smaller(Backoff, MaxDelay)

Delay(attempt, err) ==
    IF err.status \notin Statuses \/ attempt >= Attempts THEN None
    ELSE IF err.retry_after = None THEN Smaller(Doubled(attempt), MaxDelay)
    ELSE IF err.retry_after <= MaxDelay THEN err.retry_after
    ELSE None
=============================================================================
