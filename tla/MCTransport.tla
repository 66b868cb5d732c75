----------------------------- MODULE MCTransport -----------------------------
(* Instances of Transport for TLC.  A tick is half a second. *)
EXTENDS TransportRefinement

CONSTANTS c1, c2

TwoCalls == {c1, c2}
OneCall == {c1}

\* A writer and somebody who reads or removes what it writes.
WriterAndReader ==
    [c \in TwoCalls |-> IF c = c1 THEN {index_document, create_index}
                        ELSE {search, delete_index, index_exists}]
AnyOperation == [c \in OneCall |-> AllOperations]
CreateAndDelete == [c \in TwoCalls |-> IF c = c1 THEN {delete_index} ELSE {create_index}]
OnlySearch == [c \in OneCall |-> {search}]

\* What the node and the proxies in front of it refuse with.
RateLimit(n) == Response(429, "envelope", "rate_limited", Number(n), Absent)
Failover(n) == Response(503, "envelope", "promotion_pending", Absent, Number(n))
Unhinted503 == Response(503, "text", "", Absent, Absent)
Dated503(n) == Response(503, "text", "", Date(n), Absent)
Internal == Response(500, "envelope", "internal_error", Absent, Absent)
Redirect == Response(307, "empty", "", Absent, Absent)
Invalid == Response(400, "envelope", "validation_error", Absent, Absent)
ProxyNotFound == Response(404, "text", "", Absent, Absent)
NoSuchRoute == Response(404, "envelope", "route_not_found", Absent, Absent)

NotNow == {RateLimit(1), Failover(3), Unhinted503}
AllRefusals ==
    NotNow \cup {Failover(2), Dated503(2), Internal, Redirect, Invalid, ProxyNotFound, NoSuchRoute}
FewRefusals == {RateLimit(2), Unhinted503, Redirect}
=============================================================================
