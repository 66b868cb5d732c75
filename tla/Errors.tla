------------------------------- MODULE Errors --------------------------------
(***************************************************************************)
(* errors.py: how a response outside 2xx becomes an exception.             *)
(*                                                                         *)
(* A response is a record                                                  *)
(*   status   the HTTP status                                              *)
(*   body     "envelope"  {"error": {...}}, an object under "error"        *)
(*            "json"      JSON of the shape the operation expects          *)
(*            "shape"     JSON of some other shape                         *)
(*            "text"      not JSON                                         *)
(*            "empty"     no content                                       *)
(*   type     the envelope's type, "" when it has none                     *)
(*   header   the Retry-After header, a raw hint                           *)
(*   detail   the envelope's retry_after_secs / _seconds, a raw hint       *)
(* and a raw hint says in which form a number of ticks was sent.           *)
(***************************************************************************)
EXTENDS Integers

CONSTANT UnknownTypes   \* the envelope types the client has no class for

NoHint == -1

\* The forms a hint takes on the wire: absent, a number (negative ones
\* included), or something float() refuses, of which HTTP's date is the one
\* with a meaning.
RawHints == [form : {"absent", "number", "date", "junk"}, ticks : Int]
Absent == [form |-> "absent", ticks |-> 0]
Number(n) == [form |-> "number", ticks |-> n]
Date(n) == [form |-> "date", ticks |-> n]


\* A number of ticks when the raw hint is a number that is not negative.
Hint(raw) == IF raw.form = "number" /\ raw.ticks >= 0 THEN raw.ticks ELSE NoHint

-----------------------------------------------------------------------------
(* The exception classes and the tables that choose one.                   *)

GnarlClasses ==
    {"GnarlError", "NotFound", "Conflict", "AlreadyExists", "ValidationError",
     "Unauthenticated", "Forbidden", "RateLimited", "Unsupported", "InternalError",
     "Unavailable", "IncompleteResult", "JobFailed"}

\* except cls: the class itself or one derived from it.
IsA(class, cls) ==
    \/ class = cls
    \/ cls = "GnarlError" /\ class \in GnarlClasses
    \/ cls = "Conflict" /\ class = "AlreadyExists"

\* _BY_TYPE, read backwards: the wire types each class is raised for.
TypesOf ==
    [ ValidationError |-> {"validation_error", "schema_error", "shared_pool"},
      Unsupported     |-> {"unsupported_capability", "unsupported_engine"},
      NotFound        |-> {"index_not_found", "document_not_found", "route_not_found",
                           "field_not_found", "repository_not_found",
                           "snapshot_not_found"},
      AlreadyExists   |-> {"index_already_exists"},
      Unauthenticated |-> {"unauthenticated"},
      Forbidden       |-> {"unauthorized", "forbidden"},
      RateLimited     |-> {"rate_limited"},
      Conflict        |-> {"namespace_not_snapshottable", "job_in_progress",
                           "unverified_signer"},
      InternalError   |-> {"internal_error", "repository_error"} ]

KnownTypes == UNION { TypesOf[c] : c \in DOMAIN TypesOf }

\* The types an envelope may carry, no type included.
WireTypes == KnownTypes \cup UnknownTypes \cup {""}

\* _BY_STATUS: for a type the client does not know.
ByStatus(status) ==
    CASE status = 401 -> "Unauthenticated"
      [] status = 403 -> "Forbidden"
      [] status = 404 -> "NotFound"
      [] status = 409 -> "Conflict"
      [] status = 429 -> "RateLimited"
      [] status = 503 -> "Unavailable"
      [] OTHER        -> "GnarlError"

\* _BY_STATUS_UNTYPED: for a body with no envelope.
ByStatusUntyped(status) ==
    IF status \in {400, 422} THEN "ValidationError" ELSE ByStatus(status)

ByType(type) == CHOOSE c \in DOMAIN TypesOf : type \in TypesOf[c]

-----------------------------------------------------------------------------
\* The exception error_from_response builds.  Without an envelope only the
\* status and the header count; with one the type decides before the status,
\* and the detail gives the hint the header did not.
error_from_response(r) ==
    IF r.body # "envelope"
    THEN [ class |-> ByStatusUntyped(r.status), type |-> "", status |-> r.status,
           retry_after |-> Hint(r.header) ]
    ELSE [ class |-> IF r.type \in KnownTypes THEN ByType(r.type) ELSE ByStatus(r.status),
           type |-> r.type, status |-> r.status,
           retry_after |-> IF Hint(r.header) # NoHint THEN Hint(r.header)
                           ELSE Hint(r.detail) ]
=============================================================================
