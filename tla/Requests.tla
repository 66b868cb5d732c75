------------------------------ MODULE Requests ------------------------------
(***************************************************************************)
(* What becomes of the options of a call.  A method collects those it was  *)
(* given, most of the bodies pass through a model generated from the       *)
(* node's API description, and the rest of the way is dumped to the wire;  *)
(* the node puts its own defaults in the place of what did not arrive.     *)
(* The reference is the same call made to the node directly.               *)
(*                                                                         *)
(* An option is in the domain of a call when it is not None.  Its value is *)
(* a number: 0 stands for every false one ("", {}, [], False, blank text), *)
(* 1 for a string, a list or True, and 2 for a string of a form that the   *)
(* node does not take.                                                     *)
(***************************************************************************)
EXTENDS Integers, TLC

CONSTANTS
    Tried,     \* the values tried for each option
    Methods,   \* the methods called
    Together,  \* which options are given together
    Ceiling,   \* the highest replication factor the node takes
    Budget     \* the longest a shard may take at the node, in milliseconds

-----------------------------------------------------------------------------
(* The generated models: each declared field and what validation admits.   *)
(* A field that is not declared is ignored.                                *)

Open(fields) == [f \in fields |-> Int]

\* deadline_ms of QueryScope, which SearchRequest shares.
QueryScope == Nat \ {0}
SearchRequest ==
    [f \in {"query", "size", "from", "sort", "search_after", "_source", "track_total_hits",
            "profile", "verify", "deadline_ms"} |->
        CASE f = "size" -> 0..10000
          [] f = "from" -> Nat
          [] f = "deadline_ms" -> QueryScope
          [] OTHER -> Int]
RememberRequest ==
    Open({"content", "space", "namespace", "user", "session", "agent", "fact_type",
          "pinned", "tags", "url", "title", "source"})
RecallRequest ==
    [f \in {"query", "namespace", "space", "user", "session", "k", "limit"} |->
        IF f = "k" THEN { k \in Int : k <= 100 } ELSE Int]
AnswerRequest == Open({"query", "namespace", "k", "limit"})
CreateSnapshotRequest == Open({"index", "namespace", "allow_shared_pool"})
RestoreRequest ==
    Open({"signer_public_key", "allow_unverified_signer", "allow_overwrite_live_index"})
\* Two methods check a query parameter in their place.
ListQuery == [f \in {"after", "limit"} |-> IF f = "limit" THEN 1..10000 ELSE Int]
ForcemergeQuery == [f \in {"max_num_segments"} |-> Nat \ {0}]
CleanupRequest == Open({"grace_seconds"})
ScheduleRequest ==
    [f \in {"target", "everyHours", "enabled", "prefix"} |->
        IF f = "everyHours" THEN 1..168 ELSE Int]
IndexPolicyUpdate ==
    [f \in {"placement", "replication_factor"} |->
        CASE f = "placement" -> {1}
          [] f = "replication_factor" -> Nat]

-----------------------------------------------------------------------------
(* The methods: what they require, what else they take, which options they *)
(* look at for their truth and not for None, which they refuse when empty, *)
(* and the model or the check their body goes through.                     *)

Method(requires, options, byTruth, nonempty, model) ==
    [requires |-> requires, options |-> options, byTruth |-> byTruth,
     nonempty |-> nonempty, model |-> model]

\* A body that is sent as it is.
Unchecked(fields) == Open(fields)

SearchOptions ==
    {"query", "size", "from", "sort", "search_after", "_source", "track_total_hits",
     "profile", "verify", "deadline_ms"}

\* Slip: the page size is looked at for its truth too.
search_Truthy ==
    Method({}, SearchOptions, {"size", "from", "profile", "verify", "deadline_ms"}, {},
           SearchRequest)

search == Method({}, SearchOptions, {"from", "profile", "verify", "deadline_ms"}, {}, SearchRequest)

namespace_search == search

Scoping == {"namespace", "space", "user"}

remember ==
    Method({"content"},
           Scoping \cup {"session", "agent", "fact_type", "pinned", "tags", "url", "title",
                         "source"},
           {"tags"}, {"content"}, RememberRequest)

recall == Method({"query"}, Scoping \cup {"session", "k"}, {}, {"query"}, RecallRequest)

\* Slip: the body of an answer goes through its generated model.
answer_Validated ==
    Method({"query"}, Scoping \cup {"session", "k"}, {}, {"query"}, AnswerRequest)

answer ==
    LET options == Scoping \cup {"session", "k"}
    IN  Method({"query"}, options, {}, {"query"}, Unchecked(options \cup {"query"}))

bootstrap ==
    LET options == Scoping \cup {"session", "query", "k"}
    IN  Method({}, options, {}, {}, Unchecked(options))

ingest_document ==
    LET fields == {"filename", "content_base64", "space"}
    IN  Method(fields, {}, {}, {"filename", "space"}, Unchecked(fields))

ingest_messages ==
    LET options == Scoping \cup {"thread_title", "thread_id", "source"}
    IN  Method({"messages"}, options, {}, {"messages"}, Unchecked(options \cup {"messages"}))

ingest_voice ==
    LET options == Scoping \cup {"duration_ms", "audio_path", "source"}
    IN  Method({"transcript"}, options, {}, {"transcript"},
               Unchecked(options \cup {"transcript"}))

create ==
    Method({}, {"index", "namespace", "allow_shared_pool"}, {"index", "allow_shared_pool"}, {},
           CreateSnapshotRequest)

\* Slip: the consent flags are sent as they were given.
restore_Verbatim == Method({}, DOMAIN RestoreRequest, {"signer_public_key"}, {}, RestoreRequest)

restore == Method({}, DOMAIN RestoreRequest, DOMAIN RestoreRequest, {}, RestoreRequest)

cleanup == Method({}, {"grace_seconds"}, {}, {}, CleanupRequest)

set_schedule == Method({"target", "everyHours"}, {"enabled", "prefix"}, {}, {}, ScheduleRequest)

put_policy == Method({}, {"placement", "replication_factor"}, {}, {}, IndexPolicyUpdate)

\* The rest have a query string; _query_string drops what is None.
forcemerge == Method({}, {"max_num_segments"}, {}, {}, ForcemergeQuery)

list_page == Method({}, {"after", "limit"}, {"after"}, {}, ListQuery)

index_document ==
    LET options == {"id", "wait_for", "wait_for_timeout_ms"}
    IN  Method({}, options, {}, {"id"}, Unchecked(options))

namespace_bulk ==
    LET options == {"wait_for", "wait_for_timeout_ms"}
    IN  Method({"documents"}, options, {}, {"documents"}, Unchecked(options \cup {"documents"}))

Table ==
    [search |-> search, namespace_search |-> namespace_search, remember |-> remember,
     recall |-> recall, answer |-> answer, bootstrap |-> bootstrap,
     ingest_document |-> ingest_document, ingest_messages |-> ingest_messages,
     ingest_voice |-> ingest_voice, create |-> create, restore |-> restore,
     cleanup |-> cleanup, set_schedule |-> set_schedule, put_policy |-> put_policy,
     forcemerge |-> forcemerge, list_page |-> list_page, index_document |-> index_document,
     namespace_bulk |-> namespace_bulk]

Fields(m) == Table[m].requires \cup Table[m].options

ASSUME RequestsAssumption ==
    /\ Methods \subseteq DOMAIN Table
    /\ \A m \in Methods : \A f \in Fields(m) : Tried[f] \subseteq Int
    /\ Ceiling \in Nat /\ Budget \in Nat

Given(call) == DOMAIN call
Only(call, fields) == [f \in Given(call) \cap fields |-> call[f]]

\* An option that is looked at for its truth counts as not given when false.
Kept(m, call) == Only(call, { f \in Given(call) : f \in Table[m].byTruth => call[f] # 0 })

-----------------------------------------------------------------------------
(* The node, as its API description has it.                                *)

NodeDecides == -1000
Malformed == 2

\* What it takes an option to be that does not arrive.
Default(f) ==
    CASE f = "size" -> 10
      [] f = "k" -> 5
      [] f = "grace_seconds" -> 86400
      [] f = "limit" -> 1000
      [] f = "wait_for_timeout_ms" -> 30000
      [] f \in {"enabled", "max_num_segments"} -> 1
      [] f \in {"from", "profile", "verify", "tags", "allow_shared_pool",
                "allow_unverified_signer", "allow_overwrite_live_index"} -> 0
      [] OTHER -> NodeDecides

\* What it takes a value for: some are not refused but brought into range.
Adjusted(m, f, v) ==
    CASE m = "recall" /\ f = "k" /\ v > 100 -> 100
      [] f = "max_num_segments" /\ v < 1 -> 1
      [] f = "limit" /\ v > 10000 -> 10000
      [] f = "deadline_ms" /\ v > Budget -> Budget
      [] OTHER -> v

\* What it takes an option for; "from" is ignored beside a cursor.
Taken(m, body, f) ==
    IF f = "from" /\ "search_after" \in Given(body) THEN 0
    ELSE IF f \in Given(body) THEN Adjusted(m, f, body[f]) ELSE Default(f)

\* The values it does not refuse.
Accepted(f) ==
    CASE f = "size" -> 0..10000
      [] f = "from" -> Nat
      [] f \in {"deadline_ms", "wait_for_timeout_ms", "limit"} -> Nat \ {0}
      [] f = "everyHours" -> 1..168
      [] f = "replication_factor" -> 0..Ceiling
      [] f = "placement" -> {1}
      [] f \in {"wait_for", "prefix"} -> Int \ {Malformed}
      [] OTHER -> Int

\* A cursor needs a sort, and a page may not reach too deep without one.
PagesWell(m, body) ==
    /\ "search_after" \in Given(body) => "sort" \in Given(body)
    /\ Taken(m, body, "from") + Taken(m, body, "size") <= 10000

NodeTakes(m, body) ==
    /\ Table[m].requires \subseteq Given(body)
    /\ \A f \in Given(body) : body[f] \in Accepted(f)
    /\ \A f \in Given(body) \cap Table[m].nonempty : body[f] # 0
    /\ m \in {"search", "namespace_search"} => PagesWell(m, body)
    /\ m = "create" => \E target \in {"index", "namespace"} :
                          /\ Given(body) \cap {"index", "namespace"} = {target}
                          /\ body[target] # 0

\* What the node then does, an option at a time.
Effect(m, body) == [f \in Fields(m) |-> Taken(m, body, f)]

\* What it does for a request, {} for one that it refuses.
Answer(m, body) == IF NodeTakes(m, body) THEN {Effect(m, body)} ELSE {}

-----------------------------------------------------------------------------
(* One call.                                                               *)

VARIABLES
    method,   \* the method called
    call,     \* what it is given
    pc,       \* "called", "built", "checked", "answered" or "raised"
    body,     \* the request on its way to the wire
    done      \* what the node did, {} for nothing

vars == <<method, call, pc, body, done>>

Nothing == [f \in {} |-> 0]

\* The calls that are tried: some options beside the required ones.
Calls(m) ==
    UNION { { c \in [Table[m].requires \cup given -> UNION { Tried[f] : f \in Fields(m) }] :
                 \A f \in Given(c) : c[f] \in Tried[f] }
            : given \in { fields \cap Table[m].options : fields \in Together } }

Init ==
    /\ method \in Methods
    /\ call \in Calls(method)
    /\ pc = "called"
    /\ body = Nothing
    /\ done = {}

\* The method's own checks: empty arguments, one target of a snapshot, and a
\* policy with something to change.
Objects ==
    \/ \E f \in Table[method].nonempty \cap Given(call) : call[f] = 0
    \/ method = "create" /\ ("index" \in Given(call) <=> "namespace" \in Given(call))
    \/ method = "put_policy" /\ Given(call) = {}

\* The method raises, or collects what it was given.
Build ==
    /\ pc = "called"
    /\ IF Objects
       THEN pc' = "raised" /\ UNCHANGED body
       ELSE pc' = "built" /\ body' = Kept(method, call)
    /\ UNCHANGED <<method, call, done>>

\* Slip: the model is constructed without validation.
Valid_Constructed(model) == TRUE

Valid(model) == \A f \in Given(body) \cap DOMAIN model : body[f] \in model[f]

\* Validation raises, or keeps the declared fields that were set.
Validate ==
    /\ pc = "built"
    /\ LET model == Table[method].model
       IN  IF Valid(model)
           THEN pc' = "checked" /\ body' = Only(body, DOMAIN model)
           ELSE pc' = "raised" /\ UNCHANGED body
    /\ UNCHANGED <<method, call, done>>

\* Slip: the dump has the defaults of the fields that were not set.
Dump_WithDefaults(model) ==
    body @@ [f \in { d \in DOMAIN model : Default(d) # NodeDecides } |-> Default(f)]

\* model_dump: by alias, without what is None or was not set.
Dump(model) == body

\* The request is sent, and the node does what it says or refuses it.
Send ==
    /\ pc = "checked"
    /\ body' = Dump(Table[method].model)
    /\ done' = Answer(method, body')
    /\ pc' = "answered"
    /\ UNCHANGED <<method, call>>

Next == Build \/ Validate \/ Send

Spec == Init /\ [][Next]_vars

-----------------------------------------------------------------------------
(* Properties.                                                             *)

\* What was meant: a deadline of zero "is the absence of a request"
\* (test_client.py), an empty cursor is the first page, and an empty key none.
Meant == Only(call, { f \in Given(call) :
                        f \in {"deadline_ms", "after", "signer_public_key"} => call[f] # 0 })

\* The ranges of the variables.  What a method looks at for its truth is sent
\* only when true: "an explicit false would read, in a request log, as somebody
\* having considered and declined it" (_restore).
TypeOK ==
    /\ method \in Methods
    /\ Given(call) \subseteq Fields(method)
    /\ pc \in {"called", "built", "checked", "answered", "raised"}
    /\ Given(body) \subseteq Fields(method)
    /\ done = {} \/ pc = "answered"
    /\ \A f \in Given(body) :
          f \in {"profile", "verify", "allow_shared_pool", "allow_unverified_signer",
                 "allow_overwrite_live_index"} => body[f] # 0

\* The client is stricter than the node: it refuses what the node would bring
\* into range, a k above 100 (LargeRecallIsClamped), less than one segment
\* (test_api_surface.py) or a page of more than 10000 names.
Stricter ==
    \E f \in Given(call) \ {"deadline_ms"} : Adjusted(method, f, call[f]) # call[f]

\* Through options, model and dump, the node does what it would do for the
\* same call made directly: no option is lost, whichever false value it has,
\* no default of the client stands in for one of the node, and what the client
\* refuses the node would refuse, or would change nothing, or the client is
\* stricter.
AskedIsDone ==
    pc \in {"answered", "raised"} =>
       \/ done = Answer(method, Meant)
       \/ method = "put_policy" /\ Given(call) = {}
       \/ pc = "raised" /\ Stricter

\* The request has only what was asked for, as it was asked: "a field with a
\* default the caller never touched stays off the wire" (_json_body).
NothingElseIsAsked ==
    pc = "answered" => \A f \in Given(body) : f \in Given(call) /\ body[f] = call[f]

\* The values that the client leaves to the node to refuse: its generated
\* models do not have these limits, or the option is a query parameter, sent
\* unchecked.
LeftToNode(f) ==
    CASE f = "replication_factor" -> { n \in Int : n > Ceiling }
      [] f = "wait_for_timeout_ms" -> { n \in Int : n < 1 }
      [] f \in {"wait_for", "prefix"} -> {Malformed}
      [] OTHER -> {}

\* "A size past the node's ceiling, or a deadline below 1 ms, should fail here
\* ... rather than as a 400" (_search_body): but for those, no option reaches
\* the node, from any method, with a value that it would refuse by itself.
OutOfRangeFailsHere ==
    pc = "answered" => \A f \in Given(body) : body[f] \in Accepted(f) \cup LeftToNode(f)

\* "k above 100 is CLAMPED to 100 by the node, not refused" (recall).
LargeRecallIsClamped ==
    method = "recall" /\ "k" \in Given(call) /\ call["k"] > 100 /\ call["query"] # 0
       => pc # "raised"
=============================================================================
