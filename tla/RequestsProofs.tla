--------------------------- MODULE RequestsProofs ---------------------------
(***************************************************************************)
(* What holds of every call of the methods of Requests: whichever options  *)
(* are given together, and whatever their values.                          *)
(***************************************************************************)
EXTENDS Requests, TLAPS

-----------------------------------------------------------------------------
(* What a row of the table has to be like.                                 *)

\* Each field that a method sends is declared.  What validation admits there
\* the node accepts, or is left to it to refuse; what validation refuses the
\* node refuses too, or would bring into range.
Declares(m) ==
    /\ Fields(m) \subseteq DOMAIN Table[m].model
    /\ \A f \in Fields(m), v \in Int :
          /\ v \in Table[m].model[f] => v \in Accepted(f) \cup LeftToNode(f)
          /\ v \notin Table[m].model[f] =>
                v \notin Accepted(f) \/ (f # "deadline_ms" /\ Adjusted(m, f, v) # v)

\* The options whose false value means that they were not given.
Absences == {"deadline_ms", "after", "signer_public_key"}

\* The options that an explicit false must not reach the node for.
Consents == {"profile", "verify", "allow_shared_pool", "allow_unverified_signer",
             "allow_overwrite_live_index"}

\* The options that the node takes for false when they do not arrive.
FalseInNode == {"from", "profile", "verify", "tags", "allow_shared_pool",
                "allow_unverified_signer", "allow_overwrite_live_index"}

\* What is dropped when false is nothing that has to arrive, and it is what
\* was not meant or what the node takes for false; but for the index of a
\* snapshot, whose empty name the node refuses.
Drops(m) ==
    /\ \A f \in Table[m].byTruth : f \notin Table[m].requires /\ f \notin Table[m].nonempty
    /\ \A f \in Absences : f \notin Table[m].requires /\ f \notin Table[m].nonempty
    /\ \A f \in Absences \cup Consents : f \in Fields(m) => f \in Table[m].byTruth
    /\ \A f \in Table[m].byTruth :
          \/ f \in Absences \cup FalseInNode
          \/ m = "create" /\ f = "index"

\* What the node takes for false by itself, it also accepts as false.
LEMMA FalseByDefault ==
    \A f \in FalseInNode :
       Default(f) = 0 /\ 0 \in Accepted(f) /\ \A m : Adjusted(m, f, 0) = 0
<1>1. \A f \in FalseInNode : Default(f) = 0
  BY DEF FalseInNode, Default
<1>2. \A f \in FalseInNode : 0 \in Accepted(f)
  BY DEF FalseInNode, Accepted
<1>3. \A f \in FalseInNode : \A m : Adjusted(m, f, 0) = 0
  BY DEF FalseInNode, Adjusted
<1> QED BY <1>1, <1>2, <1>3

LEMMA search_row == Declares("search") /\ Drops("search")
<1>1. /\ Table["search"].requires = {}
      /\ Table["search"].options = SearchOptions
      /\ Table["search"].byTruth = {"from", "profile", "verify", "deadline_ms"}
      /\ Table["search"].nonempty = {}
      /\ Table["search"].model = SearchRequest
  BY SMT DEF Table, search, Method
<1>2. Fields("search") = {"query", "size", "from", "sort", "search_after", "_source",
      "track_total_hits", "profile", "verify", "deadline_ms"}
  BY <1>1 DEF Fields, SearchOptions
<1>3. {"query", "size", "from", "sort", "search_after", "_source", "track_total_hits",
      "profile", "verify", "deadline_ms"} \subseteq DOMAIN SearchRequest
  BY DEF SearchRequest, QueryScope
<1>4. \A f \in {"query", "size", "from", "sort", "search_after", "_source", "track_total_hits",
      "profile", "verify", "deadline_ms"}, v \in Int :
         /\ v \in SearchRequest[f] => v \in Accepted(f) \cup LeftToNode(f)
         /\ v \notin SearchRequest[f] =>
               v \notin Accepted(f) \/ (f # "deadline_ms" /\ Adjusted("search", f, v) # v)
  BY DEF SearchRequest, QueryScope, Accepted, LeftToNode, Adjusted
<1>5. Declares("search")
  BY <1>1, <1>2, <1>3, <1>4 DEF Declares
<1>6. Drops("search")
  BY <1>1, <1>2 DEF Drops, Absences, Consents, FalseInNode
<1> QED BY <1>5, <1>6

LEMMA namespace_search_row == Declares("namespace_search") /\ Drops("namespace_search")
<1>1. /\ Table["namespace_search"].requires = {}
      /\ Table["namespace_search"].options = SearchOptions
      /\ Table["namespace_search"].byTruth = {"from", "profile", "verify", "deadline_ms"}
      /\ Table["namespace_search"].nonempty = {}
      /\ Table["namespace_search"].model = SearchRequest
  BY SMT DEF Table, namespace_search, search, Method
<1>2. Fields("namespace_search") = {"query", "size", "from", "sort", "search_after", "_source",
      "track_total_hits", "profile", "verify", "deadline_ms"}
  BY <1>1 DEF Fields, SearchOptions
<1>3. {"query", "size", "from", "sort", "search_after", "_source", "track_total_hits",
      "profile", "verify", "deadline_ms"} \subseteq DOMAIN SearchRequest
  BY DEF SearchRequest, QueryScope
<1>4. \A f \in {"query", "size", "from", "sort", "search_after", "_source", "track_total_hits",
      "profile", "verify", "deadline_ms"}, v \in Int :
         /\ v \in SearchRequest[f] => v \in Accepted(f) \cup LeftToNode(f)
         /\ v \notin SearchRequest[f] =>
               v \notin Accepted(f) \/ (f # "deadline_ms" /\ Adjusted("namespace_search", f, v) # v)
  BY DEF SearchRequest, QueryScope, Accepted, LeftToNode, Adjusted
<1>5. Declares("namespace_search")
  BY <1>1, <1>2, <1>3, <1>4 DEF Declares
<1>6. Drops("namespace_search")
  BY <1>1, <1>2 DEF Drops, Absences, Consents, FalseInNode
<1> QED BY <1>5, <1>6

LEMMA remember_row == Declares("remember") /\ Drops("remember")
<1>1. /\ Table["remember"].requires = {"content"}
      /\ Table["remember"].options = Scoping \cup {"session", "agent", "fact_type", "pinned",
             "tags", "url", "title", "source"}
      /\ Table["remember"].byTruth = {"tags"}
      /\ Table["remember"].nonempty = {"content"}
      /\ Table["remember"].model = RememberRequest
  BY SMT DEF Table, remember, Method
<1>2. Fields("remember") = {"content", "namespace", "space", "user", "session", "agent",
      "fact_type", "pinned", "tags", "url", "title", "source"}
  BY <1>1 DEF Fields, Scoping
<1>3. Declares("remember")
  BY <1>1, <1>2 DEF Declares, Accepted, LeftToNode, Adjusted, RememberRequest, Open
<1>4. Drops("remember")
  BY <1>1, <1>2 DEF Drops, Absences, Consents, FalseInNode
<1> QED BY <1>3, <1>4

LEMMA recall_row == Declares("recall") /\ Drops("recall")
<1>1. /\ Table["recall"].requires = {"query"}
      /\ Table["recall"].options = Scoping \cup {"session", "k"}
      /\ Table["recall"].byTruth = {}
      /\ Table["recall"].nonempty = {"query"}
      /\ Table["recall"].model = RecallRequest
  BY SMT DEF Table, recall, Method
<1>2. Fields("recall") = {"query", "namespace", "space", "user", "session", "k"}
  BY <1>1 DEF Fields, Scoping
<1>3. Declares("recall")
  BY <1>1, <1>2 DEF Declares, Accepted, LeftToNode, Adjusted, RecallRequest
<1>4. Drops("recall")
  BY <1>1, <1>2 DEF Drops, Absences, Consents, FalseInNode
<1> QED BY <1>3, <1>4

LEMMA answer_row == Declares("answer") /\ Drops("answer")
<1>1. /\ Table["answer"].requires = {"query"}
      /\ Table["answer"].options = Scoping \cup {"session", "k"}
      /\ Table["answer"].byTruth = {}
      /\ Table["answer"].nonempty = {"query"}
      /\ Table["answer"].model = Open(Scoping \cup {"session", "k"} \cup {"query"})
  BY SMT DEF Table, answer, Method, Unchecked
<1>2. Fields("answer") = {"query", "namespace", "space", "user", "session", "k"}
  BY <1>1 DEF Fields, Scoping
<1>3. Declares("answer")
  BY <1>1, <1>2 DEF Declares, Accepted, LeftToNode, Adjusted, Open, Scoping
<1>4. Drops("answer")
  BY <1>1, <1>2 DEF Drops, Absences, Consents, FalseInNode
<1> QED BY <1>3, <1>4

LEMMA bootstrap_row == Declares("bootstrap") /\ Drops("bootstrap")
<1>1. /\ Table["bootstrap"].requires = {}
      /\ Table["bootstrap"].options = Scoping \cup {"session", "query", "k"}
      /\ Table["bootstrap"].byTruth = {}
      /\ Table["bootstrap"].nonempty = {}
      /\ Table["bootstrap"].model = Open(Scoping \cup {"session", "query", "k"})
  BY SMT DEF Table, bootstrap, Method, Unchecked
<1>2. Fields("bootstrap") = {"namespace", "space", "user", "session", "query", "k"}
  BY <1>1 DEF Fields, Scoping
<1>3. Declares("bootstrap")
  BY <1>1, <1>2 DEF Declares, Accepted, LeftToNode, Adjusted, Open, Scoping
<1>4. Drops("bootstrap")
  BY <1>1, <1>2 DEF Drops, Absences, Consents, FalseInNode
<1> QED BY <1>3, <1>4

LEMMA ingest_document_row == Declares("ingest_document") /\ Drops("ingest_document")
<1>1. /\ Table["ingest_document"].requires = {"filename", "content_base64", "space"}
      /\ Table["ingest_document"].options = {}
      /\ Table["ingest_document"].byTruth = {}
      /\ Table["ingest_document"].nonempty = {"filename", "space"}
      /\ Table["ingest_document"].model = Open({"filename", "content_base64", "space"})
  BY SMT DEF Table, ingest_document, Method, Unchecked
<1>2. Fields("ingest_document") = {"filename", "content_base64", "space"}
  BY <1>1 DEF Fields
<1>3. Declares("ingest_document")
  BY <1>1, <1>2 DEF Declares, Accepted, LeftToNode, Adjusted, Open
<1>4. Drops("ingest_document")
  BY <1>1, <1>2 DEF Drops, Absences, Consents, FalseInNode
<1> QED BY <1>3, <1>4

LEMMA ingest_messages_row == Declares("ingest_messages") /\ Drops("ingest_messages")
<1>1. /\ Table["ingest_messages"].requires = {"messages"}
      /\ Table["ingest_messages"].options = Scoping \cup {"thread_title", "thread_id", "source"}
      /\ Table["ingest_messages"].byTruth = {}
      /\ Table["ingest_messages"].nonempty = {"messages"}
      /\ Table["ingest_messages"].model = Open(Scoping \cup {"thread_title", "thread_id",
             "source"} \cup {"messages"})
  BY SMT DEF Table, ingest_messages, Method, Unchecked
<1>2. Fields("ingest_messages") = {"messages", "namespace", "space", "user", "thread_title",
      "thread_id", "source"}
  BY <1>1 DEF Fields, Scoping
<1>3. Declares("ingest_messages")
  BY <1>1, <1>2 DEF Declares, Accepted, LeftToNode, Adjusted, Open, Scoping
<1>4. Drops("ingest_messages")
  BY <1>1, <1>2 DEF Drops, Absences, Consents, FalseInNode
<1> QED BY <1>3, <1>4

LEMMA ingest_voice_row == Declares("ingest_voice") /\ Drops("ingest_voice")
<1>1. /\ Table["ingest_voice"].requires = {"transcript"}
      /\ Table["ingest_voice"].options = Scoping \cup {"duration_ms", "audio_path", "source"}
      /\ Table["ingest_voice"].byTruth = {}
      /\ Table["ingest_voice"].nonempty = {"transcript"}
      /\ Table["ingest_voice"].model = Open(Scoping \cup {"duration_ms", "audio_path", "source"}
             \cup {"transcript"})
  BY SMT DEF Table, ingest_voice, Method, Unchecked
<1>2. Fields("ingest_voice") = {"transcript", "namespace", "space", "user", "duration_ms",
      "audio_path", "source"}
  BY <1>1 DEF Fields, Scoping
<1>3. Declares("ingest_voice")
  BY <1>1, <1>2 DEF Declares, Accepted, LeftToNode, Adjusted, Open, Scoping
<1>4. Drops("ingest_voice")
  BY <1>1, <1>2 DEF Drops, Absences, Consents, FalseInNode
<1> QED BY <1>3, <1>4

LEMMA create_row == Declares("create") /\ Drops("create")
<1>1. /\ Table["create"].requires = {}
      /\ Table["create"].options = {"index", "namespace", "allow_shared_pool"}
      /\ Table["create"].byTruth = {"index", "allow_shared_pool"}
      /\ Table["create"].nonempty = {}
      /\ Table["create"].model = CreateSnapshotRequest
  BY SMT DEF Table, create, Method
<1>2. Fields("create") = {"index", "namespace", "allow_shared_pool"}
  BY <1>1 DEF Fields
<1>3. Declares("create")
  BY <1>1, <1>2 DEF Declares, Accepted, LeftToNode, Adjusted, CreateSnapshotRequest, Open
<1>4. Drops("create")
  BY <1>1, <1>2 DEF Drops, Absences, Consents, FalseInNode
<1> QED BY <1>3, <1>4

LEMMA restore_row == Declares("restore") /\ Drops("restore")
<1>1. /\ Table["restore"].requires = {}
      /\ Table["restore"].options = DOMAIN RestoreRequest
      /\ Table["restore"].byTruth = DOMAIN RestoreRequest
      /\ Table["restore"].nonempty = {}
      /\ Table["restore"].model = RestoreRequest
  BY SMT DEF Table, restore, Method
<1>2. Fields("restore") = {"signer_public_key", "allow_unverified_signer",
      "allow_overwrite_live_index"}
  BY <1>1 DEF Fields, RestoreRequest, Open
<1>3. Declares("restore")
  BY <1>1, <1>2 DEF Declares, Accepted, LeftToNode, Adjusted, RestoreRequest, Open
<1>4. Drops("restore")
  BY <1>1, <1>2 DEF Drops, Absences, Consents, FalseInNode, RestoreRequest, Open
<1> QED BY <1>3, <1>4

LEMMA cleanup_row == Declares("cleanup") /\ Drops("cleanup")
<1>1. /\ Table["cleanup"].requires = {}
      /\ Table["cleanup"].options = {"grace_seconds"}
      /\ Table["cleanup"].byTruth = {}
      /\ Table["cleanup"].nonempty = {}
      /\ Table["cleanup"].model = CleanupRequest
  BY SMT DEF Table, cleanup, Method
<1>2. Fields("cleanup") = {"grace_seconds"}
  BY <1>1 DEF Fields
<1>3. Declares("cleanup")
  BY <1>1, <1>2 DEF Declares, Accepted, LeftToNode, Adjusted, CleanupRequest, Open
<1>4. Drops("cleanup")
  BY <1>1, <1>2 DEF Drops, Absences, Consents, FalseInNode
<1> QED BY <1>3, <1>4

LEMMA set_schedule_row == Declares("set_schedule") /\ Drops("set_schedule")
<1>1. /\ Table["set_schedule"].requires = {"target", "everyHours"}
      /\ Table["set_schedule"].options = {"enabled", "prefix"}
      /\ Table["set_schedule"].byTruth = {}
      /\ Table["set_schedule"].nonempty = {}
      /\ Table["set_schedule"].model = ScheduleRequest
  BY SMT DEF Table, set_schedule, Method
<1>2. Fields("set_schedule") = {"target", "everyHours", "enabled", "prefix"}
  BY <1>1 DEF Fields
<1>3. {"target", "everyHours", "enabled", "prefix"} \subseteq DOMAIN ScheduleRequest
  BY DEF ScheduleRequest
<1>4. \A f \in {"target", "everyHours", "enabled", "prefix"}, v \in Int :
         /\ v \in ScheduleRequest[f] => v \in Accepted(f) \cup LeftToNode(f)
         /\ v \notin ScheduleRequest[f] =>
               v \notin Accepted(f) \/ (f # "deadline_ms" /\ Adjusted("set_schedule", f, v) # v)
  BY DEF ScheduleRequest, Accepted, LeftToNode, Adjusted
<1>5. Declares("set_schedule")
  BY <1>1, <1>2, <1>3, <1>4 DEF Declares
<1>6. Drops("set_schedule")
  BY <1>1, <1>2 DEF Drops, Absences, Consents, FalseInNode
<1> QED BY <1>5, <1>6

LEMMA put_policy_row == Declares("put_policy") /\ Drops("put_policy")
<1>1. /\ Table["put_policy"].requires = {}
      /\ Table["put_policy"].options = {"placement", "replication_factor"}
      /\ Table["put_policy"].byTruth = {}
      /\ Table["put_policy"].nonempty = {}
      /\ Table["put_policy"].model = IndexPolicyUpdate
  BY SMT DEF Table, put_policy, Method
<1>2. Fields("put_policy") = {"placement", "replication_factor"}
  BY <1>1 DEF Fields
<1>3. {"placement", "replication_factor"} \subseteq DOMAIN IndexPolicyUpdate
  BY DEF IndexPolicyUpdate
<1>4. ASSUME NEW f \in {"placement", "replication_factor"}, NEW v \in Int
      PROVE  /\ v \in IndexPolicyUpdate[f] => v \in Accepted(f) \cup LeftToNode(f)
             /\ v \notin IndexPolicyUpdate[f] =>
                   v \notin Accepted(f) \/ (f # "deadline_ms" /\ Adjusted("put_policy", f, v) # v)
  <2>1. CASE f = "placement"
    BY <2>1 DEF IndexPolicyUpdate, Accepted, LeftToNode, Adjusted
  <2>2. CASE f = "replication_factor"
    <3>1. Ceiling \in Nat
      BY RequestsAssumption
    <3>2. /\ IndexPolicyUpdate[f] = Nat /\ Accepted(f) = 0..Ceiling
          /\ LeftToNode(f) = { n \in Int : n > Ceiling }
      BY <2>2 DEF IndexPolicyUpdate, Accepted, LeftToNode
    <3> QED BY <3>1, <3>2
  <2> QED BY <2>1, <2>2
<1>5. Declares("put_policy")
  BY <1>1, <1>2, <1>3, <1>4 DEF Declares
<1>6. Drops("put_policy")
  BY <1>1, <1>2 DEF Drops, Absences, Consents, FalseInNode
<1> QED BY <1>5, <1>6

LEMMA forcemerge_row == Declares("forcemerge") /\ Drops("forcemerge")
<1>1. /\ Table["forcemerge"].requires = {}
      /\ Table["forcemerge"].options = {"max_num_segments"}
      /\ Table["forcemerge"].byTruth = {}
      /\ Table["forcemerge"].nonempty = {}
      /\ Table["forcemerge"].model = ForcemergeQuery
  BY SMT DEF Table, forcemerge, Method
<1>2. Fields("forcemerge") = {"max_num_segments"}
  BY <1>1 DEF Fields
<1>3. Declares("forcemerge")
  BY <1>1, <1>2 DEF Declares, Accepted, LeftToNode, Adjusted, ForcemergeQuery
<1>4. Drops("forcemerge")
  BY <1>1, <1>2 DEF Drops, Absences, Consents, FalseInNode
<1> QED BY <1>3, <1>4

LEMMA list_page_row == Declares("list_page") /\ Drops("list_page")
<1>1. /\ Table["list_page"].requires = {}
      /\ Table["list_page"].options = {"after", "limit"}
      /\ Table["list_page"].byTruth = {"after"}
      /\ Table["list_page"].nonempty = {}
      /\ Table["list_page"].model = ListQuery
  BY SMT DEF Table, list_page, Method
<1>2. Fields("list_page") = {"after", "limit"}
  BY <1>1 DEF Fields
<1>3. {"after", "limit"} \subseteq DOMAIN ListQuery
  BY DEF ListQuery
<1>4. ASSUME NEW f \in {"after", "limit"}, NEW v \in Int
      PROVE  /\ v \in ListQuery[f] => v \in Accepted(f) \cup LeftToNode(f)
             /\ v \notin ListQuery[f] =>
                   v \notin Accepted(f) \/ (f # "deadline_ms" /\ Adjusted("list_page", f, v) # v)
  <2>1. CASE f = "after"
    BY <2>1 DEF ListQuery, Accepted, LeftToNode, Adjusted
  <2>2. CASE f = "limit"
    <3>1. ListQuery[f] = 1..10000 /\ Accepted(f) = Nat \ {0}
      BY <2>2 DEF ListQuery, Accepted
    <3>2. v > 10000 => Adjusted("list_page", f, v) = 10000
      BY <2>2 DEF Adjusted
    <3>3. v \in ListQuery[f] => v \in Accepted(f)
      BY <3>1
    <3>4. v \notin ListQuery[f] => v \notin Accepted(f) \/ v > 10000
      BY <3>1
    <3>5. v > 10000 => Adjusted("list_page", f, v) # v
      BY <3>2
    <3>6. f # "deadline_ms"
      BY <2>2
    <3> QED BY <3>3, <3>4, <3>5, <3>6
  <2> QED BY <2>1, <2>2
<1>5. Declares("list_page")
  BY <1>1, <1>2, <1>3, <1>4 DEF Declares
<1>6. Drops("list_page")
  BY <1>1, <1>2 DEF Drops, Absences, Consents, FalseInNode
<1> QED BY <1>5, <1>6

LEMMA index_document_row == Declares("index_document") /\ Drops("index_document")
<1>1. /\ Table["index_document"].requires = {}
      /\ Table["index_document"].options = {"id", "wait_for", "wait_for_timeout_ms"}
      /\ Table["index_document"].byTruth = {}
      /\ Table["index_document"].nonempty = {"id"}
      /\ Table["index_document"].model = Open({"id", "wait_for", "wait_for_timeout_ms"})
  BY SMT DEF Table, index_document, Method, Unchecked
<1>2. Fields("index_document") = {"id", "wait_for", "wait_for_timeout_ms"}
  BY <1>1 DEF Fields
<1>3. Declares("index_document")
  BY <1>1, <1>2 DEF Declares, Accepted, LeftToNode, Adjusted, Open
<1>4. Drops("index_document")
  BY <1>1, <1>2 DEF Drops, Absences, Consents, FalseInNode
<1> QED BY <1>3, <1>4

LEMMA namespace_bulk_row == Declares("namespace_bulk") /\ Drops("namespace_bulk")
<1>1. /\ Table["namespace_bulk"].requires = {"documents"}
      /\ Table["namespace_bulk"].options = {"wait_for", "wait_for_timeout_ms"}
      /\ Table["namespace_bulk"].byTruth = {}
      /\ Table["namespace_bulk"].nonempty = {"documents"}
      /\ Table["namespace_bulk"].model = Open({"wait_for", "wait_for_timeout_ms"} \cup {"documents"})
  BY SMT DEF Table, namespace_bulk, Method, Unchecked
<1>2. Fields("namespace_bulk") = {"documents", "wait_for", "wait_for_timeout_ms"}
  BY <1>1 DEF Fields
<1>3. Declares("namespace_bulk")
  BY <1>1, <1>2 DEF Declares, Accepted, LeftToNode, Adjusted, Open
<1>4. Drops("namespace_bulk")
  BY <1>1, <1>2 DEF Drops, Absences, Consents, FalseInNode
<1> QED BY <1>3, <1>4

\* So is every row.
LEMMA Rows == \A m \in DOMAIN Table : Declares(m) /\ Drops(m)
<1>1. DOMAIN Table = {"search", "namespace_search", "remember", "recall", "answer", "bootstrap",
                      "ingest_document", "ingest_messages", "ingest_voice", "create", "restore",
                      "cleanup", "set_schedule", "put_policy", "forcemerge", "list_page",
                      "index_document", "namespace_bulk"}
  BY DEF Table
<1> QED BY <1>1, search_row, namespace_search_row, remember_row, recall_row, answer_row,
           bootstrap_row, ingest_document_row, ingest_messages_row, ingest_voice_row,
           create_row, restore_row, cleanup_row, set_schedule_row, put_policy_row,
           forcemerge_row, list_page_row, index_document_row, namespace_bulk_row

-----------------------------------------------------------------------------
(* The inductive invariant.                                                *)

\* The call is one that is tried.
CallInv ==
    /\ method \in Methods
    /\ Given(call) \subseteq Fields(method)
    /\ Table[method].requires \subseteq Given(call)
    /\ \A f \in Given(call) : call[f] \in Tried[f]

\* How far the call is says what became of it.
PathInv ==
    /\ pc \in {"called", "built", "checked", "answered", "raised"}
    /\ pc = "called" => body = Nothing
    /\ pc \in {"built", "checked", "answered"} => ~Objects /\ body = Kept(method, call)
    /\ pc \in {"checked", "answered"} => Valid(Table[method].model)
    /\ pc = "raised" => \/ Objects /\ body = Nothing
                        \/ body = Kept(method, call) /\ ~Objects /\ ~Valid(Table[method].model)
    /\ done = IF pc = "answered" THEN Answer(method, body) ELSE {}

IInv == CallInv /\ PathInv

\* The values of a call are numbers.
LEMMA Numbers ==
    ASSUME CallInv
    PROVE  /\ method \in DOMAIN Table
           /\ \A f \in Given(call) : f \in Fields(method) /\ call[f] \in Int
  BY RequestsAssumption DEF CallInv

\* What is kept of a call, and what was meant by it.
LEMMA KeptIs ==
    /\ \A f : f \in Given(Kept(method, call)) <=>
                 f \in Given(call) /\ (f \in Table[method].byTruth => call[f] # 0)
    /\ \A f \in Given(Kept(method, call)) : Kept(method, call)[f] = call[f]
  BY DEF Kept, Only, Given

LEMMA MeantIs ==
    /\ \A f : f \in Given(Meant) <=> f \in Given(call) /\ (f \in Absences => call[f] # 0)
    /\ \A f \in Given(Meant) : Meant[f] = call[f]
  BY DEF Meant, Only, Given, Absences

\* Validation drops none of it.
LEMMA AllDeclared ==
    ASSUME CallInv
    PROVE  Only(Kept(method, call), DOMAIN Table[method].model) = Kept(method, call)
<1> DEFINE kept == Kept(method, call)
           fields == { f \in Given(call) : f \in Table[method].byTruth => call[f] # 0 }
<1>1. kept = [f \in Given(call) \cap fields |-> call[f]]
  BY DEF Kept, Only
<1>2. Given(kept) \subseteq DOMAIN Table[method].model
  <2>1. Given(kept) \subseteq Fields(method)
    BY KeptIs DEF CallInv
  <2> QED BY <2>1, Numbers, Rows DEF Declares
<1> HIDE DEF fields
<1>3. kept = [f \in DOMAIN kept |-> kept[f]]
  BY <1>1
<1> HIDE DEF kept
<1>4. Given(kept) \cap DOMAIN Table[method].model = DOMAIN kept
  BY <1>2 DEF Given
<1>5. Only(kept, DOMAIN Table[method].model) = kept
  BY <1>3, <1>4 DEF Only
<1> QED BY <1>5 DEF kept

LEMMA InitIInv == Init => IInv
<1> SUFFICES ASSUME Init PROVE IInv
  OBVIOUS
<1>1. method \in Methods /\ pc = "called" /\ body = Nothing /\ done = {}
  BY DEF Init
<1>2. PICK given \in { fields \cap Table[method].options : fields \in Together } :
         /\ call \in [Table[method].requires \cup given -> UNION { Tried[f] : f \in Fields(method) }]
         /\ \A f \in Given(call) : call[f] \in Tried[f]
  BY DEF Init, Calls
<1>3. Given(call) = Table[method].requires \cup given /\ given \subseteq Table[method].options
  BY <1>2 DEF Given
<1>4. CallInv
  BY <1>1, <1>2, <1>3 DEF CallInv, Fields
<1> QED BY <1>1, <1>4 DEF IInv, PathInv

LEMMA Invariance == Spec => []IInv
<1>1. ASSUME IInv, [Next]_vars
      PROVE  IInv'
  <2>1. CASE Build
    <3>1. /\ pc = "called" /\ UNCHANGED <<method, call, done>>
          /\ \/ Objects /\ pc' = "raised" /\ body' = body
             \/ ~Objects /\ pc' = "built" /\ body' = Kept(method, call)
      BY <2>1 DEF Build
    <3>2. (Objects' <=> Objects) /\ Kept(method, call)' = Kept(method, call)
      BY <3>1 DEF Objects, Kept, Given
    <3>3. CallInv'
      BY <1>1, <3>1 DEF IInv, CallInv
    <3>4. PathInv'
      BY <1>1, <3>1, <3>2 DEF IInv, PathInv
    <3> QED BY <3>3, <3>4 DEF IInv
  <2>2. CASE Validate
    <3>1. /\ pc = "built" /\ UNCHANGED <<method, call, done>>
          /\ \/ /\ Valid(Table[method].model) /\ pc' = "checked"
                /\ body' = Only(body, DOMAIN Table[method].model)
             \/ ~Valid(Table[method].model) /\ pc' = "raised" /\ body' = body
      BY <2>2 DEF Validate
    <3>2. ~Objects /\ body = Kept(method, call) /\ done = {}
      BY <1>1, <3>1 DEF IInv, PathInv
    <3>3. body' = body
      BY <1>1, <3>1, <3>2, AllDeclared DEF IInv
    <3>4. /\ Objects' <=> Objects
          /\ Kept(method, call)' = Kept(method, call)
          /\ Valid(Table[method].model)' <=> Valid(Table[method].model)
      BY <3>1, <3>3 DEF Objects, Kept, Given, Valid
    <3>5. CallInv'
      BY <1>1, <3>1 DEF IInv, CallInv
    <3>6. PathInv'
      BY <3>1, <3>2, <3>3, <3>4 DEF PathInv
    <3> QED BY <3>5, <3>6 DEF IInv
  <2>3. CASE Send
    <3>1. /\ pc = "checked" /\ pc' = "answered" /\ UNCHANGED <<method, call>>
          /\ body' = body /\ done' = Answer(method, body)
      BY <2>3 DEF Send, Dump
    <3>2. ~Objects /\ body = Kept(method, call) /\ Valid(Table[method].model)
      BY <1>1, <3>1 DEF IInv, PathInv
    <3>3. /\ Objects' <=> Objects
          /\ Kept(method, call)' = Kept(method, call)
          /\ Valid(Table[method].model)' <=> Valid(Table[method].model)
          /\ Answer(method, body)' = Answer(method, body)
      BY <3>1 DEF Objects, Kept, Given, Valid, Answer, NodeTakes, Effect
    <3>4. CallInv'
      BY <1>1, <3>1 DEF IInv, CallInv
    <3>5. PathInv'
      BY <3>1, <3>2, <3>3 DEF PathInv
    <3> QED BY <3>4, <3>5 DEF IInv
  <2>4. CASE UNCHANGED vars
    <3>1. /\ Objects' <=> Objects
          /\ Kept(method, call)' = Kept(method, call)
          /\ Valid(Table[method].model)' <=> Valid(Table[method].model)
          /\ Answer(method, body)' = Answer(method, body)
      BY <2>4 DEF vars, Objects, Kept, Given, Valid, Answer, NodeTakes, Effect
    <3> QED BY <1>1, <2>4, <3>1 DEF vars, IInv, CallInv, PathInv
  <2> QED BY <1>1, <2>1, <2>2, <2>3, <2>4 DEF Next
<1> QED BY <1>1, InitIInv, PTL DEF Spec

-----------------------------------------------------------------------------
(* The client's answer and the node's.                                     *)

\* Between what was meant and what is sent there are false values only, and
\* the node does the same for either.
LEMMA SameAnswer ==
    ASSUME CallInv, ~Objects
    PROVE  Answer(method, Kept(method, call)) = Answer(method, Meant)
<1> DEFINE kept == Kept(method, call)
<1>1. /\ method \in DOMAIN Table /\ Drops(method)
      /\ \A f \in Given(call) : f \in Fields(method) /\ call[f] \in Int
  BY Numbers, Rows
<1>2. \A f \in Given(kept) : f \in Given(Meant) /\ Meant[f] = kept[f]
  <2>1. \A f \in Given(kept) : f \in Absences => call[f] # 0
    BY <1>1, KeptIs DEF Drops
  <2> QED BY <2>1, KeptIs, MeantIs
<1>3. \A f \in Given(Meant) : f \notin Given(kept) =>
         /\ f \in Table[method].byTruth /\ Meant[f] = 0
         /\ f \notin FalseInNode => method = "create" /\ f = "index"
  BY <1>1, KeptIs, MeantIs DEF Drops
<1> HIDE DEF kept
<1>4. CASE method = "create" /\ "index" \in Given(Meant) /\ "index" \notin Given(kept)
  <2>1. "namespace" \notin Given(call) /\ "index" \in Given(call)
    BY <1>4, MeantIs DEF Objects
  <2>2. "namespace" \notin Given(Meant) /\ "namespace" \notin Given(kept) /\ Meant["index"] = 0
    BY <1>2, <1>3, <1>4, <2>1, MeantIs
  <2>3. ~NodeTakes(method, kept)
    BY <1>4, <2>2 DEF NodeTakes
  <2>4. ~NodeTakes(method, Meant)
    BY <1>4, <2>2 DEF NodeTakes
  <2> QED BY <2>3, <2>4 DEF Answer, kept
<1>5. CASE ~(method = "create" /\ "index" \in Given(Meant) /\ "index" \notin Given(kept))
  <2>1. \A f \in Given(Meant) : f \notin Given(kept) =>
           /\ f \in Table[method].byTruth /\ Meant[f] = 0
           /\ Default(f) = 0 /\ 0 \in Accepted(f) /\ f \in FalseInNode
           /\ Adjusted(method, f, 0) = 0
    BY <1>3, <1>5, FalseByDefault
  <2>2. /\ Table[method].requires \subseteq Given(kept)
        /\ Table[method].requires \subseteq Given(Meant)
    <3>1. \A f \in Table[method].requires : f \in Given(call) /\ f \notin Table[method].byTruth
      BY <1>1 DEF Drops, CallInv
    <3> QED BY <1>2, <3>1, KeptIs DEF kept
  <2>3. (\A f \in Given(kept) : kept[f] \in Accepted(f))
           <=> (\A f \in Given(Meant) : Meant[f] \in Accepted(f))
    BY <1>2, <2>1
  <2>4. (\A f \in Given(kept) \cap Table[method].nonempty : kept[f] # 0)
           <=> (\A f \in Given(Meant) \cap Table[method].nonempty : Meant[f] # 0)
    BY <1>1, <1>2, <2>1 DEF Drops
  <2>5. ASSUME NEW target \in {"index", "namespace"}
        PROVE  (Given(kept) \cap {"index", "namespace"} = {target} /\ kept[target] # 0)
                  <=> (Given(Meant) \cap {"index", "namespace"} = {target} /\ Meant[target] # 0)
    <3>1. \A f \in {"index", "namespace"} : f \in Given(kept) <=> f \in Given(Meant)
      BY <1>2, <2>1 DEF FalseInNode
    <3>2. Given(kept) \cap {"index", "namespace"} = Given(Meant) \cap {"index", "namespace"}
      BY <3>1
    <3>3. Given(kept) \cap {"index", "namespace"} = {target} => Meant[target] = kept[target]
      BY <1>2
    <3> QED BY <3>2, <3>3
  <2>6. \A f \in {"sort", "search_after"} : f \in Given(kept) <=> f \in Given(Meant)
    BY <1>2, <2>1 DEF FalseInNode
  <2>7. ASSUME NEW f
        PROVE  Taken(method, kept, f) = Taken(method, Meant, f)
    <3>1. CASE f \in Given(kept)
      <4>1. f \in Given(Meant) /\ Meant[f] = kept[f]
        BY <1>2, <3>1
      <4> QED BY <2>6, <3>1, <4>1 DEF Taken
    <3>2. CASE f \notin Given(kept) /\ f \in Given(Meant)
      <4>1. Adjusted(method, f, Meant[f]) = Default(f)
        BY <2>1, <3>2
      <4> QED BY <2>6, <3>2, <4>1 DEF Taken
    <3>3. CASE f \notin Given(kept) /\ f \notin Given(Meant)
      BY <2>6, <3>3 DEF Taken
    <3> QED BY <3>1, <3>2, <3>3, <1>2
  <2>8. PagesWell(method, kept) <=> PagesWell(method, Meant)
    <3>1. /\ Taken(method, kept, "from") = Taken(method, Meant, "from")
          /\ Taken(method, kept, "size") = Taken(method, Meant, "size")
      BY <2>7
    <3> QED BY <2>6, <3>1 DEF PagesWell
  <2>9. NodeTakes(method, kept) <=> NodeTakes(method, Meant)
    BY <2>2, <2>3, <2>4, <2>5, <2>8 DEF NodeTakes
  <2>10. Effect(method, kept) = Effect(method, Meant)
    BY <2>7 DEF Effect
  <2> QED BY <2>9, <2>10 DEF Answer, kept
<1> QED BY <1>4, <1>5

\* A call that its method objects to, the node would refuse.
LEMMA ObjectionStands ==
    ASSUME CallInv, Objects
    PROVE  \/ Answer(method, Meant) = {}
           \/ method = "put_policy" /\ Given(call) = {}
<1>1. method \in DOMAIN Table /\ Drops(method)
  BY Numbers, Rows
<1>2. CASE \E f \in Table[method].nonempty \cap Given(call) : call[f] = 0
  <2>1. PICK f \in Table[method].nonempty \cap Given(call) : call[f] = 0
    BY <1>2
  <2>2. f \in Given(Meant) /\ Meant[f] = 0
    BY <1>1, <2>1, MeantIs DEF Drops
  <2> QED BY <2>1, <2>2 DEF Answer, NodeTakes
<1>3. CASE method = "create" /\ ("index" \in Given(call) <=> "namespace" \in Given(call))
  <2>1. \A f \in {"index", "namespace"} : f \in Given(Meant) <=> f \in Given(call)
    BY MeantIs DEF Absences
  <2>2. "index" \in Given(Meant) <=> "namespace" \in Given(Meant)
    BY <1>3, <2>1
  <2>3. \A target \in {"index", "namespace"} :
           Given(Meant) \cap {"index", "namespace"} # {target}
    BY <2>2
  <2> QED BY <1>3, <2>3 DEF Answer, NodeTakes
<1> QED BY <1>2, <1>3 DEF Objects

\* So it would a call that validation refuses, or the client is stricter.
LEMMA RefusalStands ==
    ASSUME CallInv, body = Kept(method, call), ~Valid(Table[method].model)
    PROVE  Answer(method, Meant) = {} \/ Stricter
<1>1. /\ method \in DOMAIN Table /\ Drops(method) /\ Declares(method)
      /\ \A f \in Given(call) : f \in Fields(method) /\ call[f] \in Int
  BY Numbers, Rows
<1>2. PICK f \in Given(Kept(method, call)) : call[f] \notin Table[method].model[f]
  BY KeptIs DEF Valid
<1>3. f \in Given(call) /\ f \in Fields(method) /\ call[f] \in Int
  BY <1>1, <1>2, KeptIs
<1>4. call[f] \notin Accepted(f) \/ (f # "deadline_ms" /\ Adjusted(method, f, call[f]) # call[f])
  BY <1>1, <1>2, <1>3 DEF Declares
<1>5. CASE call[f] \notin Accepted(f)
  <2>1. f \in Given(Meant) /\ Meant[f] = call[f]
    BY <1>1, <1>2, <1>3, KeptIs, MeantIs DEF Drops
  <2> QED BY <1>5, <2>1 DEF Answer, NodeTakes
<1>6. CASE f # "deadline_ms" /\ Adjusted(method, f, call[f]) # call[f]
  BY <1>3, <1>6 DEF Stricter
<1> QED BY <1>4, <1>5, <1>6

-----------------------------------------------------------------------------
(* The theorems.                                                           *)

\* The ranges of the variables; no false consent is sent.
THEOREM Typing == Spec => []TypeOK
<1>1. ASSUME IInv
      PROVE  TypeOK
  <2>1. method \in DOMAIN Table /\ Drops(method)
    BY <1>1, Numbers, Rows DEF IInv
  <2>2. body = Nothing \/ body = Kept(method, call)
    BY <1>1 DEF IInv, PathInv
  <2>3. Given(body) \subseteq Fields(method)
    <3>1. Given(Nothing) = {}
      BY DEF Given, Nothing
    <3> QED BY <1>1, <2>2, <3>1, KeptIs DEF IInv, CallInv
  <2>4. \A f \in Given(body) : f \in Consents => body[f] # 0
    <3>1. Given(Nothing) = {}
      BY DEF Given, Nothing
    <3>2. \A f \in Given(Kept(method, call)) : f \in Consents => call[f] # 0
      BY <1>1, <2>1, KeptIs DEF Drops, IInv, CallInv
    <3> QED BY <2>2, <3>1, <3>2, KeptIs
  <2> QED BY <1>1, <2>3, <2>4 DEF IInv, CallInv, PathInv, TypeOK, Consents
<1> QED BY <1>1, Invariance, PTL

\* The request has only what was asked for, as it was asked.
THEOREM OnlyTheAsked == Spec => []NothingElseIsAsked
<1>1. IInv => NothingElseIsAsked
  BY KeptIs DEF IInv, PathInv, NothingElseIsAsked
<1> QED BY <1>1, Invariance, PTL

\* No value that the node would refuse by itself gets past the client, but for
\* those that are left to the node.
THEOREM RangesHold == Spec => []OutOfRangeFailsHere
<1>1. ASSUME IInv, pc = "answered", NEW f \in Given(body)
      PROVE  body[f] \in Accepted(f) \cup LeftToNode(f)
  <2>1. body = Kept(method, call) /\ Valid(Table[method].model) /\ method \in DOMAIN Table
    BY <1>1, Numbers DEF IInv, PathInv
  <2>2. f \in Fields(method) /\ body[f] \in Int /\ Declares(method)
    BY <1>1, <2>1, KeptIs, Numbers, Rows DEF IInv
  <2>3. body[f] \in Table[method].model[f]
    BY <1>1, <2>1, <2>2 DEF Valid, Declares
  <2> QED BY <2>2, <2>3 DEF Declares
<1>2. IInv => OutOfRangeFailsHere
  BY <1>1 DEF OutOfRangeFailsHere
<1> QED BY <1>2, Invariance, PTL

\* The node does what it would do for the same call made directly, or the
\* client is stricter.
THEOREM SameAsDirect == Spec => []AskedIsDone
<1>1. ASSUME IInv, pc \in {"answered", "raised"}
      PROVE  \/ done = Answer(method, Meant)
             \/ method = "put_policy" /\ Given(call) = {}
             \/ pc = "raised" /\ Stricter
  <2>1. CASE pc = "answered"
    BY <1>1, <2>1, SameAnswer DEF IInv, PathInv
  <2>2. CASE pc = "raised"
    <3>1. done = {}
      BY <1>1, <2>2 DEF IInv, PathInv
    <3>2. CASE Objects
      BY <1>1, <3>1, <3>2, ObjectionStands DEF IInv
    <3>3. CASE ~Objects
      <4>1. body = Kept(method, call) /\ ~Valid(Table[method].model)
        BY <1>1, <2>2, <3>3 DEF IInv, PathInv
      <4> QED BY <1>1, <2>2, <3>1, <4>1, RefusalStands DEF IInv
    <3> QED BY <3>2, <3>3
  <2> QED BY <1>1, <2>1, <2>2
<1>2. IInv => AskedIsDone
  BY <1>1 DEF AskedIsDone
<1> QED BY <1>2, Invariance, PTL
=============================================================================
