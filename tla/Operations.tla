----------------------------- MODULE Operations ------------------------------
(***************************************************************************)
(* The operations of the client, each described as the request it builds:  *)
(* what _Call says of it in _wire.py, memory.py, namespaces.py and         *)
(* snapshots.py, and what client.py passes to _do.                         *)
(*                                                                         *)
(*   method, declared   what decides whether it may be sent twice;         *)
(*                      declared is the idempotent= argument, "unset" for  *)
(*                      None                                               *)
(*   parse              how a 2xx answer is read: "none" (want_json=False, *)
(*                      the body is not looked at), "dict" (_as_dict,      *)
(*                      which takes anything), "model" (validated into a   *)
(*                      generated model or indexed: another shape raises)  *)
(*   effect             what the node does on serving it, as openapi.yaml  *)
(*                      describes it: "read" nothing; "append" something   *)
(*                      new each time; "put" a state it converges to;      *)
(*                      "create", "delete" and "probe" an index, "start" a *)
(*                      snapshot job, which exclude each other             *)
(***************************************************************************)

Op(name, method, parse, effect) ==
    [ name |-> name, method |-> method, declared |-> "unset",
      parse |-> parse, effect |-> effect ]

Get(name, parse)            == Op(name, "GET", parse, "read")
Put(name, parse)            == Op(name, "PUT", parse, "put")
Delete(name, parse)         == Op(name, "DELETE", parse, "put")
Post(name, parse, effect)   == Op(name, "POST", parse, effect)
Declared(o)                 == [ o EXCEPT !.declared = "yes" ]

-----------------------------------------------------------------------------
create_index == Op("create_index", "PUT", "none", "create")
delete_index == Op("delete_index", "DELETE", "none", "delete")
index_exists == Op("index_exists", "GET", "none", "probe")

IndexOps ==
    { create_index, delete_index, index_exists,
      Get("list_indexes_page", "model"), Get("get_schema", "model"),
      Get("count", "model") }

index_document == Post("index_document", "model", "append")
get_document   == Get("get_document", "model")
search         == Declared(Post("search", "model", "read"))

DocumentOps ==
    { index_document, get_document, Delete("delete_document", "none"),
      Post("bulk", "model", "append") }

NodeOps == { Get("version", "model"), Get("status", "model"), Get("ping", "none") }

\* Entitlement, force-merge and policy.
MaintenanceOps ==
    { Get("entitlement", "model"), Post("activate_entitlement", "model", "put"),
      Post("forcemerge", "model", "put"),
      Get("get_policy", "model"), Put("put_policy", "model") }

-----------------------------------------------------------------------------
remember  == Post("memory.remember", "model", "append")
bootstrap == Declared(Post("memory.bootstrap", "dict", "put"))

MemoryOps ==
    { remember, bootstrap,
      Declared(Post("memory.recall", "model", "read")),
      Declared(Post("memory.answer", "dict", "read")),
      Post("memory.ingest_document", "dict", "append"),
      Post("memory.ingest_messages", "dict", "append"),
      Post("memory.ingest_voice", "dict", "append") }

promote == Declared(Post("namespaces.promote", "dict", "put"))

NamespaceOps ==
    { Post("namespaces.index_document", "model", "append"),
      Post("namespaces.bulk", "model", "append"),
      Declared(Post("namespaces.search", "model", "read")),
      Get("namespaces.get_document", "model"),
      Delete("namespaces.delete_document", "none"),
      Put("namespaces.put_mapping", "dict"), promote,
      Put("namespaces.set_key", "model"), Get("namespaces.key_status", "model"),
      Delete("namespaces.revoke_key", "model"), Delete("namespaces.delete", "dict"),
      Get("namespaces.list_page", "model") }

RepositoryOps ==
    { Get("snapshots.list_repositories", "model"), Put("snapshots.register", "model"),
      Get("snapshots.get_repository", "model"),
      Delete("snapshots.unregister", "model"),
      Post("snapshots.cleanup", "model", "start"),
      Get("snapshots.get_schedule", "model"), Put("snapshots.set_schedule", "model"),
      Delete("snapshots.clear_schedule", "model") }

create_snapshot == Op("snapshots.create", "PUT", "model", "start")

SnapshotOps ==
    { Get("snapshots.list", "model"), create_snapshot, Get("snapshots.get", "model"),
      Delete("snapshots.delete", "model"),
      Post("snapshots.restore", "model", "start"),
      Get("snapshots.jobs", "model"), Get("snapshots.job", "model") }

-----------------------------------------------------------------------------
AllOperations ==
    UNION { IndexOps, DocumentOps, {search}, NodeOps, MaintenanceOps,
            MemoryOps, NamespaceOps, RepositoryOps, SnapshotOps }
=============================================================================
