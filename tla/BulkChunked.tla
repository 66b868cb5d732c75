---------------------------- MODULE BulkChunked -----------------------------
(***************************************************************************)
(* Client.bulk_chunked (and the async and namespace ones): documents are   *)
(* read lazily, sent "chunk_size" per request, and the answers merged.  A  *)
(* chunk that fails raises out of the loop.  The caller may run it again   *)
(* over the same documents, after that or when some items have failed.  A  *)
(* bulk is never resent (Transport), but one whose answer never came may   *)
(* still be written later.                                                 *)
(***************************************************************************)
EXTENDS Integers, SequencesExt

CONSTANTS
    Totals,     \* how many documents there may be
    ChunkSize,  \* chunk_size
    MaxRuns     \* bound: how often the caller runs it

ASSUME BulkAssumption ==
    /\ Totals \subseteq Nat
    /\ ChunkSize \in Nat \ {0}
    /\ MaxRuns \in Nat \ {0}

VARIABLES
    total,    \* how many documents this caller has
    ids,      \* they carry the caller's ids (BulkDoc)
    pc,       \* where the loop is
    next,     \* the document the iterable gives next
    chunk,    \* the documents read since the last request
    results,  \* the answers so far
    merged,   \* what the caller gets
    late,     \* chunks at the node, with their run, whose caller was told of a failure
    copies,   \* how many copies of each document the index holds
    reached,  \* history: what the node said of each document in this run
    runs      \* history: how often the caller began

input == <<total, ids>>
vars == <<input, pc, next, chunk, results, merged, late, copies, reached, runs>>

\* The levels of an ack, weakest first: accepted, accepted_durably,
\* visible_for_search.
Levels == 1..3

NoResult == [items |-> <<>>, errors |-> FALSE, ack |-> 0, timed_out |-> FALSE]
Documents == 1..total
Unsaid == [ok |-> FALSE, level |-> 0]

-----------------------------------------------------------------------------
(* Merging.                                                                *)

\* Slip: the strongest level.
WeakestAck_Strongest(rs) ==
    CHOOSE a \in Levels : /\ \E i \in DOMAIN rs : rs[i].ack = a
                          /\ \A i \in DOMAIN rs : rs[i].ack <= a

\* min over the answers, by _ACK_ORDER.
WeakestAck(rs) ==
    CHOOSE a \in Levels : /\ \E i \in DOMAIN rs : rs[i].ack = a
                          /\ \A i \in DOMAIN rs : a <= rs[i].ack

\* Slip: the flag of the last chunk alone.
AnyErrors_Last(rs) == rs[Len(rs)].errors

AnyErrors(rs) == \E i \in DOMAIN rs : rs[i].errors

merge_bulk(rs) ==
    [ items     |-> FlattenSeq([i \in DOMAIN rs |-> rs[i].items]),
      errors    |-> AnyErrors(rs),
      ack       |-> WeakestAck(rs),
      timed_out |-> \E i \in DOMAIN rs : rs[i].timed_out ]

\* The documents a caller finds in failed_items.
failed_items(result) ==
    IF ~result.errors THEN {}
    ELSE { result.items[i].doc : i \in { j \in DOMAIN result.items : ~result.items[j].ok } }

-----------------------------------------------------------------------------
(* The loop.                                                               *)

Fresh ==
    /\ pc' = "read"
    /\ next' = 1
    /\ chunk' = <<>>
    /\ results' = <<>>
    /\ merged' = NoResult
    /\ reached' = [d \in Documents |-> Unsaid]

Init ==
    /\ total \in Totals
    /\ ids \in BOOLEAN
    /\ pc = "read"
    /\ next = 1
    /\ chunk = <<>>
    /\ results = <<>>
    /\ merged = NoResult
    /\ late = {}
    /\ copies = [d \in Documents |-> 0]
    /\ reached = [d \in Documents |-> Unsaid]
    /\ runs = 1

\* _chunks takes one more document; a full chunk is yielded.
Read ==
    /\ pc = "read"
    /\ next <= total
    /\ chunk' = Append(chunk, next)
    /\ next' = next + 1
    /\ pc' = IF Len(chunk') = ChunkSize THEN "send" ELSE "read"
    /\ UNCHANGED <<input, results, merged, late, copies, reached, runs>>

\* Slip: the last chunk, not full, is dropped.
LastChunk_Dropped == FALSE

\* if chunk: yield chunk.
LastChunk == chunk # <<>>

\* The iterable is exhausted.  Without any answer there is nothing to merge,
\* and _merge_bulk raises.
Exhausted ==
    /\ pc = "read"
    /\ next > total
    /\ IF LastChunk
       THEN pc' = "send" /\ UNCHANGED merged
       ELSE IF results = <<>>
            THEN pc' = "raised" /\ UNCHANGED merged
            ELSE pc' = "returned" /\ merged' = merge_bulk(results)
    /\ UNCHANGED <<input, next, chunk, results, late, copies, reached, runs>>

\* The iterable raises, or a document of the chunk cannot be encoded: before
\* the chunk is sent.
BadDocument ==
    /\ pc \in {"read", "send"}
    /\ pc' = "raised"
    /\ UNCHANGED <<input, next, chunk, results, merged, late, copies, reached, runs>>

\* The index after the node stores the documents of a set: a document with
\* the caller's id replaces itself.
Stored(docs) == [d \in Documents |-> IF d \notin docs THEN copies[d]
                                     ELSE IF ids THEN 1 ELSE copies[d] + 1]

\* Slip: the chunk is not emptied.
Emptied_Kept == chunk

\* chunk = [].
Emptied == <<>>

\* A 2xx answer: each item on its own succeeded or failed, in request order.
\* What succeeded is stored; so may be what did not, when a part of the claims
\* took it (a namespace reports a partial accept as a failure).
Answered ==
    /\ pc = "send"
    /\ \E ok, stored \in SUBSET ToSet(chunk), ack \in Levels, timed_out \in BOOLEAN :
          /\ ok \subseteq stored
          /\ results' = Append(results,
                [ items     |-> [i \in DOMAIN chunk |-> [doc |-> chunk[i], ok |-> chunk[i] \in ok]],
                  errors    |-> ok # ToSet(chunk),
                  ack       |-> ack,
                  timed_out |-> timed_out ])
          /\ copies' = Stored(stored)
          /\ reached' = [d \in Documents |-> IF d \in ok THEN [ok |-> TRUE, level |-> ack]
                                             ELSE reached[d]]
    /\ chunk' = Emptied
    /\ pc' = "read"
    /\ UNCHANGED <<input, next, merged, late, runs>>

\* A refusal or a transport error of the whole chunk raises; it may have reached the node.
Failed ==
    /\ pc = "send"
    /\ late' \in {late, late \cup {<<runs, chunk>>}}
    /\ pc' = "failed"
    /\ UNCHANGED <<input, next, chunk, results, merged, copies, reached, runs>>

\* The caller runs it again over the same documents: it raised, or the result
\* has failed items.
Rerun ==
    /\ pc \in {"failed", "raised"} \/ (pc = "returned" /\ failed_items(merged) # {})
    /\ runs < MaxRuns
    /\ runs' = runs + 1
    /\ Fresh
    /\ UNCHANGED <<input, late, copies>>

\* The node stores some of a chunk whose caller has already been told of a
\* failure, perhaps while the caller is at its next run.
LandsLate ==
    \E c \in late :
        /\ \E docs \in SUBSET ToSet(c[2]) : copies' = Stored(docs)
        /\ late' = late \ {c}
        /\ UNCHANGED <<input, pc, next, chunk, results, merged, reached, runs>>

-----------------------------------------------------------------------------
Next == Read \/ Exhausted \/ BadDocument \/ Answered \/ Failed \/ Rerun \/ LandsLate

Spec == Init /\ [][Next]_vars

-----------------------------------------------------------------------------
(* Properties.                                                             *)

\* The ranges of the variables; a chunk is never longer than chunk_size.
TypeOK ==
    /\ total \in Totals /\ ids \in BOOLEAN
    /\ pc \in {"read", "send", "returned", "failed", "raised"}
    /\ next \in 1..(total + 1)
    /\ ToSet(chunk) \subseteq Documents /\ Len(chunk) <= ChunkSize
    /\ \A i \in DOMAIN results : results[i].ack \in Levels
    /\ merged = NoResult \/ merged.ack \in Levels
    /\ \A c \in late : c[1] \in 1..runs /\ ToSet(c[2]) \subseteq Documents
    /\ copies \in [Documents -> Nat]
    /\ reached \in [Documents -> [ok : BOOLEAN, level : Levels \cup {0}]]
    /\ runs \in 1..MaxRuns

\* The merged result has one item for each document, in the order given: an
\* item's position identifies its document.
OneItemEach ==
    pc = "returned" => [i \in DOMAIN merged.items |-> merged.items[i].doc] = [d \in Documents |-> d]

\* A document the node did not say it stored in this run is in failed_items of
\* the merged result.
NoSilentLoss ==
    pc = "returned" => \A d \in Documents : ~reached[d].ok => d \in failed_items(merged)

\* The merged ack claims of no stored document more than its chunk reached.
AckHoldsForAll ==
    pc = "returned" => \A d \in Documents : reached[d].ok => merged.ack <= reached[d].level

\* Within one run no document is written twice; documents with ids are never
\* duplicated by any number of runs, late chunks and items that failed but
\* were stored included.
NoDuplicates == \A d \in Documents : copies[d] <= IF ids THEN 1 ELSE runs

\* A caller who reruns, after an exception or after a result with failed
\* items, until a result has none holds every document; with ids, exactly once
\* ("a caller who ... resubmits the whole batch converges rather than
\* double-writing", openapi.yaml).
Converges ==
    pc = "returned" /\ failed_items(merged) = {} =>
        \A d \in Documents : IF ids THEN copies[d] = 1 ELSE copies[d] >= 1

\* The docstring of bulk_chunked: when a chunk fails as a whole, "the chunks
\* before it have been written".
EarlierChunksWritten ==
    pc = "failed" => \A d \in 1..(next - Len(chunk) - 1) : copies[d] >= 1
=============================================================================
