------------------------------ MODULE BulkProofs -----------------------------
(***************************************************************************)
(* What holds of every chunked bulk, for any number of documents, any      *)
(* chunk_size and any number of runs.                                      *)
(***************************************************************************)
EXTENDS BulkChunked, FiniteSetTheorems, TLAPS

-----------------------------------------------------------------------------
(* Sequences and answers.                                                  *)

\* One more document in the chunk.
LEMMA OneMore ==
    ASSUME NEW s \in Seq(Nat), NEW d \in Nat
    PROVE  /\ Append(s, d) \in Seq(Nat) /\ Len(Append(s, d)) = Len(s) + 1
           /\ ToSet(Append(s, d)) = ToSet(s) \cup {d}
<1>1. /\ Append(s, d) \in Seq(Nat) /\ Len(Append(s, d)) = Len(s) + 1
      /\ \A i \in 1..Len(s) : Append(s, d)[i] = s[i]
      /\ Append(s, d)[Len(s) + 1] = d
      /\ DOMAIN Append(s, d) = 1..(Len(s) + 1) /\ DOMAIN s = 1..Len(s) /\ Len(s) \in Nat
  OBVIOUS
<1>2. ToSet(Append(s, d)) \subseteq ToSet(s) \cup {d}
  BY <1>1 DEF ToSet
<1>3. ToSet(s) \cup {d} \subseteq ToSet(Append(s, d))
  BY <1>1 DEF ToSet
<1> QED BY <1>2, <1>3

\* No document is in an empty chunk.
LEMMA EmptyChunk == ToSet(<<>>) = {} /\ <<>> \in Seq(Nat) /\ Len(<<>>) = 0
  BY DEF ToSet

\* The weakest level is one of those reached, and below all of them.
LEMMA Weakest ==
    ASSUME NEW rs, DOMAIN rs # {}, \A i \in DOMAIN rs : rs[i].ack \in Levels
    PROVE  /\ WeakestAck(rs) \in Levels
           /\ \A i \in DOMAIN rs : WeakestAck(rs) <= rs[i].ack
<1>1. \E a \in Levels : /\ \E i \in DOMAIN rs : rs[i].ack = a
                        /\ \A i \in DOMAIN rs : a <= rs[i].ack
  <2> DEFINE Has(a) == \E i \in DOMAIN rs : rs[i].ack = a
  <2>1. \A i \in DOMAIN rs : rs[i].ack = 1 \/ rs[i].ack = 2 \/ rs[i].ack = 3
    BY DEF Levels
  <2>2. CASE Has(1)
    BY <2>1, <2>2 DEF Levels
  <2>3. CASE ~Has(1) /\ Has(2)
    BY <2>1, <2>3 DEF Levels
  <2>4. CASE ~Has(1) /\ ~Has(2)
    BY <2>1, <2>4 DEF Levels
  <2> QED BY <2>2, <2>3, <2>4
<1> QED BY <1>1 DEF WeakestAck

-----------------------------------------------------------------------------
(* The inductive invariant, in parts.                                      *)

\* The documents of a chunk were read, and the chunk has room or is sent.
ChunkInv ==
    /\ chunk \in Seq(Nat) /\ \A d \in ToSet(chunk) : d < next
    /\ pc = "read" => Len(chunk) < ChunkSize

\* What one request is answered with.
Answers ==
    [items : Seq([doc : Nat, ok : BOOLEAN]), errors : BOOLEAN, ack : Levels, timed_out : BOOLEAN]

\* A document that the node said it stored has its level among the answers;
\* the merged ack is below all of them.
AckInv ==
    /\ \A d \in Documents : reached[d].ok =>
          \E i \in DOMAIN results : results[i].ack = reached[d].level
    /\ results \in Seq(Answers)
    /\ pc = "returned" => \A i \in DOMAIN results : merged.ack <= results[i].ack

\* The chunks under way that hold a document, and whether this run has sent it.
LateWith(d) == { c \in late : d \in ToSet(c[2]) }
Spent(d) == pc \in {"read", "send"} => d < next /\ d \notin ToSet(chunk)

\* Each copy of a document, there or on its way, was sent by a run of its own.
CopyInv ==
    /\ IsFiniteSet(late)
    /\ ids => \A d \in Documents : copies[d] <= 1
    /\ ~ids => \A d \in Documents :
          copies[d] + Cardinality(LateWith(d)) <= runs - (IF Spent(d) THEN 0 ELSE 1)

IInv == TypeOK /\ ChunkInv /\ AckInv /\ CopyInv

-----------------------------------------------------------------------------
LEMMA InitIInv == Init => IInv
<1> SUFFICES ASSUME Init PROVE IInv
  OBVIOUS
<1>1. Totals \subseteq Nat /\ ChunkSize \in Nat \ {0} /\ MaxRuns \in Nat \ {0}
  BY BulkAssumption
<1>2. total \in Nat
  BY <1>1 DEF Init
<1>3. TypeOK
  <2>1. ids \in BOOLEAN
    BY DEF Init
  <2>2. reached \in [Documents -> [ok : BOOLEAN, level : Levels \cup {0}]]
    BY DEF Init, Unsaid
  <2>3. runs \in 1..MaxRuns /\ total \in Totals /\ next \in 1..(total + 1)
    BY <1>1, <1>2 DEF Init
  <2>4. copies \in [Documents -> Nat]
    BY DEF Init
  <2>5. ToSet(chunk) \subseteq Documents /\ Len(chunk) <= ChunkSize
    BY <1>1, EmptyChunk DEF Init
  <2>6. \A i \in DOMAIN results : results[i].ack \in Levels
    BY DEF Init
  <2>7. /\ pc \in {"read", "send", "returned", "failed", "raised"}
        /\ merged = NoResult /\ late = {}
    BY DEF Init
  <2>8. \A c \in late : c[1] \in 1..runs /\ ToSet(c[2]) \subseteq Documents
    BY <2>7
  <2>9. merged = NoResult \/ merged.ack \in Levels
    BY <2>7
  <2> QED BY <2>1, <2>2, <2>3, <2>4, <2>5, <2>6, <2>7, <2>8, <2>9, Zenon DEF TypeOK
<1>4. ChunkInv
  BY <1>1, EmptyChunk DEF Init, ChunkInv
<1>5. AckInv
  BY DEF Init, AckInv, Unsaid
<1>6. CopyInv
  <2>1. \A d : LateWith(d) = {}
    BY DEF Init, LateWith
  <2>2. Cardinality({}) = 0 /\ IsFiniteSet({})
    BY FS_EmptySet
  <2>3. ASSUME NEW d \in Documents
        PROVE  /\ copies[d] <= 1
               /\ copies[d] + Cardinality(LateWith(d)) <= runs - (IF Spent(d) THEN 0 ELSE 1)
    <3>1. copies[d] = 0 /\ runs = 1
      BY DEF Init
    <3> QED BY <2>1, <2>2, <3>1
  <2>4. late = {}
    BY DEF Init
  <2> QED BY <2>2, <2>3, <2>4 DEF CopyInv
<1> QED BY <1>3, <1>4, <1>5, <1>6 DEF IInv

\* Reading: the document moves from those to come into the chunk.
LEMMA ReadKeeps ==
    ASSUME IInv, Read
    PROVE  IInv'
<1> USE DEF IInv
<1>1. /\ pc = "read" /\ next <= total /\ chunk' = Append(chunk, next) /\ next' = next + 1
      /\ pc' \in {"send", "read"} /\ (pc' = "send" <=> Len(chunk') = ChunkSize)
      /\ UNCHANGED <<total, ids, results, merged, late, copies, reached, runs>>
  BY DEF Read, input
<1>2. /\ total \in Nat /\ next \in Nat \ {0} /\ ChunkSize \in Nat \ {0}
      /\ Len(chunk) < ChunkSize /\ chunk \in Seq(Nat) /\ Len(chunk) \in Nat
  BY <1>1, BulkAssumption DEF TypeOK, ChunkInv
<1>3. /\ chunk' \in Seq(Nat) /\ Len(chunk') = Len(chunk) + 1
      /\ ToSet(chunk') = ToSet(chunk) \cup {next}
  BY <1>1, <1>2, OneMore
<1>4. TypeOK'
  <2>1. next \in Documents /\ next' \in 1..(total + 1) /\ Len(chunk') <= ChunkSize
    BY <1>1, <1>2, <1>3 DEF Documents
  <2> QED BY <1>1, <1>3, <2>1 DEF TypeOK, Documents
<1>5. ChunkInv'
  <2>1. \A d \in ToSet(chunk') : d < next'
    BY <1>1, <1>2, <1>3 DEF ChunkInv, TypeOK, Documents
  <2> QED BY <1>1, <1>2, <1>3, <2>1 DEF ChunkInv
<1>6. AckInv'
  BY <1>1 DEF AckInv, Documents
<1>7. CopyInv'
  <2>1. \A d \in Documents : Spent(d)' <=> Spent(d)
    BY <1>1, <1>2, <1>3 DEF Spent, Documents
  <2> QED BY <1>1, <2>1 DEF CopyInv, Documents, LateWith
<1> QED BY <1>4, <1>5, <1>6, <1>7

\* The end of the documents, and the failures that send nothing.
LEMMA EndKeeps ==
    ASSUME IInv, Exhausted \/ BadDocument
    PROVE  IInv'
<1> USE DEF IInv
<1>1. /\ UNCHANGED <<total, ids, next, chunk, results, late, copies, reached, runs>>
      /\ pc \in {"read", "send"}
      /\ \/ pc' \in {"send", "raised"} /\ merged' = merged
         \/ pc' = "returned" /\ results # <<>> /\ merged' = merge_bulk(results)
  BY DEF Exhausted, BadDocument, input
<1>2. pc' = "returned" => /\ merged'.ack \in Levels
                          /\ \A i \in DOMAIN results : merged'.ack <= results[i].ack
  <2>1. SUFFICES ASSUME pc' = "returned"
                 PROVE  /\ merged'.ack \in Levels
                        /\ \A i \in DOMAIN results : merged'.ack <= results[i].ack
    OBVIOUS
  <2>2. DOMAIN results # {}
    BY <1>1, <2>1 DEF AckInv
  <2>3. merged'.ack = WeakestAck(results)
    BY <1>1, <2>1 DEF merge_bulk
  <2> QED BY <2>2, <2>3, Weakest DEF TypeOK
<1>3. TypeOK'
  BY <1>1, <1>2 DEF TypeOK, Documents
<1>4. ChunkInv' /\ AckInv'
  BY <1>1, <1>2 DEF ChunkInv, AckInv, Documents
<1>5. CopyInv'
  <2>1. \A d \in Documents : Spent(d) => Spent(d)'
    BY <1>1 DEF Spent
  <2>2. \A d \in Documents : LateWith(d)' = LateWith(d)
    BY <1>1 DEF LateWith
  <2>3. runs \in Nat /\ \A d \in Documents : copies[d] \in Nat /\ Cardinality(LateWith(d)) \in Nat
    <3>1. \A d : LateWith(d) \in SUBSET late
      BY DEF LateWith
    <3>2. \A d : IsFiniteSet(LateWith(d))
      BY <3>1, FS_Subset DEF CopyInv
    <3> QED BY <3>2, FS_CardinalityType, BulkAssumption DEF TypeOK
  <2> QED BY <1>1, <2>1, <2>2, <2>3 DEF CopyInv, Documents
<1> QED BY <1>3, <1>4, <1>5

\* The bound of CopyInv is a bound on numbers.
LEMMA Counted ==
    ASSUME IInv
    PROVE  /\ runs \in Nat /\ IsFiniteSet(late)
           /\ \A d : IsFiniteSet(LateWith(d)) /\ Cardinality(LateWith(d)) \in Nat
           /\ \A d \in Documents : copies[d] \in Nat
<1>1. \A d : LateWith(d) \in SUBSET late
  BY DEF LateWith
<1>2. IsFiniteSet(late)
  BY DEF IInv, CopyInv
<1>3. \A d : IsFiniteSet(LateWith(d))
  BY <1>1, <1>2, FS_Subset
<1> QED BY <1>2, <1>3, FS_CardinalityType, BulkAssumption DEF IInv, TypeOK

\* What the node stores of a chunk: a copy more of some of its documents.
LEMMA Storing ==
    ASSUME TypeOK, NEW docs \in SUBSET Documents, copies' = Stored(docs), total' = total
    PROVE  /\ copies' \in [Documents -> Nat]
           /\ \A d \in Documents : d \notin docs => copies'[d] = copies[d]
           /\ \A d \in Documents : ids => copies'[d] \in {1, copies[d]}
           /\ \A d \in Documents : ~ids => copies'[d] \in {copies[d], copies[d] + 1}
<1>1. \A d \in Documents : copies[d] \in Nat
  BY DEF TypeOK
<1>2. \A d \in Documents : copies'[d] = IF d \notin docs THEN copies[d]
                                        ELSE IF ids THEN 1 ELSE copies[d] + 1
  BY DEF Stored
<1>3. \A d \in Documents : copies'[d] \in Nat
  BY <1>1, <1>2
<1>4. copies' = [d \in Documents |-> copies'[d]]
  BY DEF Stored
<1> QED BY <1>2, <1>3, <1>4

LEMMA AnsweredKeeps ==
    ASSUME IInv, Answered
    PROVE  IInv'
<1> USE DEF IInv
<1>1. PICK ok, stored \in SUBSET ToSet(chunk), ack \in Levels, timed_out \in BOOLEAN :
         /\ ok \subseteq stored
         /\ results' = Append(results,
               [ items     |-> [i \in DOMAIN chunk |-> [doc |-> chunk[i], ok |-> chunk[i] \in ok]],
                 errors    |-> ok # ToSet(chunk),
                 ack       |-> ack,
                 timed_out |-> timed_out ])
         /\ copies' = Stored(stored)
         /\ reached' = [d \in Documents |-> IF d \in ok THEN [ok |-> TRUE, level |-> ack]
                                            ELSE reached[d]]
  BY DEF Answered
<1>2. /\ pc = "send" /\ chunk' = <<>> /\ pc' = "read"
      /\ UNCHANGED <<total, ids, next, merged, late, runs>>
  BY DEF Answered, Emptied, input
<1>3. stored \in SUBSET Documents /\ ChunkSize \in Nat \ {0} /\ Documents' = Documents
  BY <1>2, BulkAssumption DEF TypeOK, Documents
<1> DEFINE answer == [ items     |-> [i \in DOMAIN chunk |->
                                        [doc |-> chunk[i], ok |-> chunk[i] \in ok]],
                       errors    |-> ok # ToSet(chunk),
                       ack       |-> ack,
                       timed_out |-> timed_out ]
<1>4. answer \in Answers /\ answer.ack = ack
  <2>1. chunk \in Seq(Nat)
    BY DEF ChunkInv
  <2>2. [i \in DOMAIN chunk |-> [doc |-> chunk[i], ok |-> chunk[i] \in ok]]
           \in Seq([doc : Nat, ok : BOOLEAN])
    <3>1. DOMAIN chunk = 1..Len(chunk) /\ Len(chunk) \in Nat
      BY <2>1
    <3>2. \A i \in 1..Len(chunk) :
             [doc |-> chunk[i], ok |-> chunk[i] \in ok] \in [doc : Nat, ok : BOOLEAN]
      BY <2>1
    <3> QED BY <3>1, <3>2
  <2>3. (ok # ToSet(chunk)) \in BOOLEAN
    OBVIOUS
  <2> QED BY <2>2, <2>3 DEF Answers
<1> HIDE DEF answer
<1>5. results' = Append(results, answer) /\ results \in Seq(Answers)
  BY <1>1 DEF answer, AckInv
<1>6. /\ results' \in Seq(Answers) /\ Len(results) \in Nat
      /\ DOMAIN results' = 1..(Len(results) + 1) /\ DOMAIN results = 1..Len(results)
      /\ \A i \in DOMAIN results : results'[i] = results[i]
      /\ results'[Len(results) + 1] = answer
  BY <1>4, <1>5
<1>7. reached' \in [Documents -> [ok : BOOLEAN, level : Levels \cup {0}]]
  <2>1. [ok |-> TRUE, level |-> ack] \in [ok : BOOLEAN, level : Levels \cup {0}]
    OBVIOUS
  <2> QED BY <1>1, <2>1 DEF TypeOK
<1>8. copies' \in [Documents -> Nat]
  BY <1>1, <1>2, <1>3, Storing
<1>9. TypeOK'
  <2>1. \A i \in DOMAIN results' : results'[i].ack \in Levels
    BY <1>4, <1>6 DEF TypeOK
  <2>2. ToSet(chunk') \subseteq Documents' /\ Len(chunk') <= ChunkSize
    BY <1>2, <1>3, EmptyChunk
  <2> QED BY <1>2, <1>3, <1>7, <1>8, <2>1, <2>2 DEF TypeOK
<1>10. ChunkInv'
  BY <1>2, <1>3, EmptyChunk DEF ChunkInv
<1>11. AckInv'
  <2>1. ASSUME NEW d \in Documents, reached'[d].ok
        PROVE  \E i \in DOMAIN results' : results'[i].ack = reached'[d].level
    <3>1. CASE d \in ok
      <4>1. reached'[d].level = ack
        BY <1>1, <3>1
      <4> QED BY <1>4, <1>6, <4>1
    <3>2. CASE d \notin ok
      <4>1. reached'[d] = reached[d]
        BY <1>1, <3>2
      <4>2. PICK i \in DOMAIN results : results[i].ack = reached[d].level
        BY <2>1, <4>1 DEF AckInv
      <4>3. i \in DOMAIN results' /\ results'[i] = results[i]
        BY <1>6
      <4> QED BY <4>1, <4>2, <4>3
    <3> QED BY <3>1, <3>2
  <2> QED BY <1>2, <1>3, <1>6, <2>1 DEF AckInv
<1>12. CopyInv'
  <2>1. \A d : LateWith(d)' = LateWith(d)
    BY <1>2 DEF LateWith
  <2>2. \A d \in Documents : ids => copies'[d] <= 1
    BY <1>1, <1>2, <1>3, Storing DEF CopyInv
  <2>3. ASSUME NEW d \in Documents, ~ids
        PROVE  copies'[d] + Cardinality(LateWith(d)') <= runs' - (IF Spent(d)' THEN 0 ELSE 1)
    <3>1. copies[d] + Cardinality(LateWith(d)) <= runs - (IF Spent(d) THEN 0 ELSE 1)
      BY <2>3 DEF CopyInv
    <3>2. /\ copies[d] \in Nat /\ Cardinality(LateWith(d)) \in Nat /\ runs \in Nat
          /\ Cardinality(LateWith(d)') = Cardinality(LateWith(d)) /\ runs' = runs
      BY <1>2, <2>1, Counted
    <3>3. CASE d \in ToSet(chunk)
      <4>1. ~Spent(d) /\ copies'[d] \in {copies[d], copies[d] + 1}
        BY <1>1, <1>2, <1>3, <2>3, <3>3, Storing DEF Spent
      <4>2. Spent(d)'
        BY <1>2, <3>3, EmptyChunk DEF Spent, ChunkInv
      <4> QED BY <3>1, <3>2, <4>1, <4>2
    <3>4. CASE d \notin ToSet(chunk)
      <4>1. Spent(d)' <=> Spent(d)
        BY <1>2, <3>4, EmptyChunk DEF Spent
      <4>2. copies'[d] = copies[d]
        BY <1>1, <1>2, <1>3, <3>4, Storing
      <4> QED BY <3>1, <3>2, <4>1, <4>2
    <3> QED BY <3>3, <3>4
  <2> QED BY <1>2, <1>3, <2>2, <2>3 DEF CopyInv
<1> QED BY <1>9, <1>10, <1>11, <1>12

\* A chunk that failed is perhaps on its way; its run is over.
LEMMA FailedKeeps ==
    ASSUME IInv, Failed
    PROVE  IInv'
<1> USE DEF IInv
<1>1. /\ pc = "send" /\ pc' = "failed"
      /\ late' = late \/ late' = late \cup {<<runs, chunk>>}
      /\ UNCHANGED <<total, ids, next, chunk, results, merged, copies, reached, runs>>
  BY DEF Failed, input
<1>2. Documents' = Documents /\ MaxRuns \in Nat /\ runs \in Nat /\ runs \in 1..runs
  BY <1>1, BulkAssumption DEF Documents, TypeOK
<1>3. TypeOK'
  <2>1. \A c \in late' : c[1] \in 1..runs' /\ ToSet(c[2]) \subseteq Documents'
    BY <1>1, <1>2 DEF TypeOK
  <2> QED BY <1>1, <1>2, <2>1 DEF TypeOK
<1>4. ChunkInv' /\ AckInv'
  BY <1>1, <1>2 DEF ChunkInv, AckInv
<1>5. CopyInv'
  <2>1. IsFiniteSet(late')
    BY <1>1, FS_AddElement DEF CopyInv
  <2>2. ASSUME NEW d \in Documents, ~ids
        PROVE  copies'[d] + Cardinality(LateWith(d)') <= runs' - (IF Spent(d)' THEN 0 ELSE 1)
    <3>1. copies[d] + Cardinality(LateWith(d)) <= runs - (IF Spent(d) THEN 0 ELSE 1)
      BY <2>2 DEF CopyInv
    <3>2. /\ copies[d] \in Nat /\ Cardinality(LateWith(d)) \in Nat /\ runs \in Nat
          /\ IsFiniteSet(LateWith(d))
      BY Counted
    <3>3. Spent(d)' /\ runs' = runs /\ copies'[d] = copies[d]
      BY <1>1 DEF Spent
    <3>4. CASE LateWith(d)' = LateWith(d)
      BY <3>1, <3>2, <3>3, <3>4
    <3>5. CASE LateWith(d)' # LateWith(d)
      <4>1. d \in ToSet(chunk) /\ LateWith(d)' = LateWith(d) \cup {<<runs, chunk>>}
        BY <1>1, <3>5 DEF LateWith
      <4>2. ~Spent(d)
        BY <1>1, <4>1 DEF Spent
      <4>3. Cardinality(LateWith(d)') <= Cardinality(LateWith(d)) + 1
        <5>1. Cardinality(LateWith(d) \cup {<<runs, chunk>>})
                 = IF <<runs, chunk>> \in LateWith(d) THEN Cardinality(LateWith(d))
                   ELSE Cardinality(LateWith(d)) + 1
          BY <3>2, FS_AddElement
        <5>2. Cardinality(LateWith(d)') = Cardinality(LateWith(d) \cup {<<runs, chunk>>})
          BY <4>1
        <5> QED BY <3>2, <5>1, <5>2
      <4>4. Cardinality(LateWith(d)') \in Nat
        BY <3>2, <4>1, FS_AddElement, FS_CardinalityType
      <4> QED BY <3>1, <3>2, <3>3, <4>2, <4>3, <4>4
    <3> QED BY <3>4, <3>5
  <2> QED BY <1>1, <1>2, <2>1, <2>2 DEF CopyInv
<1> QED BY <1>3, <1>4, <1>5

\* A late chunk is written: what was on its way is there.
LEMMA LandsKeeps ==
    ASSUME IInv, LandsLate
    PROVE  IInv'
<1> USE DEF IInv
<1>1. PICK c \in late :
         /\ \E docs \in SUBSET ToSet(c[2]) : copies' = Stored(docs)
         /\ late' = late \ {c}
         /\ UNCHANGED <<total, ids, pc, next, chunk, results, merged, reached, runs>>
  BY DEF LandsLate, input
<1>2. PICK docs \in SUBSET ToSet(c[2]) : copies' = Stored(docs)
  BY <1>1
<1>3. Documents' = Documents /\ docs \in SUBSET Documents
  BY <1>1 DEF Documents, TypeOK
<1>4. TypeOK'
  BY <1>1, <1>2, <1>3, Storing DEF TypeOK
<1>5. ChunkInv' /\ AckInv'
  BY <1>1, <1>3 DEF ChunkInv, AckInv
<1>6. CopyInv'
  <2>1. IsFiniteSet(late')
    BY <1>1, FS_RemoveElement DEF CopyInv
  <2>2. \A d \in Documents : ids => copies'[d] <= 1
    BY <1>1, <1>2, <1>3, Storing DEF CopyInv
  <2>3. ASSUME NEW d \in Documents, ~ids
        PROVE  copies'[d] + Cardinality(LateWith(d)') <= runs' - (IF Spent(d)' THEN 0 ELSE 1)
    <3>1. copies[d] + Cardinality(LateWith(d)) <= runs - (IF Spent(d) THEN 0 ELSE 1)
      BY <2>3 DEF CopyInv
    <3>2. /\ copies[d] \in Nat /\ Cardinality(LateWith(d)) \in Nat /\ runs \in Nat
          /\ IsFiniteSet(LateWith(d))
      BY Counted
    <3>3. (Spent(d)' <=> Spent(d)) /\ runs' = runs
      BY <1>1 DEF Spent
    <3>4. CASE d \in ToSet(c[2])
      <4>1. LateWith(d)' = LateWith(d) \ {c} /\ c \in LateWith(d)
        BY <1>1, <3>4 DEF LateWith
      <4>2. Cardinality(LateWith(d)') = Cardinality(LateWith(d)) - 1
        BY <3>2, <4>1, FS_RemoveElement
      <4>3. copies'[d] \in {copies[d], copies[d] + 1}
        BY <1>1, <1>2, <1>3, <2>3, Storing
      <4> QED BY <3>1, <3>2, <3>3, <4>2, <4>3
    <3>5. CASE d \notin ToSet(c[2])
      <4>1. LateWith(d)' = LateWith(d)
        BY <1>1, <3>5 DEF LateWith
      <4>2. copies'[d] = copies[d]
        BY <1>1, <1>2, <1>3, <3>5, Storing
      <4> QED BY <3>1, <3>2, <3>3, <4>1, <4>2
    <3> QED BY <3>4, <3>5
  <2> QED BY <1>1, <1>3, <2>1, <2>2, <2>3 DEF CopyInv
<1> QED BY <1>4, <1>5, <1>6

\* The caller begins again.
LEMMA RerunKeeps ==
    ASSUME IInv, Rerun
    PROVE  IInv'
<1> USE DEF IInv
<1>1. /\ pc \in {"failed", "raised", "returned"} /\ runs < MaxRuns /\ runs' = runs + 1
      /\ pc' = "read" /\ next' = 1 /\ chunk' = <<>> /\ results' = <<>> /\ merged' = NoResult
      /\ reached' = [d \in Documents |-> Unsaid]
      /\ UNCHANGED <<total, ids, late, copies>>
  BY DEF Rerun, Fresh, input
<1>2. /\ MaxRuns \in Nat \ {0} /\ ChunkSize \in Nat \ {0} /\ total \in Nat /\ runs \in Nat
      /\ Documents' = Documents /\ runs \in 1..MaxRuns
  BY <1>1, BulkAssumption DEF TypeOK, Documents
<1>3. TypeOK'
  <2>1. reached' \in [Documents -> [ok : BOOLEAN, level : Levels \cup {0}]]
    BY <1>1 DEF Unsaid
  <2>2. runs' \in 1..MaxRuns /\ next' \in 1..(total + 1)
    BY <1>1, <1>2
  <2>3. \A c \in late : c[1] \in 1..runs' /\ ToSet(c[2]) \subseteq Documents
    BY <1>1, <1>2 DEF TypeOK
  <2>4. ToSet(chunk') \subseteq Documents /\ Len(chunk') <= ChunkSize
    BY <1>1, <1>2, EmptyChunk
  <2>5. \A i \in DOMAIN results' : results'[i].ack \in Levels
    BY <1>1
  <2>6. pc' \in {"read", "send", "returned", "failed", "raised"}
    BY <1>1
  <2> QED BY <1>1, <1>2, <2>1, <2>2, <2>3, <2>4, <2>5, <2>6 DEF TypeOK
<1>4. ChunkInv'
  BY <1>1, <1>2, EmptyChunk DEF ChunkInv
<1>5. AckInv'
  <2>1. \A d \in Documents : ~reached'[d].ok
    BY <1>1 DEF Unsaid
  <2> QED BY <1>1, <1>2, <2>1 DEF AckInv
<1>6. CopyInv'
  <2>1. ASSUME NEW d \in Documents, ~ids
        PROVE  copies'[d] + Cardinality(LateWith(d)') <= runs' - (IF Spent(d)' THEN 0 ELSE 1)
    <3>1. copies[d] + Cardinality(LateWith(d)) <= runs - (IF Spent(d) THEN 0 ELSE 1)
      BY <2>1 DEF CopyInv
    <3>2. copies[d] \in Nat /\ Cardinality(LateWith(d)) \in Nat
      BY Counted
    <3>3. Spent(d) /\ LateWith(d)' = LateWith(d) /\ copies'[d] = copies[d]
      BY <1>1 DEF Spent, LateWith
    <3> QED BY <1>1, <1>2, <3>1, <3>2, <3>3
  <2> QED BY <1>1, <1>2, <2>1 DEF CopyInv
<1> QED BY <1>3, <1>4, <1>5, <1>6

LEMMA Invariance == Spec => []IInv
<1>1. ASSUME IInv, [Next]_vars
      PROVE  IInv'
  <2>1. CASE Next
    BY <1>1, <2>1, ReadKeeps, EndKeeps, AnsweredKeeps, FailedKeeps, RerunKeeps, LandsKeeps
       DEF Next
  <2>2. CASE UNCHANGED vars
    BY <1>1, <2>2 DEF vars, input, IInv, TypeOK, ChunkInv, AckInv, CopyInv, Documents,
                      LateWith, Spent
  <2> QED BY <1>1, <2>1, <2>2
<1> QED BY <1>1, InitIInv, PTL DEF Spec

-----------------------------------------------------------------------------
(* The merged items.  Their concatenation is a recursive function, and what *)
(* holds of it is shown answer by answer, along with the loop: one more     *)
(* answer makes one more step of the recursion.                             *)

\* How many documents were answered in this run, and the items of all of
\* them in the order given.
Covered == next - 1 - Len(chunk)
Said == [d \in 1..Covered |-> [doc |-> d, ok |-> reached[d].ok]]

\* g[i] is the concatenation of the items of the first i answers.
Joined(rs, g) ==
    g = [i \in 1..Len(rs) |-> IF i = 1 THEN rs[i].items ELSE g[i - 1] \o rs[i].items]

\* The chunk is what was read and not answered yet.
OrderInv ==
    /\ Covered \in Nat
    /\ \A i \in 1..Len(chunk) : chunk[i] = Covered + i
    /\ \A d \in Documents : d > Covered => ~reached[d].ok

\* The answers so far say of each document that they cover what the node said.
SaidInv ==
    /\ \E g : Joined(results, g)
    /\ results = <<>> => Covered = 0
    /\ results # <<>> => \A g : Joined(results, g) => g[Len(results)] = Said
    /\ (\E d \in 1..Covered : ~reached[d].ok) => AnyErrors(results)

\* The result has the items of all documents, and the flag of the answers.
ResultInv ==
    pc = "returned" =>
        Covered = total /\ merged.items = Said /\ merged.errors = AnyErrors(results)

\* What the node stored for this run is there.
StoredInv == \A d \in Documents : reached[d].ok => copies[d] >= 1

MergedInv == OrderInv /\ SaidInv /\ ResultInv /\ StoredInv

\* The merged items are any such function's last value, if there is one.
LEMMA Flattened ==
    ASSUME NEW rs \in Seq(Answers), rs # <<>>, NEW items,
           \E g : Joined(rs, g), \A g : Joined(rs, g) => g[Len(rs)] = items
    PROVE  merge_bulk(rs).items = items
<1> DEFINE seqs == [i \in DOMAIN rs |-> rs[i].items]
           Is(g) == g = [i \in 1..Len(seqs) |-> IF i = 1 THEN seqs[i] ELSE g[i - 1] \o seqs[i]]
<1>1. /\ DOMAIN rs = 1..Len(rs) /\ Len(rs) \in Nat \ {0}
      /\ \A i \in 1..Len(rs) : rs[i].items \in Seq([doc : Nat, ok : BOOLEAN])
  <2>1. DOMAIN rs = 1..Len(rs) /\ Len(rs) \in Nat \ {0} /\ \A i \in 1..Len(rs) : rs[i] \in Answers
    OBVIOUS
  <2>2. \A a \in Answers : a.items \in Seq([doc : Nat, ok : BOOLEAN])
    BY DEF Answers
  <2> QED BY <2>1, <2>2
<1>2. seqs \in Seq(Seq([doc : Nat, ok : BOOLEAN])) /\ Len(seqs) = Len(rs)
  BY <1>1
<1>3. \A g : Is(g) <=> Joined(rs, g)
  <2>1. \A i \in 1..Len(rs) : seqs[i] = rs[i].items
    BY <1>1
  <2> HIDE DEF seqs
  <2>2. ASSUME NEW g
        PROVE  [i \in 1..Len(seqs) |-> IF i = 1 THEN seqs[i] ELSE g[i - 1] \o seqs[i]]
             = [i \in 1..Len(rs) |-> IF i = 1 THEN rs[i].items ELSE g[i - 1] \o rs[i].items]
    BY <1>2, <2>1
  <2> QED BY <2>2 DEF Joined
<1>4. merge_bulk(rs).items = (CHOOSE g : Is(g))[Len(rs)]
  <2>1. merge_bulk(rs).items = FlattenSeq(seqs)
    BY DEF merge_bulk
  <2>2. FlattenSeq(seqs) = (CHOOSE g : Is(g))[Len(seqs)]
    <3> HIDE DEF seqs
    <3> QED BY <1>1, <1>2 DEF FlattenSeq
  <2> QED BY <1>2, <2>1, <2>2
<1> HIDE DEF Is
<1>5. Is(CHOOSE g : Is(g))
  BY <1>3
<1> QED BY <1>3, <1>4, <1>5

\* One more answer: one more step of the recursion, and no other.
LEMMA JoinedMore ==
    ASSUME NEW rs \in Seq(Answers), NEW a \in Answers
    PROVE  LET more == Append(rs, a)
               n == Len(rs)
           IN  /\ \A g : Joined(rs, g) => \E h : Joined(more, h)
               /\ \A h : Joined(more, h) =>
                     /\ \E g : Joined(rs, g) /\ (n > 0 => g[n] = h[n])
                     /\ h[n + 1] = IF n = 0 THEN a.items ELSE h[n] \o a.items
<1> DEFINE more == Append(rs, a)
           n == Len(rs)
<1>1. /\ n \in Nat /\ Len(more) = n + 1
      /\ more[n + 1] = a /\ \A i \in 1..n : more[i] = rs[i]
  OBVIOUS
<1> HIDE DEF more, n
<1>2. ASSUME NEW g, Joined(rs, g)
      PROVE  \E h : Joined(more, h)
  <2> DEFINE h == [i \in 1..(n + 1) |-> IF i = n + 1
                                        THEN IF n = 0 THEN a.items ELSE g[n] \o a.items
                                        ELSE g[i]]
  <2>1. g = [i \in 1..n |-> IF i = 1 THEN rs[i].items ELSE g[i - 1] \o rs[i].items]
    BY <1>2 DEF Joined, n
  <2>2. ASSUME NEW i \in 1..(n + 1)
        PROVE  h[i] = IF i = 1 THEN more[i].items ELSE h[i - 1] \o more[i].items
    <3>1. CASE i = n + 1
      <4>1. CASE n = 0
        BY <1>1, <3>1, <4>1
      <4>2. CASE n # 0
        <5>1. h[n] = g[n]
          <6>1. n \in 1..(n + 1) /\ n # n + 1
            BY <1>1, <4>2
          <6> QED BY <6>1
        <5>2. h[i] = g[n] \o a.items /\ more[i] = a
          BY <1>1, <3>1, <4>2
        <5>3. i # 1 /\ i - 1 = n
          BY <1>1, <3>1, <4>2
        <5> HIDE DEF h
        <5> QED BY <5>1, <5>2, <5>3
      <4> QED BY <4>1, <4>2
    <3>2. CASE i # n + 1
      <4>1. i \in 1..n /\ h[i] = g[i] /\ more[i] = rs[i]
        BY <1>1, <3>2
      <4>2. g[i] = IF i = 1 THEN rs[i].items ELSE g[i - 1] \o rs[i].items
        BY <2>1, <4>1
      <4>3. i # 1 => h[i - 1] = g[i - 1]
        BY <1>1, <4>1
      <4> HIDE DEF h
      <4> QED BY <4>1, <4>2, <4>3
    <3> QED BY <3>1, <3>2
  <2>3. h = [i \in 1..(n + 1) |-> h[i]]
    OBVIOUS
  <2> HIDE DEF h
  <2>4. h = [i \in 1..(n + 1) |-> IF i = 1 THEN more[i].items ELSE h[i - 1] \o more[i].items]
    BY <2>2, <2>3
  <2>5. Joined(more, h)
    BY <1>1, <2>4 DEF Joined
  <2> QED BY <2>5
<1>3. ASSUME NEW h, Joined(more, h)
      PROVE  /\ \E g : Joined(rs, g) /\ (n > 0 => g[n] = h[n])
             /\ h[n + 1] = IF n = 0 THEN a.items ELSE h[n] \o a.items
  <2>1. h = [i \in 1..(n + 1) |-> IF i = 1 THEN more[i].items ELSE h[i - 1] \o more[i].items]
    BY <1>1, <1>3 DEF Joined
  <2>2. \A i \in 1..(n + 1) : h[i] = IF i = 1 THEN more[i].items ELSE h[i - 1] \o more[i].items
    BY <2>1
  <2>3. h[n + 1] = IF n = 0 THEN a.items ELSE h[n] \o a.items
    <3>1. n + 1 \in 1..(n + 1) /\ (n + 1 = 1 <=> n = 0) /\ n + 1 - 1 = n
      BY <1>1
    <3> QED BY <1>1, <2>2, <3>1
  <2> DEFINE g == [i \in 1..n |-> h[i]]
  <2>4. ASSUME NEW i \in 1..n
        PROVE  g[i] = IF i = 1 THEN rs[i].items ELSE g[i - 1] \o rs[i].items
    <3>1. h[i] = IF i = 1 THEN rs[i].items ELSE h[i - 1] \o rs[i].items
      BY <1>1, <2>2
    <3>2. g[i] = h[i] /\ (i # 1 => g[i - 1] = h[i - 1])
      BY <1>1
    <3> HIDE DEF g
    <3> QED BY <3>1, <3>2
  <2>5. g = [i \in 1..n |-> g[i]] /\ (n > 0 => g[n] = h[n])
    BY <1>1
  <2> HIDE DEF g
  <2>6. g = [i \in 1..n |-> IF i = 1 THEN rs[i].items ELSE g[i - 1] \o rs[i].items]
    BY <2>4, <2>5
  <2>7. Joined(rs, g)
    BY <2>6 DEF Joined, n
  <2> QED BY <2>3, <2>5, <2>7
<1> QED BY <1>2, <1>3 DEF more, n

\* Two pieces, one after the other, are the whole.
LEMMA Pieces ==
    ASSUME NEW S, NEW D \in Nat, NEW L \in Nat, NEW f \in [1..(D + L) -> S],
           NEW s, s = [d \in 1..D |-> f[d]], NEW t, t = [i \in 1..L |-> f[D + i]]
    PROVE  s \o t = f
<1>1. \A i \in 1..L : D + i \in 1..(D + L)
  OBVIOUS
<1>2. s \in Seq(S) /\ Len(s) = D
  OBVIOUS
<1>3. t \in Seq(S) /\ Len(t) = L
  BY <1>1
<1>4. \A i \in 1..D : s[i] = f[i]
  OBVIOUS
<1>5. \A i \in (D + 1)..(D + L) : t[i - D] = f[i]
  <2>1. \A i \in (D + 1)..(D + L) : i - D \in 1..L /\ D + (i - D) = i
    OBVIOUS
  <2> QED BY <2>1
<1>6. s \o t = [i \in 1..(D + L) |-> IF i <= D THEN s[i] ELSE t[i - D]]
  BY <1>2, <1>3
<1>7. \A i \in 1..(D + L) : (s \o t)[i] = f[i]
  BY <1>4, <1>5, <1>6
<1> QED BY <1>6, <1>7

\* Before the first answer there is nothing to join.
LEMMA NothingJoined == \E g : Joined(<<>>, g)
<1> DEFINE g == [i \in 1..0 |-> 0]
<1>1. g = [i \in 1..Len(<<>>) |-> IF i = 1 THEN <<>>[i].items ELSE g[i - 1] \o <<>>[i].items]
  OBVIOUS
<1> HIDE DEF g
<1> QED BY <1>1 DEF Joined

\* A run begins with nothing covered.
LEMMA InitMerged == Init => MergedInv
<1> SUFFICES ASSUME Init PROVE MergedInv
  OBVIOUS
<1>1. Covered = 0 /\ results = <<>> /\ chunk = <<>> /\ pc = "read"
  <2>1. next = 1 /\ chunk = <<>> /\ results = <<>> /\ pc = "read"
    BY DEF Init
  <2>2. next = 1 /\ Len(chunk) = 0
    BY <2>1, EmptyChunk
  <2>3. Covered = 0
    BY <2>2 DEF Covered
  <2> QED BY <2>1, <2>3
<1>2. \A d \in Documents : ~reached[d].ok
  BY DEF Init, Unsaid
<1>3. OrderInv
  BY <1>1, <1>2, EmptyChunk DEF OrderInv
<1>4. SaidInv
  BY <1>1, NothingJoined DEF SaidInv
<1> QED BY <1>1, <1>2, <1>3, <1>4 DEF MergedInv, ResultInv, StoredInv

LEMMA ReadMerges ==
    ASSUME IInv, MergedInv, Read
    PROVE  MergedInv'
<1>1. /\ pc = "read" /\ chunk' = Append(chunk, next) /\ next' = next + 1
      /\ pc' \in {"send", "read"} /\ next \in Nat /\ chunk \in Seq(Nat)
      /\ UNCHANGED <<total, results, merged, copies, reached>>
  BY BulkAssumption DEF IInv, TypeOK, ChunkInv, Read, input
<1>2. /\ Len(chunk') = Len(chunk) + 1 /\ Len(chunk) \in Nat
      /\ \A i \in 1..Len(chunk) : chunk'[i] = chunk[i]
      /\ chunk'[Len(chunk) + 1] = next
  BY <1>1
<1>3. Covered' = Covered /\ Documents' = Documents /\ Covered \in Nat
  BY <1>1, <1>2 DEF Covered, Documents, MergedInv, OrderInv
<1>4. OrderInv'
  <2>1. next = Covered + (Len(chunk) + 1)
    BY <1>1, <1>2 DEF Covered
  <2>2. \A i \in 1..Len(chunk') : chunk'[i] = Covered' + i
    BY <1>2, <1>3, <2>1 DEF MergedInv, OrderInv
  <2> QED BY <1>1, <1>3, <2>2 DEF MergedInv, OrderInv
<1>5. SaidInv'
  BY <1>1, <1>3 DEF MergedInv, SaidInv, Said
<1> QED BY <1>1, <1>3, <1>4, <1>5 DEF MergedInv, ResultInv, StoredInv

LEMMA EndMerges ==
    ASSUME IInv, MergedInv, Exhausted \/ BadDocument
    PROVE  MergedInv'
<1>1. /\ UNCHANGED <<total, next, chunk, results, copies, reached>>
      /\ pc' # "returned" \/ Exhausted
  BY DEF Exhausted, BadDocument, input
<1>2. Covered' = Covered /\ Documents' = Documents /\ Said' = Said
  BY <1>1 DEF Covered, Documents, Said
<1>3. OrderInv' /\ SaidInv' /\ StoredInv'
  BY <1>1, <1>2 DEF MergedInv, OrderInv, SaidInv, StoredInv
<1>4. ASSUME pc' = "returned"
      PROVE  Covered = total /\ merged'.items = Said /\ merged'.errors = AnyErrors(results)
  <2>1. next > total /\ chunk = <<>> /\ results # <<>> /\ merged' = merge_bulk(results)
    BY <1>1, <1>4 DEF Exhausted, LastChunk
  <2>2. Covered = total
    <3>1. total \in Nat /\ next \in 1..(total + 1)
      BY BulkAssumption DEF IInv, TypeOK
    <3> QED BY <2>1, <3>1, EmptyChunk DEF Covered
  <2>3. merge_bulk(results).items = Said
    <3>1. results \in Seq(Answers)
      BY DEF IInv, AckInv
    <3>2. (\E g : Joined(results, g)) /\ \A g : Joined(results, g) => g[Len(results)] = Said
      BY <2>1 DEF MergedInv, SaidInv
    <3> QED BY <2>1, <3>1, <3>2, Flattened
  <2>4. merge_bulk(results).errors = AnyErrors(results)
    BY DEF merge_bulk
  <2> QED BY <2>1, <2>2, <2>3, <2>4
<1>5. ResultInv'
  BY <1>1, <1>2, <1>4 DEF ResultInv
<1> QED BY <1>3, <1>5 DEF MergedInv

\* The answer to a chunk carries on where the earlier ones ended.
LEMMA AnsweredMerges ==
    ASSUME IInv, MergedInv, Answered
    PROVE  MergedInv'
<1>1. PICK ok, stored \in SUBSET ToSet(chunk), ack \in Levels, timed_out \in BOOLEAN :
         /\ ok \subseteq stored
         /\ results' = Append(results,
               [ items     |-> [i \in DOMAIN chunk |-> [doc |-> chunk[i], ok |-> chunk[i] \in ok]],
                 errors    |-> ok # ToSet(chunk),
                 ack       |-> ack,
                 timed_out |-> timed_out ])
         /\ copies' = Stored(stored)
         /\ reached' = [d \in Documents |-> IF d \in ok THEN [ok |-> TRUE, level |-> ack]
                                            ELSE reached[d]]
  BY DEF Answered
<1> DEFINE answer == [ items     |-> [i \in DOMAIN chunk |->
                                        [doc |-> chunk[i], ok |-> chunk[i] \in ok]],
                       errors    |-> ok # ToSet(chunk),
                       ack       |-> ack,
                       timed_out |-> timed_out ]
           n == Len(results)
           L == Len(chunk)
<1>2. /\ chunk' = <<>> /\ pc' = "read" /\ UNCHANGED <<total, ids, next>>
      /\ Documents' = Documents /\ results' = Append(results, answer)
  BY <1>1 DEF Answered, Emptied, input, Documents
<1>3. /\ results \in Seq(Answers) /\ n \in Nat /\ chunk \in Seq(Nat) /\ L \in Nat
      /\ ok \in SUBSET Documents /\ ToSet(chunk) \subseteq Documents
      /\ next \in Nat /\ total \in Nat /\ Covered \in Nat /\ DOMAIN chunk = 1..L
  BY <1>1, BulkAssumption DEF IInv, AckInv, TypeOK, ChunkInv, MergedInv, OrderInv
<1>4. /\ answer.errors = (ok # ToSet(chunk))
      /\ answer.items = [i \in 1..L |-> [doc |-> chunk[i], ok |-> chunk[i] \in ok]]
  BY <1>3
<1>5. answer \in Answers
  <2>1. answer.items \in Seq([doc : Nat, ok : BOOLEAN])
    <3>1. \A i \in 1..L :
             [doc |-> chunk[i], ok |-> chunk[i] \in ok] \in [doc : Nat, ok : BOOLEAN]
      BY <1>3
    <3> QED BY <1>3, <1>4, <3>1
  <2>2. (ok # ToSet(chunk)) \in BOOLEAN
    OBVIOUS
  <2> QED BY <2>1, <2>2 DEF Answers
<1> HIDE DEF answer
<1>6. Covered' = Covered + L
  BY <1>2, <1>3, EmptyChunk DEF Covered
<1>7. \A i \in 1..L : chunk[i] = Covered + i /\ Covered + i \in Documents
  <2>1. \A i \in 1..L : chunk[i] \in ToSet(chunk)
    BY <1>3 DEF ToSet
  <2> QED BY <1>3, <2>1 DEF MergedInv, OrderInv
<1>8. \A d \in ToSet(chunk) : d \in (Covered + 1)..(Covered + L)
  BY <1>3, <1>7 DEF ToSet
<1>9. OrderInv'
  <2>1. \A d \in Documents : d > Covered' => ~reached'[d].ok
    <3>1. ASSUME NEW d \in Documents, d > Covered'
          PROVE  ~reached'[d].ok
      <4>1. d > Covered /\ d \notin ok
        BY <1>1, <1>3, <1>6, <1>8, <3>1 DEF Documents
      <4>2. reached'[d] = reached[d]
        BY <1>1, <4>1
      <4> QED BY <4>1, <4>2 DEF MergedInv, OrderInv
    <3> QED BY <3>1
  <2> QED BY <1>2, <1>3, <1>6, <2>1, EmptyChunk DEF OrderInv
\* What is said of every document covered now.
<1>10. /\ \A d \in 1..Covered : d \in Documents /\ reached'[d].ok = reached[d].ok
       /\ \A i \in 1..L : reached'[Covered + i].ok = (Covered + i \in ok)
  <2>1. ASSUME NEW d \in 1..Covered
        PROVE  d \in Documents /\ reached'[d].ok = reached[d].ok
    <3>1. d \in Documents
      <4>1. Covered <= total
        <5>1. next \in 1..(total + 1)
          BY DEF IInv, TypeOK
        <5> QED BY <1>3, <5>1 DEF Covered
      <4> QED BY <1>3, <4>1 DEF Documents
    <3>2. d \notin ok
      BY <1>1, <1>3, <1>8
    <3>3. reached'[d] = reached[d]
      BY <1>1, <3>1, <3>2
    <3> QED BY <3>1, <3>3
  <2>2. ASSUME NEW i \in 1..L
        PROVE  reached'[Covered + i].ok = (Covered + i \in ok)
    <3>1. Covered + i \in Documents
      BY <1>7
    <3>2. CASE Covered + i \in ok
      <4>1. reached'[Covered + i] = [ok |-> TRUE, level |-> ack]
        BY <1>1, <3>1, <3>2
      <4>2. reached'[Covered + i].ok = TRUE
        BY <4>1
      <4>3. (Covered + i \in ok) = TRUE
        BY <3>2
      <4> QED BY <4>2, <4>3
    <3>3. CASE Covered + i \notin ok
      <4>1. reached'[Covered + i] = reached[Covered + i]
        BY <1>1, <3>1, <3>3
      <4>2. Covered + i > Covered
        BY <1>3
      <4>3. reached \in [Documents -> [ok : BOOLEAN, level : Levels \cup {0}]]
        BY DEF IInv, TypeOK
      <4>4. ~reached[Covered + i].ok
        BY <3>1, <4>2 DEF MergedInv, OrderInv
      <4>5. reached[Covered + i].ok \in BOOLEAN
        BY <3>1, <4>3
      <4>6. reached'[Covered + i].ok = FALSE
        BY <4>1, <4>4, <4>5
      <4>7. (Covered + i \in ok) = FALSE
        BY <3>3
      <4> QED BY <4>6, <4>7
    <3> QED BY <3>2, <3>3
  <2> QED BY <2>1, <2>2
<1>11. /\ Said' \in [1..(Covered + L) -> [doc : Nat, ok : BOOLEAN]]
       /\ Said = [d \in 1..Covered |-> Said'[d]]
       /\ answer.items = [i \in 1..L |-> Said'[Covered + i]]
  <2>1. Said' = [d \in 1..(Covered + L) |-> [doc |-> d, ok |-> reached'[d].ok]]
    BY <1>6 DEF Said
  <2>2. \A d \in 1..(Covered + L) : d \in 1..Covered \/ \E i \in 1..L : d = Covered + i
    <3>1. ASSUME NEW d \in 1..(Covered + L), d \notin 1..Covered
          PROVE  d - Covered \in 1..L /\ d = Covered + (d - Covered)
      BY <1>3, <3>1
    <3> QED BY <3>1
  <2>3. \A d \in 1..(Covered + L) : reached'[d].ok \in BOOLEAN
    <3>1. \A d \in Documents : reached[d].ok \in BOOLEAN
      BY DEF IInv, TypeOK
    <3>2. \A d \in 1..Covered : reached'[d].ok \in BOOLEAN
      <4>1. ASSUME NEW d \in 1..Covered
            PROVE  reached'[d].ok \in BOOLEAN
        <5>1. d \in Documents /\ reached'[d].ok = reached[d].ok
          BY <1>10
        <5>2. reached[d].ok \in BOOLEAN
          BY <3>1, <5>1
        <5> QED BY <5>1, <5>2
      <4> QED BY <4>1
    <3>3. \A i \in 1..L : reached'[Covered + i].ok \in BOOLEAN
      <4>1. \A i \in 1..L : (Covered + i \in ok) \in BOOLEAN
        OBVIOUS
      <4> QED BY <1>10, <4>1
    <3> QED BY <2>2, <3>2, <3>3
  <2>4. Said' \in [1..(Covered + L) -> [doc : Nat, ok : BOOLEAN]]
    BY <1>3, <2>1, <2>3
  <2>5. Said = [d \in 1..Covered |-> Said'[d]]
    <3>1. \A d \in 1..Covered : d \in 1..(Covered + L)
      BY <1>3
    <3> QED BY <1>10, <2>1, <3>1 DEF Said
  <2>6. answer.items = [i \in 1..L |-> Said'[Covered + i]]
    <3>1. \A i \in 1..L : Covered + i \in 1..(Covered + L)
      BY <1>3
    <3>2. \A i \in 1..L : Said'[Covered + i] = [doc |-> chunk[i], ok |-> chunk[i] \in ok]
      BY <1>7, <1>10, <2>1, <3>1
    <3> QED BY <1>4, <3>2
  <2> QED BY <2>4, <2>5, <2>6
<1>12. /\ Len(results') = n + 1 /\ results' # <<>> /\ results'[n + 1] = answer
       /\ DOMAIN results' = 1..(n + 1) /\ DOMAIN results = 1..n
       /\ \A i \in 1..n : results'[i] = results[i]
       /\ n = 0 => results = <<>>
  BY <1>2, <1>3, <1>5
<1>13. /\ \E h : Joined(results', h)
       /\ \A h : Joined(results', h) => h[Len(results')] = Said'
  <2>1. /\ \A g : Joined(results, g) => \E h : Joined(results', h)
        /\ \A h : Joined(results', h) =>
              /\ \E g : Joined(results, g) /\ (n > 0 => g[n] = h[n])
              /\ h[n + 1] = IF n = 0 THEN answer.items ELSE h[n] \o answer.items
    BY <1>2, <1>3, <1>5, JoinedMore
  <2>2. \E h : Joined(results', h)
    BY <2>1 DEF MergedInv, SaidInv
  <2>3. ASSUME NEW h, Joined(results', h)
        PROVE  h[n + 1] = Said'
    <3>1. CASE n = 0
      <4>1. Covered = 0 /\ h[n + 1] = answer.items
        BY <1>12, <2>1, <2>3, <3>1 DEF MergedInv, SaidInv
      <4>2. \A i \in 1..L : Said'[Covered + i] = Said'[i]
        BY <1>3, <4>1
      <4>3. answer.items = [i \in 1..L |-> Said'[i]] /\ Said' \in [1..L -> [doc : Nat, ok : BOOLEAN]]
        BY <1>3, <1>11, <4>1, <4>2
      <4> QED BY <4>1, <4>3
    <3>2. CASE n # 0
      <4>1. PICK g : Joined(results, g) /\ (n > 0 => g[n] = h[n])
        BY <2>1, <2>3
      <4>2. n > 0 /\ results # <<>>
        BY <1>3, <3>2
      <4>3. g[n] = Said
        BY <4>1, <4>2 DEF MergedInv, SaidInv
      <4>4. h[n + 1] = Said \o answer.items
        <5>1. h[n + 1] = h[n] \o answer.items
          BY <2>1, <2>3, <3>2
        <5> QED BY <4>1, <4>2, <4>3, <5>1
      <4>5. Said \o answer.items = Said'
        BY <1>3, <1>11, Pieces
      <4> QED BY <4>4, <4>5
    <3> QED BY <3>1, <3>2
  <2> QED BY <1>12, <2>2, <2>3
<1>14. ASSUME NEW d \in 1..Covered', ~reached'[d].ok
       PROVE  AnyErrors(results')
  <2>1. CASE d \in 1..Covered
    <3>1. ~reached[d].ok
      BY <1>10, <1>14, <2>1
    <3>2. PICK i \in DOMAIN results : results[i].errors
      BY <2>1, <3>1 DEF MergedInv, SaidInv, AnyErrors
    <3>3. i \in DOMAIN results' /\ results'[i].errors
      BY <1>3, <1>12, <3>2
    <3> QED BY <3>3 DEF AnyErrors
  <2>2. CASE d \notin 1..Covered
    <3>1. d - Covered \in 1..L /\ Covered + (d - Covered) = d
      BY <1>3, <1>6, <2>2
    <3>2. d \notin ok /\ chunk[d - Covered] = d
      BY <1>7, <1>10, <1>14, <3>1
    <3>3. d \in ToSet(chunk)
      BY <1>3, <3>1, <3>2 DEF ToSet
    <3>4. answer.errors
      BY <1>4, <3>2, <3>3
    <3>5. n + 1 \in DOMAIN results'
      BY <1>3, <1>12
    <3> QED BY <1>12, <3>4, <3>5 DEF AnyErrors
  <2> QED BY <2>1, <2>2
<1>15. SaidInv'
  BY <1>12, <1>13, <1>14 DEF SaidInv
<1>16. StoredInv'
  <2>1. ASSUME NEW d \in Documents, reached'[d].ok
        PROVE  copies'[d] >= 1
    <3>1. copies[d] \in Nat /\ copies'[d] = IF d \notin stored THEN copies[d]
                                             ELSE IF ids THEN 1 ELSE copies[d] + 1
      BY <1>1 DEF Stored, IInv, TypeOK
    <3>2. d \notin stored => copies[d] >= 1
      BY <1>1, <2>1 DEF MergedInv, StoredInv
    <3> QED BY <3>1, <3>2
  <2> QED BY <1>2, <2>1 DEF StoredInv
<1>17. ResultInv'
  BY <1>2 DEF ResultInv
<1> QED BY <1>9, <1>15, <1>16, <1>17 DEF MergedInv

\* Failures, late landings and a new run.
LEMMA OthersMerge ==
    ASSUME IInv, MergedInv, Failed \/ LandsLate \/ Rerun
    PROVE  MergedInv'
<1>1. CASE Failed
  BY <1>1 DEF Failed, input, MergedInv, OrderInv, SaidInv, ResultInv, StoredInv, Said,
              Covered, Documents
<1>2. CASE LandsLate
  <2>1. PICK c \in late :
           /\ \E docs \in SUBSET ToSet(c[2]) : copies' = Stored(docs)
           /\ UNCHANGED <<total, pc, next, chunk, results, merged, reached>>
    BY <1>2 DEF LandsLate, input
  <2>2. OrderInv' /\ SaidInv' /\ ResultInv'
    BY <2>1 DEF MergedInv, OrderInv, SaidInv, ResultInv, Said, Covered, Documents
  <2>3. StoredInv'
    <3>1. PICK docs \in SUBSET ToSet(c[2]) : copies' = Stored(docs)
      BY <2>1
    <3>2. ASSUME NEW d \in Documents, reached[d].ok
          PROVE  copies'[d] >= 1
      <4>1. copies[d] \in Nat /\ copies[d] >= 1
        BY <3>2 DEF MergedInv, StoredInv, IInv, TypeOK
      <4>2. copies'[d] = IF d \notin docs THEN copies[d] ELSE IF ids THEN 1 ELSE copies[d] + 1
        BY <3>1 DEF Stored
      <4> QED BY <4>1, <4>2
    <3> QED BY <2>1, <3>2 DEF StoredInv, Documents
  <2> QED BY <2>2, <2>3 DEF MergedInv
<1>3. CASE Rerun
  <2>1. /\ pc' = "read" /\ next' = 1 /\ chunk' = <<>> /\ results' = <<>>
        /\ reached' = [d \in Documents |-> Unsaid] /\ total' = total
    BY <1>3 DEF Rerun, Fresh, input
  <2>2. Covered' = 0 /\ \A d \in Documents' : ~reached'[d].ok
    <3>1. next' = 1 /\ Len(chunk') = 0
      BY <2>1, EmptyChunk
    <3>2. Covered' = 0
      BY <3>1 DEF Covered
    <3>3. \A d \in Documents' : ~reached'[d].ok
      BY <2>1 DEF Documents, Unsaid
    <3> QED BY <3>2, <3>3
  <2>3. OrderInv'
    BY <2>1, <2>2, EmptyChunk DEF OrderInv
  <2>4. SaidInv'
    BY <2>1, <2>2, NothingJoined DEF SaidInv
  <2> QED BY <2>1, <2>2, <2>3, <2>4 DEF MergedInv, ResultInv, StoredInv
<1> QED BY <1>1, <1>2, <1>3

LEMMA Merges == Spec => []MergedInv
<1>1. ASSUME IInv, MergedInv, [Next]_vars
      PROVE  MergedInv'
  <2>1. CASE Next
    BY <1>1, <2>1, ReadMerges, EndMerges, AnsweredMerges, OthersMerge DEF Next
  <2>2. CASE UNCHANGED vars
    BY <1>1, <2>2 DEF vars, input, MergedInv, OrderInv, SaidInv, ResultInv, StoredInv, Said,
                      Covered, Documents
  <2> QED BY <1>1, <2>1, <2>2
<1> QED BY <1>1, InitMerged, Invariance, PTL DEF Spec

-----------------------------------------------------------------------------
(* The theorems.                                                           *)

\* The ranges of the variables; no chunk is longer than chunk_size.
THEOREM Typing == Spec => []TypeOK
<1>1. IInv => TypeOK
  BY DEF IInv
<1> QED BY <1>1, Invariance, PTL

\* The merged ack holds for every stored document.
THEOREM WeakestHolds == Spec => []AckHoldsForAll
<1>1. IInv => AckHoldsForAll
  BY DEF IInv, AckInv, AckHoldsForAll
<1> QED BY <1>1, Invariance, PTL

\* No run writes a document twice, and with ids no number of runs does.
THEOREM NoneTwice == Spec => []NoDuplicates
<1>1. ASSUME IInv, NEW d \in Documents
      PROVE  copies[d] <= IF ids THEN 1 ELSE runs
  <2>1. /\ copies[d] \in Nat /\ Cardinality(LateWith(d)) \in Nat /\ runs \in Nat
    BY <1>1, Counted
  <2>2. CASE ids
    BY <1>1, <2>2 DEF IInv, CopyInv
  <2>3. CASE ~ids
    <3>1. copies[d] + Cardinality(LateWith(d)) <= runs - (IF Spent(d) THEN 0 ELSE 1)
      BY <1>1, <2>3 DEF IInv, CopyInv
    <3>2. copies[d] <= runs
      BY <2>1, <3>1
    <3> QED BY <2>3, <3>2
  <2> QED BY <2>2, <2>3
<1>2. IInv => NoDuplicates
  BY <1>1 DEF NoDuplicates
<1> QED BY <1>2, Invariance, PTL

\* The merged result has one item for each document, in the order given.
THEOREM ItemEach == Spec => []OneItemEach
<1>1. ASSUME MergedInv, pc = "returned"
      PROVE  [i \in DOMAIN merged.items |-> merged.items[i].doc] = [d \in Documents |-> d]
  <2>1. merged.items = [d \in 1..total |-> [doc |-> d, ok |-> reached[d].ok]]
    BY <1>1 DEF MergedInv, ResultInv, Said
  <2> QED BY <2>1 DEF Documents
<1>2. MergedInv => OneItemEach
  BY <1>1 DEF OneItemEach
<1> QED BY <1>2, Merges, PTL

\* The documents of the merged result that were not stored are its failed items.
LEMMA FailedAreFound ==
    ASSUME MergedInv, IInv, pc = "returned", NEW d \in Documents, ~reached[d].ok
    PROVE  d \in failed_items(merged)
<1>1. /\ merged.items = [e \in 1..total |-> [doc |-> e, ok |-> reached[e].ok]]
      /\ merged.errors = AnyErrors(results) /\ Covered = total
  BY DEF MergedInv, ResultInv, Said
<1>2. AnyErrors(results)
  BY <1>1 DEF MergedInv, SaidInv, Documents
<1>3. DOMAIN merged.items = 1..total /\ d \in 1..total
  BY <1>1 DEF Documents
<1>4. merged.items[d].doc = d /\ ~merged.items[d].ok
  BY <1>1, <1>3
<1> QED BY <1>1, <1>2, <1>3, <1>4 DEF failed_items

\* No document is lost without a word: what the node did not store is found
\* among the failed items of the merged result.
THEOREM LossIsTold == Spec => []NoSilentLoss
<1>1. MergedInv /\ IInv => NoSilentLoss
  BY FailedAreFound DEF NoSilentLoss
<1> QED BY <1>1, Merges, Invariance, PTL

\* Running it again until nothing failed leaves every document in the index,
\* and with ids once.
THEOREM Convergence == Spec => []Converges
<1>1. ASSUME MergedInv, IInv, pc = "returned", failed_items(merged) = {}, NEW d \in Documents
      PROVE  IF ids THEN copies[d] = 1 ELSE copies[d] >= 1
  <2>1. reached[d].ok
    BY <1>1, FailedAreFound
  <2>2. copies[d] >= 1 /\ copies[d] \in Nat
    BY <1>1, <2>1 DEF MergedInv, StoredInv, IInv, TypeOK
  <2>3. ids => copies[d] <= 1
    BY <1>1 DEF IInv, CopyInv
  <2> QED BY <2>2, <2>3
<1>2. MergedInv /\ IInv => Converges
  BY <1>1 DEF Converges
<1> QED BY <1>2, Merges, Invariance, PTL
=============================================================================
