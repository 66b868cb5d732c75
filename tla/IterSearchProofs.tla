-------------------------- MODULE IterSearchProofs --------------------------
(***************************************************************************)
(* What holds of every iteration, for any rows, claims and page size, any  *)
(* interleaving of writes and any answers of the node.                     *)
(***************************************************************************)
EXTENDS IterSearch, FiniteSetTheorems, TLAPS

-----------------------------------------------------------------------------
(* The node's answer.                                                      *)

\* A page is no longer than was asked for, and only an answer without
\* matching rows is an empty one.
LEMMA PageOfSize ==
    ASSUME NEW from, IsFiniteSet(from), NEW hits, IsFirstOf(hits, from)
    PROVE  /\ hits \subseteq from
           /\ Cardinality(hits) <= PageSize
           /\ hits = {} => from = {}
<1>1. PageSize \in Nat \ {0}
  BY IterAssumption
<1>2. Cardinality({}) = 0
  BY FS_EmptySet
<1>3. Cardinality(from) \in Nat
  BY FS_CardinalityType
<1>4. CASE Cardinality(hits) = Size
  BY <1>1, <1>2, <1>4 DEF IsFirstOf, Size
<1>5. CASE hits = from /\ Cardinality(from) < Size
  BY <1>1, <1>3, <1>5 DEF Size
<1> QED
  BY <1>4, <1>5 DEF IsFirstOf

\* What the node chooses from is finite and part of the index.
LEMMA MatchingType ==
    ASSUME TypeOK, NEW reached
    PROVE  Matching(reached) \subseteq live /\ IsFiniteSet(Matching(reached))
<1>1. Matching(reached) \subseteq live /\ live \subseteq Rows
  BY DEF Matching, TypeOK
<1> QED
  BY <1>1, IterAssumption, FS_Subset

\* A report that _check_complete lets pass is of an answer from every claim:
\* the flag and the count are not both wrong.
LEMMA CompleteReachesAll ==
    ASSUME NEW reached \in SUBSET Claims, NEW report \in Reports(reached), Complete(report)
    PROVE  reached = Claims
<1>1. Cardinality(Claims) \in Nat /\ Cardinality(reached) \in Nat
  BY IterAssumption, FS_CardinalityType, FS_Subset
<1> QED
  BY <1>1 DEF Reports, Complete

-----------------------------------------------------------------------------
(* Types.                                                                  *)

LEMMA TypesKept ==
    ASSUME TypeOK, [Next]_vars
    PROVE  TypeOK'
<1> USE DEF TypeOK
<1>1. CASE Search
  <2>1. PICK reached \in SUBSET Claims, carries \in SortValues :
        \E hits \in SUBSET Matching(reached), report \in Reports(reached) :
          /\ IsFirstOf(hits, Matching(reached))
          /\ IF require_complete /\ ~Complete(report)
             THEN pc' = "raised" /\ UNCHANGED pageInHand
             ELSE /\ pc' = "page"
                  /\ page' = hits
                  /\ left' = hits
                  /\ sorted' = carries
    BY <1>1 DEF Search
  <2>2. PICK hits \in SUBSET Matching(reached), report \in Reports(reached) :
          /\ IsFirstOf(hits, Matching(reached))
          /\ IF require_complete /\ ~Complete(report)
             THEN pc' = "raised" /\ UNCHANGED pageInHand
             ELSE /\ pc' = "page"
                  /\ page' = hits
                  /\ left' = hits
                  /\ sorted' = carries
    BY <2>1
  <2>3. Cardinality(hits) <= PageSize
    BY <2>2, PageOfSize, MatchingType
  <2>4. hits \subseteq Rows
    BY <2>2, MatchingType
  <2>5. UNCHANGED <<live, stable, obeys, require_complete, cursor, given>>
    BY <1>1 DEF Search, index, setting
  <2>6. carries \in BOOLEAN
    BY IterAssumption
  <2> QED
    BY <2>2, <2>3, <2>4, <2>5, <2>6 DEF pageInHand
<1>2. CASE SearchFails
  BY <1>2 DEF SearchFails, index, setting, pageInHand
<1>3. CASE Yield
  BY <1>3 DEF Yield, index, setting
<1>4. CASE NextCursor
  BY <1>4 DEF NextCursor, index, setting, pageInHand
<1>5. CASE Abandon
  BY <1>5 DEF Abandon, index, setting, pageInHand
<1>6. ASSUME NEW r \in Rows, Insert(r) \/ Remove(r) PROVE TypeOK'
  <2>1. live' \in SUBSET Rows /\ stable' \in SUBSET live'
    BY <1>6 DEF Insert, Remove
  <2> QED
    BY <1>6, <2>1 DEF Insert, Remove, setting, pageInHand
<1>7. CASE UNCHANGED vars
  BY <1>7 DEF vars, index, setting, pageInHand
<1> QED
  BY <1>1, <1>2, <1>3, <1>4, <1>5, <1>6, <1>7 DEF Next, Iterate

LEMMA InitTypes == Init => TypeOK
<1>1. Cardinality({}) = 0
  BY FS_EmptySet
<1> QED
  BY <1>1, IterAssumption DEF Init, TypeOK

\* Every variable stays in its range, and no page is longer than page_size.
THEOREM Typing == Spec => []TypeOK
  BY InitTypes, TypesKept, PTL DEF Spec

-----------------------------------------------------------------------------
(* Order.  With a node that follows search_after, a page lies beyond the   *)
(* cursor, and what was given lies at or before the cursor or in the part  *)
(* of the page that is used up.                                            *)

UsedUp == IF pc = "search" THEN {} ELSE page \ left

OrderInv ==
    obeys => /\ \A r \in Rows : given[r] > 0 => r <= cursor \/ r \in UsedUp
             /\ pc = "page" => /\ \A r \in page : cursor < r
                               /\ \A r \in page \ left, s \in left : r < s

LEMMA InitOrder == Init => OrderInv
  BY IterAssumption DEF Init, OrderInv, UsedUp

LEMMA OrderKept ==
    ASSUME TypeOK, OrderInv, [Next]_vars
    PROVE  OrderInv'
<1> USE DEF OrderInv, UsedUp
<1>0. Rows \subseteq Nat \ {0}
  BY IterAssumption
<1>1. CASE Search
  <2>1. UNCHANGED <<obeys, cursor, given>> /\ pc = "search"
    BY <1>1 DEF Search, index, setting
  <2>2. pc' = "raised" \/ (pc' = "page" /\ left' = page' /\ \A r \in page' : obeys => cursor < r)
    BY <1>1 DEF Search, Matching
  <2> QED
    BY <2>1, <2>2
<1>2. CASE SearchFails
  BY <1>2 DEF SearchFails, index, setting, pageInHand
<1>3. CASE Yield
  <2>1. PICK r \in left : /\ \A s \in left : r <= s
                          /\ left' = left \ {r}
                          /\ given' = [given EXCEPT ![r] = IF @ < 2 THEN @ + 1 ELSE 2]
    BY <1>3 DEF Yield
  <2>2. UNCHANGED <<obeys, pc, cursor, page>> /\ pc = "page"
    BY <1>3 DEF Yield, index, setting
  <2>3. left \subseteq page /\ page \subseteq Rows /\ r \in Rows
    BY DEF TypeOK
  <2>4. ASSUME obeys, NEW s \in page \ left', NEW t \in left' PROVE s < t
    BY <1>0, <2>1, <2>2, <2>3, <2>4
  <2>5. ASSUME obeys, NEW s \in Rows, given'[s] > 0 PROVE s <= cursor \/ s \in page \ left'
    BY <2>1, <2>2, <2>3, <2>5 DEF TypeOK
  <2> QED
    BY <2>2, <2>4, <2>5
<1>4. CASE NextCursor
  <2>1. UNCHANGED <<obeys, page, left, given>> /\ pc = "page" /\ left = {}
    BY <1>4 DEF NextCursor, index, setting, pageInHand
  <2>2. CASE cursor' = cursor /\ pc' = "done" /\ page = {}
    BY <2>1, <2>2
  <2>3. CASE \E r \in page : CursorHit(r) /\ cursor' = r /\ pc' = "search"
    <3>1. PICK r \in page : CursorHit(r) /\ cursor' = r /\ pc' = "search"
      BY <2>3
    <3>2. cursor \in Nat /\ r \in Nat /\ page \subseteq Rows
      BY <1>0 DEF TypeOK
    <3> QED
      BY <1>0, <2>1, <3>1, <3>2 DEF CursorHit
  <2>4. CASE cursor' = cursor /\ pc' = "raised"
    <3> QED
      BY <2>1, <2>4
  <2> QED
    BY <1>4, <2>2, <2>3, <2>4 DEF NextCursor
<1>5. CASE Abandon
  BY <1>5 DEF Abandon, index, setting, pageInHand
<1>6. ASSUME NEW r \in Rows, Insert(r) \/ Remove(r) PROVE OrderInv'
  BY <1>6 DEF Insert, Remove, setting, pageInHand
<1>7. CASE UNCHANGED vars
  BY <1>7 DEF vars, index, setting, pageInHand
<1> QED
  BY <1>1, <1>2, <1>3, <1>4, <1>5, <1>6, <1>7 DEF Next, Iterate

LEMMA InOrderStep ==
    ASSUME TypeOK, OrderInv, [Next]_vars
    PROVE  \A r \in Rows : obeys /\ given'[r] > given[r]
                           => \A s \in Rows : given[s] > 0 => s < r
<1> SUFFICES ASSUME NEW r \in Rows, obeys, given'[r] > given[r],
                    NEW s \in Rows, given[s] > 0
             PROVE  s < r
  OBVIOUS
<1>1. given' # given
  BY DEF TypeOK
<1>2. Yield
  BY <1>1 DEF Next, Iterate, Search, SearchFails, NextCursor, Abandon, Insert, Remove,
              vars
<1>3. pc = "page" /\ r \in left
  BY <1>2 DEF Yield, TypeOK
<1>4. r \in page /\ cursor < r
  BY <1>3 DEF OrderInv, TypeOK
<1>5. s <= cursor \/ s \in page \ left
  BY <1>3 DEF OrderInv, UsedUp
<1>6. r \in Nat /\ s \in Nat /\ cursor \in Nat
  BY IterAssumption DEF TypeOK
<1> QED
  BY <1>3, <1>4, <1>5, <1>6 DEF OrderInv

\* With a node that follows search_after, every hit sorts after every hit
\* given before it: none is repeated, whatever is written meanwhile.
THEOREM InOrder == Spec => GivenInOrder
<1>1. Init => TypeOK /\ OrderInv
  BY InitTypes, InitOrder
<1>2. TypeOK /\ OrderInv /\ [Next]_vars => TypeOK' /\ OrderInv'
  BY TypesKept, OrderKept
<1>3. TypeOK /\ OrderInv /\ [Next]_vars
      => [\A r \in Rows : obeys /\ given'[r] > given[r]
                          => \A s \in Rows : given[s] > 0 => s < r]_vars
  BY InOrderStep
<1> QED
  BY <1>1, <1>2, <1>3, PTL DEF Spec, GivenInOrder

-----------------------------------------------------------------------------
(* Completeness.  Of the rows that were there all the time, those at or    *)
(* before the cursor were given, those at or before a hit of the page were *)
(* given or are still to be, and after an empty page all were given.       *)

CompleteInv ==
    require_complete =>
    /\ \A r \in stable : r <= cursor => given[r] > 0
    /\ pc = "page" => /\ \A r \in stable, s \in page : r <= s => given[r] > 0 \/ r \in left
                      /\ page = {} => \A r \in stable : given[r] > 0
    /\ pc = "done" => \A r \in stable : given[r] > 0

LEMMA InitComplete == Init => CompleteInv
  BY IterAssumption DEF Init, CompleteInv

\* What a page that passed _check_complete leaves out.
LEMMA CompletePage ==
    ASSUME TypeOK, CompleteInv, require_complete, pc = "search", Search, pc' = "page"
    PROVE  /\ \A r \in stable, s \in page' : r <= s => given[r] > 0 \/ r \in page'
           /\ page' = {} => \A r \in stable : given[r] > 0
           /\ left' = page'
<1>1. PICK reached \in SUBSET Claims :
      \E hits \in SUBSET Matching(reached), report \in Reports(reached) :
        /\ IsFirstOf(hits, Matching(reached))
        /\ Complete(report)
        /\ page' = hits /\ left' = hits
  BY DEF Search
<1>2. reached = Claims
  BY <1>1, CompleteReachesAll
<1>3. page' \subseteq Matching(Claims) /\ IsFirstOf(page', Matching(Claims)) /\ left' = page'
  BY <1>1, <1>2
<1>4. page' = {} => Matching(Claims) = {}
  BY <1>3, MatchingType, PageOfSize
<1>5. ASSUME NEW r \in stable, r \notin Matching(Claims) PROVE given[r] > 0
  <2>1. r \in live /\ r \in Rows /\ ClaimOf[r] \in Claims
    BY IterAssumption DEF TypeOK
  <2>2. r <= cursor
    BY <1>5, <2>1, IterAssumption DEF Matching, TypeOK
  <2> QED
    BY <2>2 DEF CompleteInv
<1>6. ASSUME NEW r \in stable, NEW s \in page', r <= s, r \in Matching(Claims)
      PROVE  r \in page'
  <2>1. r \in Nat /\ s \in Nat
    BY <1>3, MatchingType, IterAssumption DEF TypeOK
  <2>2. r = s \/ r < s
    BY <1>6, <2>1
  <2> QED
    BY <1>3, <1>6, <2>2 DEF IsFirstOf
<1> QED
  BY <1>3, <1>4, <1>5, <1>6

LEMMA CompleteKept ==
    ASSUME TypeOK, CompleteInv, [Next]_vars
    PROVE  CompleteInv'
<1>c. require_complete' = require_complete
  BY DEF Next, Iterate, Search, SearchFails, Yield, NextCursor, Abandon, Insert, Remove,
         vars, setting
<1> SUFFICES ASSUME require_complete PROVE CompleteInv'
  BY <1>c DEF CompleteInv
<1> USE DEF CompleteInv
<1>0. Rows \subseteq Nat \ {0} /\ stable \subseteq Rows /\ page \subseteq Rows /\ left \subseteq page
  BY IterAssumption DEF TypeOK
<1>1. CASE Search
  <2>1. UNCHANGED <<stable, cursor, given>> /\ pc = "search" /\ pc' \in {"page", "raised"}
    BY <1>1 DEF Search, index, setting
  <2>2. CASE pc' = "page"
    BY <1>1, <2>1, <2>2, CompletePage
  <2>3. CASE pc' = "raised"
    BY <2>1, <2>3
  <2> QED
    BY <2>1, <2>2, <2>3
<1>2. CASE SearchFails
  BY <1>2 DEF SearchFails, index, setting, pageInHand
<1>3. CASE Yield
  <2>1. PICK r \in left : /\ left' = left \ {r}
                          /\ given' = [given EXCEPT ![r] = IF @ < 2 THEN @ + 1 ELSE 2]
    BY <1>3 DEF Yield
  <2>2. UNCHANGED <<stable, pc, cursor, page>> /\ pc = "page"
    BY <1>3 DEF Yield, index, setting
  <2>3. given'[r] > 0 /\ \A s \in Rows : given[s] > 0 => given'[s] > 0
    BY <1>0, <2>1 DEF TypeOK
  <2> QED
    BY <1>0, <2>1, <2>2, <2>3
<1>4. CASE NextCursor
  <2>1. UNCHANGED <<stable, page, left, given>> /\ pc = "page" /\ left = {}
    BY <1>4 DEF NextCursor, index, setting, pageInHand
  <2>2. CASE cursor' = cursor /\ pc' = "done" /\ page = {}
    BY <2>1, <2>2
  <2>3. CASE \E r \in page : cursor' = r /\ pc' = "search"
    <3>1. cursor' \in page /\ pc' = "search"
      BY <2>3
    <3>2. \A r \in stable : r <= cursor' => given[r] > 0
      BY <2>1, <3>1
    <3> QED
      BY <2>1, <3>1, <3>2
  <2>4. CASE cursor' = cursor /\ pc' = "raised"
    BY <2>1, <2>4
  <2> QED
    BY <1>4, <2>2, <2>3, <2>4 DEF NextCursor
<1>5. CASE Abandon
  BY <1>5 DEF Abandon, index, setting, pageInHand
<1>6. ASSUME NEW r \in Rows, Insert(r) \/ Remove(r) PROVE CompleteInv'
  BY <1>6 DEF Insert, Remove, setting, pageInHand
<1>7. CASE UNCHANGED vars
  BY <1>7 DEF vars, index, setting, pageInHand
<1> QED
  BY <1>1, <1>2, <1>3, <1>4, <1>5, <1>6, <1>7 DEF Next, Iterate

\* With require_complete, an iteration that ends without an exception has
\* given every row that was there all the time.
THEOREM Completeness == Spec => []CompleteMeansAll
<1>1. Init => TypeOK /\ CompleteInv
  BY InitTypes, InitComplete
<1>2. TypeOK /\ CompleteInv /\ [Next]_vars => TypeOK' /\ CompleteInv'
  BY TypesKept, CompleteKept
<1>3. CompleteInv => CompleteMeansAll
  BY DEF CompleteInv, CompleteMeansAll
<1> QED
  BY <1>1, <1>2, <1>3, PTL DEF Spec
=============================================================================
