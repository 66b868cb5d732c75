---------------------------- MODULE ListingProofs ---------------------------
(***************************************************************************)
(* What holds of every listing, for any names, peers and page size, and    *)
(* that every listing is one reading of the catalog in the sense of Scan.  *)
(***************************************************************************)
EXTENDS Listing, TLAPS

\* What a page does to the list: "shown" joins it.  Either the list is done,
\* or the cursor moves to the last entry of the page; in a list not marked as
\* a floor, every entry beyond the old cursor is shown or still ahead.
Adds(shown) ==
    /\ shown \subseteq present \ Hidden
    /\ \A n \in shown : n > after
    /\ out' = [n \in Names |-> IF n \in shown /\ out[n] < 2 THEN out[n] + 1 ELSE out[n]]
    /\ partial' \in BOOLEAN /\ (partial => partial')
    /\ \/ pc' = "done" /\ after' = after
       \/ pc' = "page" /\ after' \in Names /\ after' > after /\ \A n \in shown : n <= after'
    /\ ~partial' => \A n \in present \ Hidden :
                       n > after => n \in shown \/ (pc' = "page" /\ n > after')
    /\ pc = "page"
    /\ UNCHANGED <<present, stable, writes, kind>>

LEMMA PageAdds ==
    ASSUME TypeOK, Page
    PROVE  \E shown \in SUBSET (Names \ Hidden) : Adds(shown)
<1>1. PICK reached \in SUBSET Peers :
      \E cut \in SUBSET Ahead(reached), next \in Names \cup {0} :
          LET shown == cut \ Hidden
          IN  /\ IsCut(cut, Ahead(reached))
              /\ IsNextAfter(next, cut, Ahead(reached))
              /\ out' = [n \in Names |->
                           IF n \in shown /\ out[n] < 2 THEN out[n] + 1 ELSE out[n]]
              /\ partial' = Mark(kind = "namespaces" /\ reached # Peers)
              /\ IF Follows(next, shown)
                 THEN after' = Cursor(next) /\ UNCHANGED pc
                 ELSE pc' = "done" /\ UNCHANGED after
  BY DEF Page
<1>2. PICK cut \in SUBSET Ahead(reached), next \in Names \cup {0} :
          /\ IsCut(cut, Ahead(reached))
          /\ IsNextAfter(next, cut, Ahead(reached))
          /\ out' = [n \in Names |->
                       IF n \in cut \ Hidden /\ out[n] < 2 THEN out[n] + 1 ELSE out[n]]
          /\ partial' = (partial \/ (kind = "namespaces" /\ reached # Peers))
          /\ IF next # 0 THEN after' = next /\ UNCHANGED pc
             ELSE pc' = "done" /\ UNCHANGED after
  BY <1>1 DEF Mark, Follows, Cursor
<1>3. pc = "page" /\ UNCHANGED <<present, stable, writes, kind>>
  BY DEF Page, catalog
<1> DEFINE shown == cut \ Hidden
<1>4. Names \subseteq Nat \ {0} /\ RecordedBy \in [Names -> Peers]
  BY ListingAssumption
<1>5. present \subseteq Names /\ partial \in BOOLEAN /\ after \in Nat
  BY <1>4 DEF TypeOK
<1>6. Ahead(reached) \subseteq present /\ \A n \in Ahead(reached) : n > after
  BY DEF Ahead
<1>7. shown \subseteq present \ Hidden /\ \A n \in shown : n > after
  BY <1>6
<1>8. next # 0 => next \in cut /\ next \in Names /\ next > after /\ \A n \in cut : n <= next
  BY <1>2, <1>5, <1>6 DEF IsNextAfter
<1>9. ASSUME ~partial', NEW n \in present \ Hidden, n > after
      PROVE  n \in shown \/ (next # 0 /\ n > next)
  <2>1. n \in Ahead(reached)
    BY <1>2, <1>4, <1>5, <1>9 DEF Ahead
  <2>2. CASE next = 0
    <3>1. cut = Ahead(reached)
      BY <1>2, <1>4, <1>5, <1>6, <2>2 DEF IsNextAfter
    <3> QED
      BY <1>9, <2>1, <3>1
  <2>3. CASE next # 0
    <3>1. n \in Nat /\ next \in Nat
      BY <1>4, <1>5, <1>8, <2>3
    <3>2. n < next => n \in cut
      BY <1>2, <1>8, <2>1, <2>3 DEF IsCut
    <3> QED
      BY <1>8, <1>9, <2>3, <3>1, <3>2
  <2> QED
    BY <2>2, <2>3
<1>10. partial' \in BOOLEAN /\ (partial => partial')
  BY <1>2, <1>5
<1>11. \/ pc' = "done" /\ after' = after /\ next = 0
       \/ pc' = "page" /\ after' = next /\ next # 0
  BY <1>2, <1>3
<1>12. Adds(shown)
  BY <1>2, <1>3, <1>7, <1>8, <1>9, <1>10, <1>11 DEF Adds
<1>13. shown \in SUBSET (Names \ Hidden)
  BY <1>5, <1>7
<1> QED
  BY <1>12, <1>13

-----------------------------------------------------------------------------
(* The inductive invariant: what lies behind the cursor of a list without  *)
(* a floor mark, and was there all the time, is in the list.               *)

Swept ==
    pc = "page" /\ ~partial => \A n \in stable \ Hidden : n <= after => out[n] > 0

IInv == TypeOK /\ ListedOnce /\ Swept /\ WholeUnlessPartial

LEMMA InitInv == Init => IInv
<1> SUFFICES ASSUME Init PROVE IInv
  OBVIOUS
<1>1. Names \subseteq Nat \ {0} /\ MaxWrites \in Nat
  BY ListingAssumption
<1>2. Listed = {} /\ out \in [Names -> 0..2] /\ pc = "page"
  BY DEF Init, Listed
<1>3. TypeOK
  <2>1. present \in SUBSET Names /\ stable \in SUBSET present /\ kind \in Kinds
    BY DEF Init
  <2>2. writes \in 0..MaxWrites /\ after \in Names \cup {0}
    BY <1>1 DEF Init
  <2>3. partial \in BOOLEAN
    BY DEF Init
  <2> QED
    BY <1>2, <2>1, <2>2, <2>3 DEF TypeOK
<1>4. ListedOnce
  BY DEF Init, ListedOnce
<1>5. Swept
  BY <1>1 DEF Init, Swept, TypeOK
<1>6. WholeUnlessPartial
  BY <1>2 DEF WholeUnlessPartial
<1> QED
  BY <1>3, <1>4, <1>5, <1>6 DEF IInv

LEMMA PageKeepsInv ==
    ASSUME IInv, NEW shown \in SUBSET (Names \ Hidden), Adds(shown)
    PROVE  IInv'
<1> USE DEF IInv
<1>1. Names \subseteq Nat \ {0} /\ Hidden \subseteq Names
  BY ListingAssumption
<1>2. /\ present \subseteq Names /\ stable \subseteq present
      /\ after \in Nat /\ out \in [Names -> 0..2] /\ pc = "page"
      /\ \A n \in Names : out[n] > 0 => n \notin Hidden /\ n <= after
      /\ partial \in BOOLEAN
  BY <1>1 DEF TypeOK, Listed, Adds
<1>3. \A n \in shown : n > after /\ out[n] = 0
  BY <1>1, <1>2 DEF Adds
<1>4. \A n \in Names : out'[n] = IF n \in shown THEN 1 ELSE out[n]
  BY <1>2, <1>3 DEF Adds
<1>5. ListedOnce'
  BY <1>2, <1>4 DEF ListedOnce
<1>6. TypeOK'
  <2>1. out' \in [Names -> 0..2]
    BY <1>2, <1>3 DEF Adds
  <2>2. ASSUME NEW n \in Names, out'[n] > 0
        PROVE  n \notin Hidden /\ (pc' = "page" => n <= after')
    <3>1. n \in Nat /\ (pc' = "page" => after' \in Nat)
      BY <1>1 DEF Adds
    <3>2. CASE n \in shown
      BY <3>2 DEF Adds
    <3>3. CASE n \notin shown
      <4>1. n \notin Hidden /\ n <= after
        BY <1>2, <1>4, <2>2, <3>3
      <4> QED
        BY <1>2, <3>1, <4>1 DEF Adds
    <3> QED
      BY <3>2, <3>3
  <2> QED
    BY <1>2, <2>1, <2>2 DEF TypeOK, Adds, Listed
<1>7. ASSUME ~partial', NEW n \in stable \ Hidden, pc' = "page" => n <= after'
      PROVE  out'[n] > 0
  <2>1. n \in present \ Hidden /\ n \in Names /\ n \in Nat
    BY <1>1, <1>2, <1>7
  <2>2. CASE n <= after
    BY <1>2, <1>4, <1>7, <2>1, <2>2 DEF Swept, Adds
  <2>3. CASE n > after
    <3>1. n \in shown \/ (pc' = "page" /\ n > after')
      BY <1>7, <2>1, <2>3 DEF Adds
    <3>2. after' \in Nat
      BY <1>1, <1>2 DEF Adds
    <3> QED
      BY <1>4, <1>7, <2>1, <3>1, <3>2
  <2> QED
    BY <1>2, <2>1, <2>2, <2>3
<1>8. Swept'
  BY <1>7 DEF Swept, Adds
<1>9. WholeUnlessPartial'
  BY <1>1, <1>2, <1>7 DEF WholeUnlessPartial, Listed, Adds
<1> QED
  BY <1>5, <1>6, <1>8, <1>9

LEMMA InvKept ==
    ASSUME IInv, [Next]_vars
    PROVE  IInv'
<1>1. CASE Page
  BY <1>1, PageAdds, PageKeepsInv DEF IInv
<1>2. CASE PageFails
  <2>1. out' = [n \in Names |-> 0] /\ pc' = "raised"
    BY <1>2 DEF PageFails
  <2>2. UNCHANGED <<present, stable, writes, kind, after, partial>>
    BY <1>2 DEF PageFails, catalog
  <2>3. TypeOK'
    BY <2>1, <2>2 DEF IInv, TypeOK, Listed
  <2> QED
    BY <2>1, <2>3 DEF IInv, ListedOnce, Swept, WholeUnlessPartial
<1>3. ASSUME NEW n \in Names, Create(n) \/ Delete(n) PROVE IInv'
  <2>1. UNCHANGED <<kind, pc, after, out, partial>> /\ writes' \in 0..MaxWrites
    BY <1>3, ListingAssumption DEF Create, Delete, Write, IInv, TypeOK
  <2>2. stable' \subseteq stable /\ stable' \subseteq present' /\ present' \subseteq Names
    BY <1>3 DEF Create, Delete, IInv, TypeOK
  <2>3. TypeOK'
    BY <2>1, <2>2 DEF IInv, TypeOK, Listed
  <2> QED
    BY <2>1, <2>2, <2>3 DEF IInv, ListedOnce, Swept, WholeUnlessPartial, Listed
<1>4. CASE UNCHANGED vars
  BY <1>4 DEF vars, catalog, IInv, TypeOK, ListedOnce, Swept, WholeUnlessPartial, Listed
<1> QED
  BY <1>1, <1>2, <1>3, <1>4 DEF Next, List

\* Every variable stays in its range, and nothing in the list is a system
\* name or can come again.
THEOREM Typing == Spec => []TypeOK
<1>1. IInv => TypeOK
  BY DEF IInv
<1> QED
  BY InitInv, InvKept, <1>1, PTL DEF Spec

\* No name is listed twice, for any names, peers, page size and writers.
THEOREM NoRepeats == Spec => []ListedOnce
<1>1. IInv => ListedOnce
  BY DEF IInv
<1> QED
  BY InitInv, InvKept, <1>1, PTL DEF Spec

\* A list that is not marked as a floor has every name that was there from
\* the first page to the last.
THEOREM Wholeness == Spec => []WholeUnlessPartial
<1>1. IInv => WholeUnlessPartial
  BY DEF IInv
<1> QED
  BY InitInv, InvKept, <1>1, PTL DEF Spec

-----------------------------------------------------------------------------
(* Refinement: a page gives its entries, a failure raises, and a write is  *)
(* a change of the catalog, of its hidden part a stutter.                  *)

LEMMA InitMaps == Init => AbstractScan!Init
  BY DEF Init, AbstractScan!Init, Listed, Outcome

LEMMA PageMaps ==
    ASSUME IInv, NEW shown \in SUBSET (Names \ Hidden), Adds(shown), IInv'
    PROVE  AbstractScan!Give(shown, Outcome')
<1>1. Names \subseteq Nat \ {0} /\ Hidden \subseteq Names
  BY ListingAssumption
<1>2. /\ after \in Nat /\ out \in [Names -> 0..2] /\ stable \subseteq Names
      /\ \A n \in Names : out[n] > 0 => n <= after
  BY <1>1 DEF IInv, TypeOK, Listed, Adds
<1>3. Outcome = "none" /\ pc' \in {"page", "done"}
  BY DEF Outcome, Adds
<1>4. \A n \in Listed, o \in shown : n < o
  BY <1>1, <1>2 DEF Adds, Listed
<1>5. Listed' = Listed \cup shown
  BY <1>2 DEF Adds, Listed
<1>6. Outcome' = "whole" => stable \ Hidden \subseteq Listed'
  BY <1>3 DEF IInv, Outcome, WholeUnlessPartial, Adds
<1> QED
  BY <1>3, <1>4, <1>5, <1>6 DEF AbstractScan!Give, Adds

LEMMA StepMaps ==
    ASSUME IInv, IInv', [Next]_vars
    PROVE  [AbstractScan!Next]_AbstractScan!vars
<1>1. CASE Page
  <2>1. PICK shown \in SUBSET (Names \ Hidden) : Adds(shown)
    BY <1>1, PageAdds DEF IInv
  <2>2. AbstractScan!Give(shown, Outcome')
    BY <2>1, PageMaps
  <2>3. Outcome' \in {"none", "whole", "floor"}
    BY <2>1 DEF Adds, Outcome
  <2> QED
    BY <2>2, <2>3 DEF AbstractScan!Next
<1>2. CASE PageFails
  <2>1. Listed' = {}
    BY <1>2 DEF PageFails, Listed
  <2> QED
    BY <1>2, <2>1 DEF PageFails, catalog, Outcome, AbstractScan!Next, AbstractScan!Raise
<1>3. ASSUME NEW n \in Names, Create(n) \/ Delete(n)
      PROVE  AbstractScan!Change
  <2>1. UNCHANGED <<Listed, Outcome>>
    BY <1>3 DEF Create, Delete, Write, Listed, Outcome
  <2>2. present' \subseteq Names /\ stable' = stable \cap present'
    BY <1>3 DEF Create, Delete, IInv, TypeOK
  <2>3. stable' \ Hidden = (stable \ Hidden) \cap (present' \ Hidden)
    BY <2>2
  <2> QED
    BY <2>1, <2>2, <2>3 DEF AbstractScan!Change
<1>4. CASE UNCHANGED vars
  BY <1>4 DEF vars, catalog, Listed, Outcome, AbstractScan!vars
<1> QED
  BY <1>1, <1>2, <1>3, <1>4 DEF Next, List, AbstractScan!Next

\* Every listing is one reading of the catalog: its pages give each entry
\* once and in order, and the list is whole or says that it is a floor.
THEOREM OneReading == Spec => ReadsAsOneScan
<1>1. Init => IInv /\ AbstractScan!Init
  BY InitInv, InitMaps
<1>2. IInv /\ [Next]_vars => IInv' /\ [AbstractScan!Next]_AbstractScan!vars
  BY InvKept, StepMaps
<1> QED
  BY <1>1, <1>2, PTL DEF Spec, ReadsAsOneScan, AbstractScan!Spec
=============================================================================
