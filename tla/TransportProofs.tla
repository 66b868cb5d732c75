--------------------------- MODULE TransportProofs ---------------------------
(***************************************************************************)
(* Theorems about Transport, for every set of calls, every policy, every   *)
(* set of refusals and every choice of operations.                         *)
(***************************************************************************)
EXTENDS Transport, TLAPS

-----------------------------------------------------------------------------
(* The operators the model is built from.                                  *)

\* Every response outside 2xx becomes an error that keeps its status, whose
\* hint is the one the node gave in numbers.
LEMMA ErrorOfResponse ==
    ASSUME NEW r \in Responses, NEW err, err = error_from_response(r)
    PROVE  /\ err.class \in GnarlClasses
           /\ err.type \in WireTypes
           /\ err.status = r.status
           /\ err.retry_after \in Nat \cup {None}
           /\ err.retry_after = None => AskedInNumbers(r) = 0
           /\ err.retry_after # None => AskedInNumbers(r) = err.retry_after
<1>1. r.header \in RawHints /\ r.detail \in RawHints /\ r.type \in WireTypes /\ r.status \in Nat
  BY DEF Responses
<1>2. \A raw \in {r.header, r.detail} :
         /\ Usable(raw) => Hint(raw) = raw.ticks /\ raw.ticks \in Nat
         /\ ~Usable(raw) => Hint(raw) = None
         /\ None \notin Nat
  BY <1>1 DEF RawHints, Usable, Hint, None, NoHint
<1>3. /\ ByStatus(r.status) \in GnarlClasses
      /\ ByStatusUntyped(r.status) \in GnarlClasses
  BY <1>1 DEF ByStatus, ByStatusUntyped, GnarlClasses
<1>4. ASSUME r.type \in KnownTypes PROVE ByType(r.type) \in GnarlClasses
  <2>1. PICK cls \in DOMAIN TypesOf : r.type \in TypesOf[cls]
    BY <1>4 DEF KnownTypes
  <2>2. ByType(r.type) \in DOMAIN TypesOf
    BY <2>1 DEF ByType
  <2> QED BY <2>2 DEF TypesOf, GnarlClasses
<1>5. CASE r.body # "envelope"
  <2>1. "" \in WireTypes
    BY DEF WireTypes
  <2> QED BY <1>2, <1>3, <1>5, <2>1 DEF error_from_response, AskedInNumbers
<1>6. CASE r.body = "envelope"
  BY <1>1, <1>2, <1>3, <1>4, <1>6 DEF error_from_response, AskedInNumbers, None, NoHint
<1> QED BY <1>5, <1>6

\* A wait is within the policy, and never shorter than the hint.
LEMMA DelayRange ==
    ASSUME NEW a \in 1..Attempts, NEW err, err.retry_after \in Nat \cup {None},
           Delay(a, err) # None
    PROVE  /\ Delay(a, err) \in 0..MaxDelay
           /\ a < Attempts
           /\ err.retry_after # None => Delay(a, err) = err.retry_after
<1>1. 2^(a - 1) \in Nat
  BY RetryAssumption
<1>2. Doubled(a) \in Nat
  BY <1>1, RetryAssumption DEF Doubled
<1> QED BY <1>2, RetryAssumption DEF Delay, None, Smaller

\* No operation that makes something new each time is declared, or has a
\* method, that would let it be sent twice.
LEMMA AppendsAreNotRepeatable ==
    ASSUME NEW o \in AllOperations, o.effect = "append"
    PROVE  ~IsIdempotent(o)
BY DEF AllOperations, IndexOps, DocumentOps, NodeOps, MaintenanceOps, MemoryOps,
       NamespaceOps, RepositoryOps, SnapshotOps, create_index, delete_index,
       index_exists, index_document, get_document, search, remember, bootstrap,
       promote, create_snapshot, Op, Get, Put, Delete, Post, Declared,
       IsIdempotent, IdempotentMethods

-----------------------------------------------------------------------------
(* The inductive invariant.                                                *)

\* Where a call stands in the loop says what it may have under way: nothing
\* travels while it sleeps or is about to send, and an answered request has
\* left the network.
PcInv ==
    \A c \in Calls :
        /\ pc[c] = "idle" => attempt[c] = 0
        /\ pc[c] \in {"idle", "send", "sleep"} => c \notin net /\ attempt[c] < Attempts
        /\ pc[c] = "await" => attempt[c] > 0
        /\ pc[c] = "sleep" => IsIdempotent(op[c])
        /\ pc[c] = "send" /\ attempt[c] > 0 => IsIdempotent(op[c])
        /\ Answered(c) => c \notin net

\* Every time the node served a call was an attempt of its own, and a request
\* that is not repeatable had only one.
SentInv ==
    \A c \in Calls :
        /\ landed[c] <= attempt[c]
        /\ c \in net => landed[c] < attempt[c]
        /\ attempt[c] > 1 => IsIdempotent(op[c])

\* Ticks slept and ticks to sleep add up to the wait the policy chose, which
\* is at least what the node asked for in numbers.
TimerInv ==
    \A c \in Calls :
        /\ rested[c] + timer[c] <= MaxDelay
        /\ pc[c] # "sleep" => timer[c] = 0
        /\ pc[c] = "sleep" \/ (pc[c] = "send" /\ attempt[c] > 0)
              => rested[c] + timer[c] >= AskedInNumbers(resp[c])

IInv == TypeOK /\ PcInv /\ SentInv /\ TimerInv

\* What the loop body knows when it decides to wait.
LEMMA WaitRange ==
    ASSUME TypeOK, NEW c \in Calls, attempt[c] > 0, Wait(c) # None
    PROVE  /\ Wait(c) \in 0..MaxDelay
           /\ Wait(c) >= AskedInNumbers(resp[c])
           /\ attempt[c] < Attempts
           /\ IsIdempotent(op[c])
<1> DEFINE err == error_from_response(resp[c])
<1>1. resp[c] \in Responses /\ attempt[c] \in 1..Attempts
  BY RetryAssumption DEF TypeOK
<1>2. /\ err.retry_after \in Nat \cup {None}
      /\ err.retry_after = None => AskedInNumbers(resp[c]) = 0
      /\ err.retry_after # None => AskedInNumbers(resp[c]) = err.retry_after
  BY <1>1, ErrorOfResponse
<1>3. IsIdempotent(op[c]) /\ Wait(c) = Delay(attempt[c], err)
  BY DEF Wait
<1>4. /\ Delay(attempt[c], err) \in 0..MaxDelay
      /\ attempt[c] < Attempts
      /\ err.retry_after # None => Delay(attempt[c], err) = err.retry_after
  <2> HIDE DEF err
  <2> QED BY <1>1, <1>2, <1>3, DelayRange
<1> QED BY <1>2, <1>3, <1>4

\* What an ending call hands to its caller is an outcome.
LEMMA FinishTyped ==
    ASSUME TypeOK, NEW c \in Calls, NEW out \in Outcomes, Finish(c, out)
    PROVE  outcome' \in [Calls -> Outcomes] /\ pc' = [pc EXCEPT ![c] = "done"]
<1>1. Absence \in Outcomes
  BY DEF Absence, Outcome, Outcomes, WireTypes
<1>2. ToCaller(op[c], out) \in Outcomes
  BY <1>1 DEF ToCaller
<1> QED BY <1>2 DEF Finish, TypeOK

\* The outcomes the loop produces.
LEMMA OutcomesTyped ==
    /\ Value \in Outcomes /\ Pending \in Outcomes /\ TransportError \in Outcomes
    /\ Raised("RuntimeError", "", 0) \in Outcomes /\ Cancelled \in Outcomes
    /\ \A o \in AllOperations, r \in Responses : Decoded(o, r) \in Outcomes
    /\ \A r \in Responses :
          Raised(error_from_response(r).class, error_from_response(r).type,
                 error_from_response(r).status) \in Outcomes
<1>1. /\ Value \in Outcomes /\ Pending \in Outcomes /\ TransportError \in Outcomes
      /\ Cancelled \in Outcomes
      /\ \A s \in {"RuntimeError", "ParseError"} : Raised(s, "", 0) \in Outcomes
  BY DEF Value, Pending, Cancelled, TransportError, Raised, Outcome, Outcomes, WireTypes, GnarlClasses
<1>2. \A r \in Responses : Raised("GnarlError", "invalid_response", r.status) \in Outcomes
  BY DEF Raised, Outcome, Outcomes, WireTypes, GnarlClasses, Responses
<1>3. \A o \in AllOperations, r \in Responses : Decoded(o, r) \in Outcomes
  BY <1>1, <1>2 DEF Decoded
<1>4. ASSUME NEW r \in Responses, NEW err, err = error_from_response(r)
      PROVE  Raised(err.class, err.type, err.status) \in Outcomes
  <2>1. err.class \in GnarlClasses /\ err.type \in WireTypes /\ err.status \in Nat
    BY <1>4, ErrorOfResponse DEF Responses
  <2> QED BY <2>1 DEF Raised, Outcome, Outcomes
<1> QED BY <1>1, <1>3, <1>4

\* The node answers with responses.
LEMMA AnswersTyped ==
    /\ Refusals \subseteq Responses
    /\ \A b \in Bodies : OK(b) \in Responses
    /\ NoResponse \in Responses
    /\ \A c \in Calls : Objection(c) \subseteq Responses
<1>1. Absent \in RawHints
  BY DEF Absent, RawHints
<1>2. {"", "index_already_exists", "job_in_progress", "index_not_found"} \subseteq WireTypes
  BY DEF WireTypes, KnownTypes, TypesOf
<1>3. (\A b \in Bodies : OK(b) \in Responses) /\ NoResponse \in Responses
  BY <1>1, <1>2, TransportAssumption DEF OK, NoResponse, Response, Responses
<1>4. \A t \in {"index_already_exists", "job_in_progress", "index_not_found"}, s \in Nat :
          Conflicting(s, t) \in Responses
  BY <1>1, <1>2 DEF Conflicting, Response, Responses
<1> QED BY <1>3, <1>4, TransportAssumption DEF Objection

-----------------------------------------------------------------------------
(* The invariant holds at the start and is preserved by every step.        *)

LEMMA InitIInv == Init => IInv
<1> SUFFICES ASSUME Init PROVE IInv
  OBVIOUS
<1>1. \A c \in Calls : AskedInNumbers(NoResponse) = 0
  BY DEF AskedInNumbers, NoResponse, Response, Absent, Usable
<1>2. TypeOK
  <2>1. holder \in [{"index", "job"} -> Calls \cup {NoOne, Others}]
    BY DEF Init
  <2>2. /\ op \in [Calls -> AllOperations]
        /\ outcome \in [Calls -> Outcomes]
        /\ resp \in [Calls -> Responses]
    BY OutcomesTyped, AnswersTyped DEF Init
  <2>3. /\ attempt \in [Calls -> 0..Attempts]
        /\ landed \in [Calls -> 0..Attempts]
    BY RetryAssumption DEF Init
  <2>4. /\ timer \in [Calls -> 0..MaxDelay]
        /\ rested \in [Calls -> 0..MaxDelay]
        /\ slept \in [Calls -> Nat]
    BY RetryAssumption DEF Init
  <2>5. /\ pc \in [Calls -> {"idle", "send", "await", "sleep", "done"}]
        /\ closed \in BOOLEAN
        /\ net \subseteq Calls
    BY DEF Init
  <2> QED BY <2>1, <2>2, <2>3, <2>4, <2>5 DEF TypeOK
<1>3. PcInv /\ SentInv /\ TimerInv
  BY RetryAssumption, TransportAssumption
     DEF Init, PcInv, SentInv, TimerInv, Answered
<1> QED BY <1>2, <1>3 DEF IInv

\* The steps of a call up to the moment an answer is back.
LEMMA SendingIInv ==
    ASSUME IInv, NEW c \in Calls,
           \/ Begin(c) \/ Send(c) \/ CannotConnect(c) \/ SendClosed(c)
           \/ GiveUp(c) \/ Cancel(c)
    PROVE  IInv'
<1> USE RetryAssumption, TransportAssumption
<1> USE DEF IInv
<1>1. CASE Begin(c)
  <2>1. TypeOK'
    BY <1>1 DEF Begin, history, TypeOK
  <2>2. PcInv' /\ SentInv' /\ TimerInv'
    BY <1>1 DEF Begin, history, TypeOK, PcInv, SentInv, TimerInv, Answered
  <2> QED BY <2>1, <2>2
<1>2. CASE Send(c)
  <2>1. TypeOK'
    BY <1>2, AnswersTyped DEF Send, history, TypeOK, PcInv
  <2>2. PcInv'
    BY <1>2 DEF Send, history, TypeOK, PcInv, Answered
  <2>3. SentInv'
    BY <1>2 DEF Send, history, TypeOK, PcInv, SentInv
  <2>4. TimerInv'
    BY <1>2 DEF Send, history, TypeOK, TimerInv
  <2> QED BY <2>1, <2>2, <2>3, <2>4
<1>3. ASSUME NEW out \in Outcomes, Finish(c, out), pc[c] = "send",
             attempt' = [attempt EXCEPT ![c] = @ + 1],
             UNCHANGED <<op, timer, closed, net, resp, holder, landed, history>>
      PROVE  IInv'
  <2>1. outcome' \in [Calls -> Outcomes] /\ pc' = [pc EXCEPT ![c] = "done"]
    BY <1>3, FinishTyped
  <2>2. TypeOK'
    BY <1>3, <2>1 DEF history, TypeOK, PcInv
  <2>3. PcInv'
    BY <1>3, <2>1 DEF history, TypeOK, PcInv, Answered
  <2>4. SentInv'
    BY <1>3, <2>1 DEF history, TypeOK, PcInv, SentInv
  <2>5. TimerInv'
    BY <1>3, <2>1 DEF history, TypeOK, TimerInv
  <2> QED BY <2>2, <2>3, <2>4, <2>5
<1>4. CASE CannotConnect(c)
  BY <1>3, <1>4, OutcomesTyped DEF CannotConnect
<1>5. CASE SendClosed(c)
  BY <1>3, <1>5, OutcomesTyped DEF SendClosed
<1>6. CASE GiveUp(c)
  <2>1. outcome' \in [Calls -> Outcomes] /\ pc' = [pc EXCEPT ![c] = "done"]
    BY <1>6, FinishTyped, OutcomesTyped DEF GiveUp
  <2>2. TypeOK'
    BY <1>6, <2>1 DEF GiveUp, history, TypeOK
  <2>3. PcInv' /\ SentInv' /\ TimerInv'
    BY <1>6, <2>1 DEF GiveUp, history, TypeOK, PcInv, SentInv, TimerInv, Answered
  <2> QED BY <2>2, <2>3
<1>7. CASE Cancel(c)
  <2>1. outcome' \in [Calls -> Outcomes] /\ pc' = [pc EXCEPT ![c] = "done"]
    BY <1>7, FinishTyped, OutcomesTyped DEF Cancel
  <2>2. TypeOK'
    BY <1>7, <2>1 DEF Cancel, history, TypeOK
  <2>3. PcInv' /\ SentInv' /\ TimerInv'
    BY <1>7, <2>1 DEF Cancel, history, TypeOK, PcInv, SentInv, TimerInv, Answered
  <2> QED BY <2>2, <2>3
<1> QED BY <1>1, <1>2, <1>4, <1>5, <1>6, <1>7

\* The steps that read an answer.
LEMMA AnsweredIInv ==
    ASSUME IInv, NEW c \in Calls, Return(c) \/ Raise(c) \/ Sleep(c)
    PROVE  IInv'
<1> USE RetryAssumption
<1> USE DEF IInv
<1>1. pc[c] = "await" /\ c \notin net /\ attempt[c] \in 1..Attempts
  BY DEF Return, Raise, Sleep, Answered, PcInv, TypeOK
<1>2. ASSUME NEW out \in Outcomes, Finish(c, out),
             UNCHANGED <<op, attempt, timer, closed, net, resp, holder, landed, history>>
      PROVE  IInv'
  <2>1. outcome' \in [Calls -> Outcomes] /\ pc' = [pc EXCEPT ![c] = "done"]
    BY <1>2, FinishTyped
  <2>2. TypeOK'
    BY <1>2, <2>1 DEF history, TypeOK
  <2>3. PcInv' /\ SentInv' /\ TimerInv'
    BY <1>1, <1>2, <2>1 DEF history, TypeOK, PcInv, SentInv, TimerInv, Answered
  <2> QED BY <2>2, <2>3
<1>3. op[c] \in AllOperations /\ resp[c] \in Responses
  BY DEF TypeOK
<1>4. CASE Return(c)
  BY <1>2, <1>3, <1>4, OutcomesTyped DEF Return
<1>5. CASE Raise(c)
  BY <1>2, <1>3, <1>5, OutcomesTyped DEF Raise
<1>6. CASE Sleep(c)
  <2>1. /\ Wait(c) \in 0..MaxDelay
        /\ Wait(c) >= AskedInNumbers(resp[c])
        /\ attempt[c] < Attempts
        /\ IsIdempotent(op[c])
    BY <1>1, <1>6, WaitRange DEF Sleep
  <2>2. TypeOK'
    BY <1>6, <2>1 DEF Sleep, TypeOK
  <2>3. PcInv'
    BY <1>1, <1>6, <2>1 DEF Sleep, TypeOK, PcInv, Answered
  <2>4. SentInv'
    BY <1>6 DEF Sleep, TypeOK, SentInv
  <2>5. TimerInv'
    BY <1>6, <2>1 DEF Sleep, TypeOK, TimerInv
  <2> QED BY <2>2, <2>3, <2>4, <2>5
<1> QED BY <1>4, <1>5, <1>6

\* Time, and the rest of the client.
LEMMA ClientIInv ==
    ASSUME IInv, (\E c \in Calls : Wake(c)) \/ Tick \/ Close
    PROVE  IInv'
<1> USE RetryAssumption
<1> USE DEF IInv
<1>1. ASSUME NEW c \in Calls, Wake(c) PROVE IInv'
  <2>1. TypeOK' /\ SentInv' /\ TimerInv'
    BY <1>1 DEF Wake, history, TypeOK, SentInv, TimerInv
  <2>2. PcInv'
    BY <1>1 DEF Wake, history, TypeOK, PcInv, Answered
  <2> QED BY <2>1, <2>2
<1>2. CASE Tick
  <2>1. \A c \in Calls :
           \/ timer'[c] = timer[c] /\ rested'[c] = rested[c] /\ slept'[c] = slept[c]
           \/ /\ pc[c] = "sleep" /\ timer[c] > 0
              /\ timer'[c] = timer[c] - 1 /\ rested'[c] = rested[c] + 1
              /\ slept'[c] = slept[c] + 1
    BY <1>2 DEF Tick, TypeOK
  <2>2. TypeOK'
    BY <1>2, <2>1 DEF Tick, TypeOK, TimerInv
  <2>3. PcInv' /\ SentInv'
    BY <1>2 DEF Tick, PcInv, SentInv, Answered
  <2>4. TimerInv'
    BY <1>2, <2>1 DEF Tick, TypeOK, TimerInv
  <2> QED BY <2>2, <2>3, <2>4
<1>3. CASE Close
  BY <1>3 DEF Close, client, history, TypeOK, PcInv, SentInv, TimerInv, Answered
<1> QED BY <1>1, <1>2, <1>3

\* The node, whatever it answers.
LEMMA NodeIInv ==
    ASSUME IInv, (\E c \in Calls : NodeStep(c)) \/ JobEnds
    PROVE  IInv'
<1> USE RetryAssumption, TransportAssumption
<1> USE DEF IInv
<1>1. ASSUME NEW c \in Calls, c \in net, NEW r \in Responses, Answer(c, r),
             UNCHANGED <<op, client, closed, history>>,
             \/ landed' = landed
             \/ landed' = [landed EXCEPT ![c] = @ + 1],
             holder' \in [{"index", "job"} -> Calls \cup {NoOne, Others}]
      PROVE  IInv'
  <2>1. TypeOK'
    BY <1>1 DEF Answer, client, history, TypeOK, SentInv
  <2>2. PcInv' /\ SentInv'
    BY <1>1 DEF Answer, client, history, TypeOK, PcInv, SentInv, Answered
  <2>3. TimerInv'
    BY <1>1 DEF Answer, client, history, TypeOK, PcInv, TimerInv
  <2> QED BY <2>1, <2>2, <2>3
<1>2. ASSUME NEW c \in Calls, NodeRefuses(c) PROVE IInv'
  <2>1. PICK r \in Responses : Answer(c, r)
    BY <1>2, AnswersTyped DEF NodeRefuses
  <2> QED BY <1>1, <1>2, <2>1 DEF NodeRefuses, TypeOK
<1>3. ASSUME NEW c \in Calls, NodeServes(c) PROVE IInv'
  <2>1. PICK r \in Responses : Answer(c, r)
    BY <1>3, AnswersTyped DEF NodeServes
  <2>2. Effect(c) \in [{"index", "job"} -> Calls \cup {NoOne, Others}]
    BY DEF Effect, TypeOK
  <2> QED BY <1>1, <1>3, <2>1, <2>2 DEF NodeServes
<1>4. CASE JobEnds
  BY <1>4 DEF JobEnds, client, history, TypeOK, PcInv, SentInv, TimerInv, Answered
<1> QED BY <1>2, <1>3, <1>4 DEF NodeStep

LEMMA NextIInv == IInv /\ [Next]_vars => IInv'
<1> SUFFICES ASSUME IInv, [Next]_vars PROVE IInv'
  OBVIOUS
<1>1. CASE \E c \in Calls : CallStep(c)
  BY <1>1, SendingIInv, AnsweredIInv, ClientIInv DEF CallStep
<1>2. CASE (\E c \in Calls : NodeStep(c)) \/ JobEnds
  BY <1>2, NodeIInv
<1>3. CASE Tick \/ Close
  BY <1>3, ClientIInv
<1>4. CASE UNCHANGED vars
  BY <1>4 DEF vars, client, history, IInv, TypeOK, PcInv, SentInv, TimerInv, Answered
<1> QED BY <1>1, <1>2, <1>3, <1>4 DEF Next

-----------------------------------------------------------------------------
(* The theorems.                                                           *)

THEOREM Invariance == Spec => []IInv
<1>1. Init => IInv
  BY InitIInv
<1>2. IInv /\ [Next]_vars => IInv'
  BY NextIInv
<1> QED BY <1>1, <1>2, PTL DEF Spec

\* Every variable stays in its range: attempts within the policy's count,
\* timers within its longest wait, whatever the node answers.
THEOREM Typing == Spec => []TypeOK
<1>1. IInv => TypeOK
  BY DEF IInv
<1> QED BY <1>1, Invariance, PTL

\* No document and no memory is written twice by one call, for any number of
\* concurrent calls and any failures of the node: the table of operations
\* declares none of them repeatable, and the loop resends only those.
THEOREM NoDuplicates == Spec => []NoDuplicateWrite
<1>1. ASSUME IInv, NEW c \in Calls, op[c].effect = "append"
      PROVE  landed[c] <= 1
  <2>1. ~IsIdempotent(op[c])
    BY <1>1, AppendsAreNotRepeatable DEF IInv, TypeOK
  <2> QED BY <1>1, <2>1, RetryAssumption DEF IInv, TypeOK, SentInv
<1>2. IInv => NoDuplicateWrite
  BY <1>1 DEF NoDuplicateWrite
<1> QED BY <1>2, Invariance, PTL

\* A hint the client can read is waited out in full before a resend, and a
\* hint past the cap is never followed by one.
THEOREM HintHonoured == Spec => NumberedHintHonoured
<1>1. ASSUME IInv, [Next]_vars, NEW c \in Calls, Resent(c)
      PROVE  rested[c] >= AskedInNumbers(resp[c])
  <2>1. attempt[c] \in Nat /\ rested[c] \in Nat /\ timer[c] \in Nat
    BY <1>1, RetryAssumption DEF IInv, TypeOK
  <2>2. pc[c] = "send"
    <3>1. CASE \E d \in Calls : CallStep(d)
      <4>1. PICK d \in Calls : CallStep(d)
        BY <3>1
      <4>2. \/ attempt' = attempt
            \/ pc[d] = "send" /\ attempt' = [attempt EXCEPT ![d] = @ + 1]
        BY <4>1 DEF CallStep, Begin, Send, CannotConnect, SendClosed, GiveUp, Cancel,
           Return, Raise, Sleep, Wake
      <4>3. attempt \in [Calls -> 0..Attempts] /\ attempt'[c] > attempt[c]
        BY <1>1 DEF Resent, IInv, TypeOK
      <4> QED BY <2>1, <4>2, <4>3
    <3>2. CASE (\E d \in Calls : NodeStep(d)) \/ Tick \/ Close \/ JobEnds
      BY <1>1, <2>1, <3>2 DEF Resent, NodeStep, NodeRefuses, NodeServes, Tick, Close,
         JobEnds, client
    <3>3. CASE UNCHANGED vars
      BY <1>1, <2>1, <3>3 DEF Resent, vars, client
    <3> QED BY <1>1, <3>1, <3>2, <3>3 DEF Next
  <2>3. rested[c] + timer[c] >= AskedInNumbers(resp[c]) /\ timer[c] = 0
    BY <1>1, <2>2 DEF IInv, TimerInv, Resent
  <2> QED BY <2>1, <2>3
<1>2. IInv /\ [Next]_vars => [\A c \in Calls : Resent(c) => rested[c] >= AskedInNumbers(resp[c])]_vars
  BY <1>1
<1> QED BY <1>2, Invariance, PTL DEF Spec, NumberedHintHonoured

\* The loop of a call only goes forward, for any number of attempts, any
\* delays and any calls beside it: what is left for it to end is the fairness
\* of the scheduler.
THEOREM OnlyForward == Spec => NeverBack
<1> DEFINE Still(c) == UNCHANGED <<pc[c], attempt[c], timer[c], outcome[c]>>
<1>1. ASSUME IInv, [Next]_vars, NEW c \in Calls
      PROVE  Still(c) \/ Forward(c)
  <2>1. /\ pc \in [Calls -> {"idle", "send", "await", "sleep", "done"}]
        /\ attempt \in [Calls -> 0..Attempts] /\ timer \in [Calls -> 0..MaxDelay]
        /\ outcome \in [Calls -> Outcomes]
    BY <1>1 DEF IInv, TypeOK
  <2>2. attempt[c] \in Int /\ timer[c] \in Int
    BY <2>1, RetryAssumption
  <2>3. ASSUME NEW d \in Calls, CallStep(d)
        PROVE  Still(c) \/ Forward(c)
    <3>1. CASE d # c
      <4>1. CASE Begin(d) \/ Sleep(d) \/ Wake(d)
        BY <2>1, <3>1, <4>1 DEF Begin, Sleep, Wake
      <4>2. CASE Send(d)
        BY <2>1, <3>1, <4>2 DEF Send
      <4>3. CASE CannotConnect(d) \/ SendClosed(d)
        BY <2>1, <3>1, <4>3 DEF CannotConnect, SendClosed, Finish
      <4>4. CASE GiveUp(d) \/ Cancel(d)
        BY <2>1, <3>1, <4>4 DEF GiveUp, Cancel, Finish
      <4>5. CASE Return(d) \/ Raise(d)
        BY <2>1, <3>1, <4>5 DEF Return, Raise, Finish
      <4> QED BY <2>3, <4>1, <4>2, <4>3, <4>4, <4>5 DEF CallStep
    <3>2. CASE d = c
      <4>1. CASE Send(c) \/ CannotConnect(c) \/ SendClosed(c)
        <5>1. pc[c] = "send" /\ attempt' = [attempt EXCEPT ![c] = @ + 1]
          BY <4>1 DEF Send, CannotConnect, SendClosed
        <5>2. attempt'[c] > attempt[c]
          BY <2>1, <2>2, <5>1
        <5> QED BY <5>1, <5>2 DEF Forward
      <4>2. CASE Begin(c) \/ Sleep(c) \/ Wake(c)
        BY <2>1, <2>2, <4>2 DEF Forward, Begin, Sleep, Wake, Answered, Stage
      <4>3. CASE GiveUp(c) \/ Cancel(c) \/ Return(c) \/ Raise(c)
        BY <2>1, <2>2, <4>3 DEF Forward, GiveUp, Cancel, Return, Raise, Answered, Finish, Stage
      <4> QED BY <2>3, <3>2, <4>1, <4>2, <4>3 DEF CallStep
    <3> QED BY <3>1, <3>2
  <2>4. CASE Tick
    <3>1. \/ timer'[c] = timer[c]
          \/ pc[c] = "sleep" /\ timer'[c] = timer[c] - 1
      BY <2>4 DEF Tick
    <3>2. UNCHANGED <<pc, attempt, outcome>>
      BY <2>4 DEF Tick
    <3> QED BY <2>2, <3>1, <3>2 DEF Forward
  <2>5. CASE (\E d \in Calls : NodeStep(d)) \/ Close \/ JobEnds \/ UNCHANGED vars
    BY <2>5 DEF NodeStep, NodeRefuses, NodeServes, Close, JobEnds, vars, client
  <2> QED BY <1>1, <2>3, <2>4, <2>5 DEF Next
<1>2. IInv /\ [Next]_vars =>
         [\A c \in Calls : Still(c) \/ Forward(c)]_vars
  BY <1>1
<1> QED BY <1>2, Invariance, PTL DEF Spec, NeverBack
=============================================================================
