---------------------------- MODULE OutcomeProofs ----------------------------
(***************************************************************************)
(* What the end of a call tells its caller of what happened at the node,   *)
(* how long a call may wait, and that Transport implements the safety part *)
(* of RemoteCall: for every set of calls, every policy and every node.     *)
(***************************************************************************)
EXTENDS TransportProofs, TransportRefinement

-----------------------------------------------------------------------------
(* The inductive invariant, on top of IInv.                                *)

\* The statuses that leave open what became of a request.
Open == Ambiguous \cup 200..299 \cup {0}

\* An answer that reached a call tells of its request: a 2xx that it was
\* served, a status that is not open that it was not, where one request is all
\* there is.
HeardInv ==
    \A c \in Calls :
        /\ c \in net => resp[c] = NoResponse
        /\ Success(resp[c]) => landed[c] >= 1
        /\ op[c].effect = "append" /\ resp[c].status \notin Open => landed[c] = 0

\* So does the outcome, after the end of the call too.
ToldInv ==
    \A c \in Calls :
        /\ outcome[c].kind # "pending" => pc[c] = "done"
        /\ outcome[c].kind = "value" => landed[c] >= 1 /\ c \notin net
        /\ op[c].effect = "append" /\ outcome[c].kind = "raised" /\ ~InDoubt(outcome[c])
              => landed[c] = 0 /\ c \notin net

\* The ticks slept and the ticks to sleep are within the sleeps so far.
SleptInv ==
    \A c \in Calls :
        /\ pc[c] \in {"sleep", "send"} => slept[c] + timer[c] <= attempt[c] * MaxDelay
        /\ pc[c] = "idle" => slept[c] = 0
        /\ pc[c] = "await" => slept[c] <= (attempt[c] - 1) * MaxDelay
        /\ pc[c] = "done" => slept[c] <= (Attempts - 1) * MaxDelay

EndInv == IInv /\ HeardInv /\ ToldInv /\ SleptInv

-----------------------------------------------------------------------------
(* Lemmas.                                                                 *)

\* More sleeps, more time.
LEMMA SleepsAddUp ==
    ASSUME NEW i \in Nat, NEW j \in Nat, i <= j
    PROVE  /\ i * MaxDelay \in Nat /\ j * MaxDelay \in Nat
           /\ i * MaxDelay <= j * MaxDelay
           /\ (i + 1) * MaxDelay = i * MaxDelay + MaxDelay
<1>1. MaxDelay \in Nat
  BY RetryAssumption
<1>2. PICK d \in Nat : j = i + d
  <2>1. j - i \in Nat /\ j = i + (j - i)
    OBVIOUS
  <2> QED BY <2>1
<1>3. j * MaxDelay = i * MaxDelay + d * MaxDelay
  BY <1>1, <1>2
<1>4. i * MaxDelay \in Nat /\ d * MaxDelay \in Nat
  BY <1>1
<1> QED BY <1>1, <1>3, <1>4

\* What each end of the loop hands to the caller.
LEMMA Told ==
    ASSUME NEW o
    PROVE  /\ ToCaller(o, Value) = Value
           /\ ToCaller(o, Cancelled) = Cancelled
           /\ \A class, type, status :
                 ToCaller(o, Raised(class, type, status))
                    \in {Absence, Raised(class, type, status)}
  BY DEF ToCaller, Value, Cancelled, Raised, Outcome

\* A 2xx is a success, and no refusal is one.
LEMMA WhatSucceeds ==
    /\ \A r \in Refusals : ~Success(r)
    /\ \A c \in Calls : \A r \in Objection(c) : ~Success(r)
    /\ ~Success(NoResponse) /\ NoResponse.status = 0
    /\ \A b \in Bodies : OK(b).status = 200
<1>1. \A r \in Refusals : ~Success(r)
  BY TransportAssumption DEF Success
<1>2. \A t : ~Success(Conflicting(409, t)) /\ ~Success(Conflicting(404, t))
  BY DEF Success, Conflicting, Response
<1>3. \A c \in Calls : \A r \in Objection(c) : ~Success(r)
  BY <1>2 DEF Objection
<1>4. ~Success(NoResponse) /\ NoResponse.status = 0 /\ \A b \in Bodies : OK(b).status = 200
  BY DEF Success, NoResponse, OK, Response
<1> QED BY <1>1, <1>3, <1>4

LEMMA InitEndInv == Init => EndInv
<1> SUFFICES ASSUME Init PROVE EndInv
  OBVIOUS
<1>1. IInv
  BY InitIInv
<1>2. HeardInv
  BY WhatSucceeds DEF Init, HeardInv, Open
<1>3. ToldInv
  BY DEF Init, ToldInv, Pending, Outcome
<1>4. SleptInv
  BY DEF Init, SleptInv
<1> QED BY <1>1, <1>2, <1>3, <1>4 DEF EndInv

-----------------------------------------------------------------------------
(* Every step keeps it.                                                    *)

\* A call that ends: what it tells is true, and it slept no longer than it may.
LEMMA FinishKeeps ==
    ASSUME EndInv, NEW c \in Calls, NEW out \in Outcomes, Finish(c, out),
           pc[c] \in {"send", "await", "sleep"},
           UNCHANGED <<op, net, resp, landed, slept>>,
           \A d \in Calls \ {c} : timer'[d] = timer[d] /\ attempt'[d] = attempt[d],
           \/ out \in {Cancelled, Value}
           \/ \E class, type, status : out = Raised(class, type, status),
           out = Value => landed[c] >= 1 /\ c \notin net,
           op[c].effect = "append" /\ out.kind = "raised" /\ ~InDoubt(out)
              => landed[c] = 0 /\ c \notin net
    PROVE  HeardInv' /\ ToldInv' /\ SleptInv'
<1> USE DEF EndInv
<1>1. pc' = [pc EXCEPT ![c] = "done"] /\ outcome' = [outcome EXCEPT ![c] = ToCaller(op[c], out)]
  BY DEF Finish
<1>2. pc \in [Calls -> {"idle", "send", "await", "sleep", "done"}]
      /\ outcome \in [Calls -> Outcomes]
  BY DEF IInv, TypeOK
<1>3. HeardInv'
  BY DEF HeardInv, Success
<1>4. \/ ToCaller(op[c], out) = out
      \/ ToCaller(op[c], out) = Absence
  BY Told
<1>5. /\ Absence.kind = "absent"
      /\ out.kind = "value" => out = Value
  <2>1. Absence.kind = "absent" /\ Cancelled.kind = "cancelled"
    BY DEF Absence, Cancelled, Outcome
  <2>2. \A class, type, status : Raised(class, type, status).kind = "raised"
    BY DEF Raised, Outcome
  <2> QED BY <2>1, <2>2
<1>6. ToldInv'
  <2> SUFFICES ASSUME NEW d \in Calls
               PROVE  /\ outcome'[d].kind # "pending" => pc'[d] = "done"
                      /\ outcome'[d].kind = "value" => landed'[d] >= 1 /\ d \notin net'
                      /\ op'[d].effect = "append" /\ outcome'[d].kind = "raised"
                         /\ ~InDoubt(outcome'[d])
                            => landed'[d] = 0 /\ d \notin net'
    BY DEF ToldInv
  <2>1. CASE d # c
    BY <1>1, <1>2, <2>1 DEF ToldInv
  <2>2. CASE d = c
    <3>1. pc'[c] = "done" /\ outcome'[c] = ToCaller(op[c], out)
      BY <1>1, <1>2
    <3>2. CASE ToCaller(op[c], out) = out
      BY <1>5, <2>2, <3>1, <3>2
    <3>3. CASE ToCaller(op[c], out) = Absence
      BY <1>5, <2>2, <3>1, <3>3
    <3> QED BY <1>4, <3>2, <3>3
  <2> QED BY <2>1, <2>2
<1>7. SleptInv'
  <2>1. slept[c] <= (Attempts - 1) * MaxDelay
    <3>1. /\ attempt[c] \in 0..Attempts /\ timer[c] \in Nat /\ slept[c] \in Nat
          /\ Attempts \in Nat \ {0} /\ MaxDelay \in Nat
      BY RetryAssumption DEF IInv, TypeOK
    <3>2. CASE pc[c] = "await"
      <4>1. slept[c] <= (attempt[c] - 1) * MaxDelay /\ attempt[c] > 0
        BY <3>2 DEF SleptInv, IInv, PcInv
      <4>2. attempt[c] - 1 \in Nat /\ Attempts - 1 \in Nat /\ attempt[c] - 1 <= Attempts - 1
        BY <3>1, <4>1
      <4>3. /\ (attempt[c] - 1) * MaxDelay <= (Attempts - 1) * MaxDelay
            /\ (attempt[c] - 1) * MaxDelay \in Nat /\ (Attempts - 1) * MaxDelay \in Nat
        BY <4>2, SleepsAddUp
      <4> QED BY <3>1, <4>1, <4>3
    <3>3. CASE pc[c] \in {"send", "sleep"}
      <4>1. slept[c] + timer[c] <= attempt[c] * MaxDelay /\ attempt[c] < Attempts
        BY <3>3 DEF SleptInv, IInv, PcInv
      <4>2. attempt[c] \in Nat /\ Attempts - 1 \in Nat /\ attempt[c] <= Attempts - 1
        BY <3>1, <4>1
      <4>3. /\ attempt[c] * MaxDelay <= (Attempts - 1) * MaxDelay
            /\ attempt[c] * MaxDelay \in Nat /\ (Attempts - 1) * MaxDelay \in Nat
        BY <4>2, SleepsAddUp
      <4> QED BY <3>1, <4>1, <4>3
    <3> QED BY <3>2, <3>3
  <2>2. pc'[c] = "done" /\ slept' = slept
    BY <1>1, <1>2
  <2> SUFFICES ASSUME NEW d \in Calls, d # c
               PROVE  /\ pc'[d] = pc[d] /\ slept'[d] = slept[d]
                      /\ timer'[d] = timer[d] /\ attempt'[d] = attempt[d]
    BY <2>1, <2>2 DEF SleptInv
  <2> QED BY <1>1, <1>2
<1> QED BY <1>3, <1>6, <1>7

\* The six ways a call ends.
LEMMA EndingKeeps ==
    ASSUME EndInv, NEW c \in Calls,
           \/ CannotConnect(c) \/ SendClosed(c) \/ GiveUp(c) \/ Cancel(c)
           \/ Return(c) \/ Raise(c)
    PROVE  HeardInv' /\ ToldInv' /\ SleptInv'
<1>1. /\ attempt \in [Calls -> 0..Attempts] /\ timer \in [Calls -> 0..MaxDelay]
      /\ op[c] \in AllOperations /\ resp[c] \in Responses
  BY DEF EndInv, IInv, TypeOK
<1>2. /\ Value.kind = "value" /\ Cancelled.kind = "cancelled"
      /\ \A class, type, status : /\ Raised(class, type, status).kind = "raised"
                                  /\ Raised(class, type, status).status = status
  BY DEF Value, Cancelled, Raised, Outcome
<1>3. \A class, type, status : status \in Open => InDoubt(Raised(class, type, status))
  BY <1>2 DEF InDoubt, Open
<1>4. \A class, type, status : Raised(class, type, status) # Value
  BY <1>2
<1>5. /\ TransportError \in Outcomes /\ Raised("RuntimeError", "", 0) \in Outcomes
      /\ Cancelled \in Outcomes /\ Value \in Outcomes
  BY OutcomesTyped
<1>6. InDoubt(TransportError) /\ InDoubt(Raised("RuntimeError", "", 0)) /\ 0 \in Open
  BY <1>3 DEF TransportError, Open
<1>7. CASE CannotConnect(c)
  <2>1. Finish(c, TransportError) /\ pc[c] = "send"
        /\ UNCHANGED <<op, timer, net, resp, landed, slept>>
        /\ attempt' = [attempt EXCEPT ![c] = @ + 1]
    BY <1>7 DEF CannotConnect, history
  <2>2. TransportError = Raised("GnarlError", "transport_error", 0)
    BY DEF TransportError
  <2> QED BY <1>1, <1>4, <1>5, <1>6, <2>1, <2>2, FinishKeeps
<1>8. CASE SendClosed(c)
  <2>1. Finish(c, Raised("RuntimeError", "", 0)) /\ pc[c] = "send"
        /\ UNCHANGED <<op, timer, net, resp, landed, slept>>
        /\ attempt' = [attempt EXCEPT ![c] = @ + 1]
    BY <1>8 DEF SendClosed, history
  <2> QED BY <1>1, <1>4, <1>5, <1>6, <2>1, FinishKeeps
<1>9. CASE GiveUp(c)
  <2>1. Finish(c, TransportError) /\ pc[c] = "await"
        /\ UNCHANGED <<op, timer, net, resp, landed, slept, attempt>>
    BY <1>9 DEF GiveUp, history
  <2>2. TransportError = Raised("GnarlError", "transport_error", 0)
    BY DEF TransportError
  <2> QED BY <1>1, <1>4, <1>5, <1>6, <2>1, <2>2, FinishKeeps
<1>10. CASE Cancel(c)
  <2>1. Finish(c, Cancelled) /\ pc[c] \in {"await", "sleep"}
        /\ UNCHANGED <<op, net, resp, landed, slept, attempt>>
        /\ timer' = [timer EXCEPT ![c] = 0]
    BY <1>10 DEF Cancel, history
  <2>2. Cancelled # Value /\ Cancelled.kind # "raised"
    BY <1>2
  <2> QED BY <1>1, <1>5, <2>1, <2>2, FinishKeeps
<1>11. CASE Return(c)
  <2>1. Finish(c, Decoded(op[c], resp[c])) /\ pc[c] = "await" /\ Success(resp[c])
        /\ resp[c] # NoResponse /\ UNCHANGED <<op, net, resp, landed, slept, attempt, timer>>
    BY <1>11 DEF Return, history, Answered
  <2>2. landed[c] >= 1 /\ c \notin net
    BY <2>1 DEF EndInv, HeardInv
  <2>3. Decoded(op[c], resp[c]) \in
           {Value, Raised("GnarlError", "invalid_response", resp[c].status),
            Raised("ParseError", "", 0)}
    BY DEF Decoded
  <2>4. resp[c].status \in Open
    BY <2>1 DEF Success, Open
  <2>5. Decoded(op[c], resp[c]) \in Outcomes
    BY <1>1, OutcomesTyped
  <2>6. ~(Decoded(op[c], resp[c]).kind = "raised" /\ ~InDoubt(Decoded(op[c], resp[c])))
    <3> DEFINE out == Decoded(op[c], resp[c])
    <3>1. CASE out = Value
      BY <1>2, <3>1
    <3>2. CASE out = Raised("GnarlError", "invalid_response", resp[c].status)
      BY <1>3, <2>4, <3>2
    <3>3. CASE out = Raised("ParseError", "", 0)
      BY <1>3, <1>6, <3>3
    <3> HIDE DEF out
    <3> QED BY <2>3, <3>1, <3>2, <3>3 DEF out
  <2>7. \/ Decoded(op[c], resp[c]) \in {Cancelled, Value}
        \/ \E class, type, status : Decoded(op[c], resp[c]) = Raised(class, type, status)
    BY <2>3
  <2> QED BY <2>1, <2>2, <2>5, <2>6, <2>7, FinishKeeps
<1>12. CASE Raise(c)
  <2> DEFINE err == error_from_response(resp[c])
  <2>1. Finish(c, Raised(err.class, err.type, err.status)) /\ pc[c] = "await"
        /\ resp[c] # NoResponse /\ UNCHANGED <<op, net, resp, landed, slept, attempt, timer>>
    BY <1>12 DEF Raise, history, Answered
  <2>2. err.status = resp[c].status
    BY <1>1, ErrorOfResponse
  <2>3. c \notin net
    BY <2>1 DEF EndInv, HeardInv
  <2>4. Raised(err.class, err.type, err.status) \in Outcomes
    BY <1>1, OutcomesTyped
  <2>5. op[c].effect = "append" /\ ~InDoubt(Raised(err.class, err.type, err.status))
           => landed[c] = 0
    <3> HIDE DEF err
    <3> QED BY <1>3, <2>2 DEF EndInv, HeardInv
  <2> HIDE DEF err
  <2> QED BY <1>4, <2>1, <2>3, <2>4, <2>5, FinishKeeps
<1> QED BY <1>7, <1>8, <1>9, <1>10, <1>11, <1>12

\* The steps of a call that goes on.
LEMMA LoopKeeps ==
    ASSUME EndInv, NEW c \in Calls, Begin(c) \/ Send(c) \/ Sleep(c) \/ Wake(c)
    PROVE  HeardInv' /\ ToldInv' /\ SleptInv'
<1> USE DEF EndInv
<1>1. /\ \A d \in Calls : attempt[d] \in Nat /\ timer[d] \in Nat /\ slept[d] \in Nat
      /\ MaxDelay \in Nat
      /\ pc \in [Calls -> {"idle", "send", "await", "sleep", "done"}]
      /\ attempt \in [Calls -> 0..Attempts] /\ timer \in [Calls -> 0..MaxDelay]
      /\ resp \in [Calls -> Responses]
  BY RetryAssumption DEF IInv, TypeOK
<1>2. CASE Begin(c)
  <2>1. HeardInv' /\ ToldInv'
    BY <1>1, <1>2 DEF Begin, HeardInv, ToldInv, Success
  <2>2. slept[c] = 0 /\ timer[c] = 0 /\ attempt[c] = 0
    BY <1>2 DEF Begin, SleptInv, IInv, TimerInv, PcInv
  <2>3. slept[c] + timer[c] <= attempt[c] * MaxDelay
    BY <1>1, <2>2
  <2>4. SleptInv'
    BY <1>1, <1>2, <2>3 DEF Begin, SleptInv, history
  <2> QED BY <2>1, <2>4
<1>3. CASE Send(c)
  <2>1. pc[c] = "send" /\ pc' = [pc EXCEPT ![c] = "await"] /\ net' = net \cup {c}
        /\ resp' = [resp EXCEPT ![c] = NoResponse] /\ attempt' = [attempt EXCEPT ![c] = @ + 1]
        /\ UNCHANGED <<op, timer, outcome, landed, slept>>
    BY <1>3 DEF Send, history
  <2>2. outcome[c].kind = "pending"
    BY <2>1 DEF ToldInv
  <2>3. ToldInv'
    BY <1>1, <2>1, <2>2 DEF ToldInv
  <2>4. HeardInv'
    BY <1>1, <2>1, WhatSucceeds DEF HeardInv, Open
  <2>5. slept[c] <= attempt[c] * MaxDelay /\ attempt'[c] - 1 = attempt[c]
    <3>1. slept[c] + timer[c] <= attempt[c] * MaxDelay
      BY <2>1 DEF SleptInv
    <3>2. attempt[c] * MaxDelay \in Nat
      BY <1>1, SleepsAddUp
    <3> QED BY <1>1, <2>1, <3>1, <3>2
  <2>6. SleptInv'
    <3>1. \A d \in Calls : d # c => attempt'[d] = attempt[d] /\ pc'[d] = pc[d]
      BY <1>1, <2>1
    <3>2. pc'[c] = "await" /\ slept'[c] <= (attempt'[c] - 1) * MaxDelay
      BY <1>1, <2>1, <2>5
    <3> QED BY <2>1, <3>1, <3>2 DEF SleptInv
  <2> QED BY <2>3, <2>4, <2>6
<1>4. CASE Sleep(c)
  <2>1. pc[c] = "await" /\ pc' = [pc EXCEPT ![c] = "sleep"]
        /\ timer' = [timer EXCEPT ![c] = Wait(c)] /\ Wait(c) # None
        /\ UNCHANGED <<op, attempt, outcome, net, resp, landed, slept>>
    BY <1>4 DEF Sleep, Answered
  <2>2. outcome[c].kind = "pending" /\ attempt[c] > 0
    BY <2>1 DEF ToldInv, IInv, PcInv
  <2>3. HeardInv' /\ ToldInv'
    BY <1>1, <2>1, <2>2 DEF HeardInv, ToldInv, Success
  <2>4. Wait(c) \in 0..MaxDelay
    BY <2>1, <2>2, WaitRange DEF IInv
  <2>5. slept[c] + Wait(c) <= attempt[c] * MaxDelay
    <3>1. slept[c] <= (attempt[c] - 1) * MaxDelay /\ attempt[c] - 1 \in Nat
      BY <1>1, <2>1, <2>2 DEF SleptInv
    <3>2. /\ (attempt[c] - 1) * MaxDelay \in Nat
          /\ ((attempt[c] - 1) + 1) * MaxDelay = (attempt[c] - 1) * MaxDelay + MaxDelay
      BY <3>1, SleepsAddUp
    <3>3. (attempt[c] - 1) + 1 = attempt[c]
      BY <1>1
    <3> QED BY <1>1, <2>4, <3>1, <3>2, <3>3
  <2>6. SleptInv'
    <3>1. \A d \in Calls : d # c => timer'[d] = timer[d] /\ pc'[d] = pc[d]
      BY <1>1, <2>1
    <3>2. pc'[c] = "sleep" /\ slept'[c] + timer'[c] <= attempt'[c] * MaxDelay
      BY <1>1, <2>1, <2>5
    <3> QED BY <2>1, <3>1, <3>2 DEF SleptInv
  <2> QED BY <2>3, <2>6
<1>5. CASE Wake(c)
  BY <1>1, <1>5 DEF Wake, history, HeardInv, ToldInv, SleptInv, Success
<1> QED BY <1>2, <1>3, <1>4, <1>5

\* Time, the rest of the client, and what happens without it.
LEMMA WorldKeeps ==
    ASSUME EndInv, Tick \/ Close \/ JobEnds
    PROVE  HeardInv' /\ ToldInv' /\ SleptInv'
<1> USE DEF EndInv
<1>1. CASE Tick
  <2>1. \A c \in Calls :
           \/ timer'[c] = timer[c] /\ slept'[c] = slept[c]
           \/ pc[c] = "sleep" /\ timer'[c] = timer[c] - 1 /\ slept'[c] = slept[c] + 1
    BY <1>1 DEF Tick, IInv, TypeOK
  <2>2. UNCHANGED <<op, pc, attempt, outcome, net, resp, landed>>
    BY <1>1 DEF Tick
  <2>3. \A c \in Calls : timer[c] \in Nat /\ slept[c] \in Nat /\ pc'[c] = pc[c]
    BY <2>2, RetryAssumption DEF IInv, TypeOK
  <2>4. \A c \in Calls : /\ slept'[c] + timer'[c] = slept[c] + timer[c]
                         /\ pc[c] # "sleep" => slept'[c] = slept[c]
    BY <2>1, <2>3
  <2>5. SleptInv'
    BY <2>2, <2>4 DEF SleptInv
  <2> QED BY <2>2, <2>5 DEF HeardInv, ToldInv, Success
<1>2. CASE Close
  BY <1>2 DEF Close, client, history, HeardInv, ToldInv, SleptInv, Success
<1>3. CASE JobEnds
  BY <1>3 DEF JobEnds, client, history, HeardInv, ToldInv, SleptInv, Success
<1> QED BY <1>1, <1>2, <1>3

\* The node, whatever it answers.
LEMMA NodeKeeps ==
    ASSUME EndInv, NEW c \in Calls, NodeStep(c)
    PROVE  HeardInv' /\ ToldInv' /\ SleptInv'
<1> USE DEF EndInv
<1>1. c \in net /\ UNCHANGED <<op, client, history>>
  BY DEF NodeStep, NodeRefuses, NodeServes
<1>2. SleptInv'
  BY <1>1 DEF SleptInv, client, history
<1>3. PICK r \in Responses :
        /\ Answer(c, r)
        /\ \/ landed' = landed /\ ~Success(r)
           \/ /\ landed' = [landed EXCEPT ![c] = @ + 1]
              /\ Success(r) \/ r.status \in Ambiguous
  <2>1. CASE NodeRefuses(c)
    BY <2>1, WhatSucceeds, AnswersTyped DEF NodeRefuses
  <2>2. CASE NodeServes(c)
    <3>1. \A b \in Bodies : Success(OK(b))
      BY WhatSucceeds DEF Success
    <3> QED BY <2>2, <3>1, AnswersTyped DEF NodeServes
  <2> QED BY <2>1, <2>2 DEF NodeStep
<1>4. /\ landed \in [Calls -> 0..Attempts] /\ landed[c] \in Nat
      /\ resp \in [Calls -> Responses]
      /\ net' = net \ {c} /\ resp[c] = NoResponse
      /\ landed[c] < attempt[c] /\ attempt[c] \in Nat
  BY <1>1, <1>3, RetryAssumption DEF IInv, TypeOK, HeardInv, SentInv, Answer
<1>5. op[c].effect = "append" => landed[c] = 0
  <2>1. ASSUME op[c].effect = "append" PROVE ~(attempt[c] > 1)
    BY <2>1, AppendsAreNotRepeatable DEF IInv, TypeOK, SentInv
  <2> QED BY <1>4, <2>1
<1>6. \A d \in Calls : d # c => landed'[d] = landed[d] /\ resp'[d] = resp[d]
  BY <1>3, <1>4 DEF Answer
<1>7. landed'[c] >= landed[c] /\ resp'[c] \in {NoResponse, r}
  BY <1>3, <1>4 DEF Answer
<1>8. HeardInv'
  <2> SUFFICES /\ Success(resp'[c]) => landed'[c] >= 1
               /\ op[c].effect = "append" /\ resp'[c].status \notin Open => landed'[c] = 0
    BY <1>1, <1>4, <1>6 DEF HeardInv, Success
  <2>1. CASE resp'[c] = NoResponse
    BY <2>1, WhatSucceeds DEF Open
  <2>2. CASE resp'[c] = r
    <3>1. CASE landed' = landed
      <4>1. ~Success(r)
        BY <1>3, <1>4, <3>1
      <4> QED BY <1>5, <2>2, <3>1, <4>1
    <3>2. CASE landed' = [landed EXCEPT ![c] = @ + 1] /\ (Success(r) \/ r.status \in Ambiguous)
      BY <1>4, <2>2, <3>2 DEF Open, Success
    <3> QED BY <1>3, <3>1, <3>2
  <2> QED BY <1>7, <2>1, <2>2
<1>9. ToldInv'
  <2> SUFFICES ASSUME NEW d \in Calls
               PROVE  /\ outcome[d].kind = "value" => landed'[d] >= 1 /\ d \notin net'
                      /\ op[d].effect = "append" /\ outcome[d].kind = "raised"
                         /\ ~InDoubt(outcome[d]) => landed'[d] = 0 /\ d \notin net'
    BY <1>1 DEF ToldInv, client
  <2>1. CASE d = c
    BY <1>1, <2>1 DEF ToldInv
  <2>2. CASE d # c
    BY <1>4, <1>6, <2>2 DEF ToldInv
  <2> QED BY <2>1, <2>2
<1> QED BY <1>2, <1>8, <1>9

LEMMA NextEndInv == EndInv /\ [Next]_vars => EndInv'
<1> SUFFICES ASSUME EndInv, [Next]_vars PROVE EndInv'
  OBVIOUS
<1>1. IInv'
  BY NextIInv DEF EndInv
<1>2. HeardInv' /\ ToldInv' /\ SleptInv'
  <2>1. CASE \E c \in Calls : CallStep(c)
    BY <2>1, EndingKeeps, LoopKeeps DEF CallStep
  <2>2. CASE \E c \in Calls : NodeStep(c)
    BY <2>2, NodeKeeps
  <2>3. CASE Tick \/ Close \/ JobEnds
    BY <2>3, WorldKeeps
  <2>4. CASE UNCHANGED vars
    BY <2>4 DEF vars, client, history, EndInv, HeardInv, ToldInv, SleptInv, Success
  <2> QED BY <2>1, <2>2, <2>3, <2>4 DEF Next
<1> QED BY <1>1, <1>2 DEF EndInv

LEMMA EndInvariance == Spec => []EndInv
  BY InitEndInv, NextEndInv, PTL DEF Spec

-----------------------------------------------------------------------------
(* The theorems.                                                           *)

\* The sleeps of one call add up to no more than the policy allows.
THEOREM WaitsBounded == Spec => []TotalWaitBounded
<1>1. ASSUME EndInv, NEW c \in Calls
      PROVE  slept[c] <= (Attempts - 1) * MaxDelay
  <2>1. /\ Attempts \in Nat \ {0} /\ MaxDelay \in Nat
        /\ attempt[c] \in 0..Attempts /\ timer[c] \in Nat /\ slept[c] \in Nat
        /\ pc[c] \in {"idle", "send", "await", "sleep", "done"}
    BY <1>1, RetryAssumption DEF EndInv, IInv, TypeOK
  <2>2. (Attempts - 1) * MaxDelay \in Nat
    BY <2>1, SleepsAddUp
  <2>3. CASE pc[c] \in {"idle", "done"}
    BY <1>1, <2>1, <2>2, <2>3 DEF EndInv, SleptInv
  <2>4. CASE pc[c] \in {"send", "sleep"}
    <3>1. slept[c] + timer[c] <= attempt[c] * MaxDelay /\ attempt[c] < Attempts
      BY <1>1, <2>4 DEF EndInv, SleptInv, IInv, PcInv
    <3>2. attempt[c] * MaxDelay \in Nat /\ attempt[c] * MaxDelay <= (Attempts - 1) * MaxDelay
      BY <2>1, <3>1, SleepsAddUp
    <3> QED BY <2>1, <2>2, <3>1, <3>2
  <2>5. CASE pc[c] = "await"
    <3>1. slept[c] <= (attempt[c] - 1) * MaxDelay /\ attempt[c] > 0
      BY <1>1, <2>5 DEF EndInv, SleptInv, IInv, PcInv
    <3>2. attempt[c] - 1 \in Nat /\ Attempts - 1 \in Nat /\ attempt[c] - 1 <= Attempts - 1
      BY <2>1, <3>1
    <3>3. /\ (attempt[c] - 1) * MaxDelay \in Nat
          /\ (attempt[c] - 1) * MaxDelay <= (Attempts - 1) * MaxDelay
      BY <3>2, SleepsAddUp
    <3> QED BY <2>1, <2>2, <3>1, <3>3
  <2> QED BY <2>1, <2>3, <2>4, <2>5
<1>2. EndInv => TotalWaitBounded
  BY <1>1 DEF TotalWaitBounded
<1> QED BY <1>2, EndInvariance, PTL

\* A value means that the node served the request.
THEOREM ReturnsServed == Spec => []ReturnedMeansServed
<1>1. EndInv => ReturnedMeansServed
  BY DEF EndInv, ToldInv, ReturnedMeansServed
<1> QED BY <1>1, EndInvariance, PTL

\* An append that was refused, by its error, was not done, nor will it be.
THEOREM RefusalsUndone == Spec => []RefusedMeansNotDone
<1>1. EndInv => RefusedMeansNotDone
  BY DEF EndInv, ToldInv, RefusedMeansNotDone
<1> QED BY <1>1, EndInvariance, PTL

\* The end of a call is a return or an exception of RemoteCall.
LEMMA EndingMaps ==
    ASSUME EndInv, EndInv', NEW c \in Calls, NEW out, Finish(c, out),
           pc[c] \in {"send", "await", "sleep"}, UNCHANGED <<op, landed>>
    PROVE  Promise!ReturnValue(c) \/ Promise!RaiseError(c)
<1>1. /\ pc \in [Calls -> {"idle", "send", "await", "sleep", "done"}]
      /\ outcome \in [Calls -> Outcomes]
  BY DEF EndInv, IInv, TypeOK
<1>2. /\ pc'[c] = "done"
      /\ \A d \in Calls : d # c => pc'[d] = pc[d] /\ outcome'[d] = outcome[d]
  BY <1>1 DEF Finish
<1>3. \A d \in Calls : d # c => StatusOf(d)' = StatusOf(d)
  BY <1>2 DEF StatusOf
<1>4. StatusOf(c) = "pending"
  BY DEF StatusOf, EndInv, ToldInv
<1>5. /\ outcome'[c].kind = "value" => StatusOf(c)' = "returned"
      /\ outcome'[c].kind # "value" => StatusOf(c)' = "raised"
  BY <1>2 DEF StatusOf
<1>6. CASE outcome'[c].kind = "value"
  <2>1. landed[c] > 0
    BY <1>1, <1>6, RetryAssumption DEF EndInv, ToldInv, IInv, TypeOK
  <2>2. [d \in Calls |-> StatusOf(d)]' = [[d \in Calls |-> StatusOf(d)] EXCEPT ![c] = "returned"]
    BY <1>3, <1>5, <1>6
  <2> QED BY <1>4, <2>1, <2>2 DEF Promise!ReturnValue
<1>7. CASE outcome'[c].kind # "value"
  <2>1. [d \in Calls |-> StatusOf(d)]' = [[d \in Calls |-> StatusOf(d)] EXCEPT ![c] = "raised"]
    BY <1>3, <1>5, <1>7
  <2> QED BY <1>4, <2>1 DEF Promise!RaiseError
<1> QED BY <1>6, <1>7

\* Transport implements RemoteCall, but for its liveness: every call begins
\* idle, and every step of the loop, the node and the world is one of its
\* steps or none.
THEOREM Implements == Spec => Promise!Init /\ [][Promise!Next]_(Promise!vars)
<1>1. Init => Promise!Init
  <2>1. ASSUME Init
        PROVE  [c \in Calls |-> StatusOf(c)] = [c \in Calls |-> "idle"]
    <3>1. \A c \in Calls : StatusOf(c) = "idle"
      BY <2>1 DEF Init, StatusOf
    <3> QED BY <3>1
  <2>2. [c \in Calls |-> op[c].effect # "append"] \in [Calls -> BOOLEAN]
    OBVIOUS
  <2> QED BY <2>1, <2>2 DEF Init, Promise!Init
<1>2. ASSUME EndInv, EndInv', [Next]_vars
      PROVE  [Promise!Next]_(Promise!vars)
  <2>1. /\ pc \in [Calls -> {"idle", "send", "await", "sleep", "done"}]
        /\ outcome \in [Calls -> Outcomes] /\ landed \in [Calls -> 0..Attempts]
    BY <1>2 DEF EndInv, IInv, TypeOK
  <2>2. ASSUME \A d \in Calls : StatusOf(d)' = StatusOf(d), UNCHANGED <<op, landed>>
        PROVE  UNCHANGED Promise!vars
    BY <2>2 DEF Promise!vars
  <2>3. ASSUME NEW c \in Calls, Begin(c)
        PROVE  Promise!Call(c)
    <3>1. pc[c] = "idle" /\ pc' = [pc EXCEPT ![c] = "send"] /\ UNCHANGED <<op, outcome, landed>>
      BY <2>3 DEF Begin
    <3>2. \A d \in Calls : d # c => StatusOf(d)' = StatusOf(d)
      BY <2>1, <3>1 DEF StatusOf
    <3>3. StatusOf(c) = "idle" /\ StatusOf(c)' = "pending"
      BY <1>2, <2>1, <3>1 DEF StatusOf, EndInv, ToldInv
    <3>4. [d \in Calls |-> StatusOf(d)]' = [[d \in Calls |-> StatusOf(d)] EXCEPT ![c] = "pending"]
      BY <3>2, <3>3
    <3> QED BY <3>1, <3>3, <3>4 DEF Promise!Call
  <2>4. ASSUME NEW c \in Calls, Send(c) \/ Sleep(c) \/ Wake(c)
        PROVE  UNCHANGED Promise!vars
    <3>1. /\ pc[c] \in {"send", "await", "sleep"} /\ pc'[c] \in {"send", "await", "sleep"}
          /\ \A d \in Calls : d # c => pc'[d] = pc[d]
          /\ UNCHANGED <<op, outcome, landed>>
      BY <2>1, <2>4 DEF Send, Sleep, Wake, Answered
    <3>2. \A d \in Calls : StatusOf(d)' = StatusOf(d)
      BY <1>2, <3>1 DEF StatusOf, EndInv, ToldInv
    <3> QED BY <2>2, <3>1, <3>2
  <2>5. ASSUME NEW c \in Calls,
               \/ CannotConnect(c) \/ SendClosed(c) \/ GiveUp(c) \/ Cancel(c)
               \/ Return(c) \/ Raise(c)
        PROVE  Promise!ReturnValue(c) \/ Promise!RaiseError(c)
    <3>1. /\ \E out : Finish(c, out)
          /\ pc[c] \in {"send", "await", "sleep"} /\ UNCHANGED <<op, landed>>
      BY <2>5 DEF CannotConnect, SendClosed, GiveUp, Cancel, Return, Raise, Answered
    <3> QED BY <1>2, <3>1, EndingMaps
  <2>6. ASSUME NEW c \in Calls, NodeServes(c)
        PROVE  Promise!TakeEffect(c)
    <3>1. c \in net /\ landed' = [landed EXCEPT ![c] = @ + 1] /\ UNCHANGED <<op, pc, outcome>>
      BY <2>6 DEF NodeServes, client
    <3>2. \A d \in Calls : StatusOf(d)' = StatusOf(d)
      BY <3>1 DEF StatusOf
    <3>3. StatusOf(c) \in {"pending", "raised"}
      BY <1>2, <3>1 DEF StatusOf, EndInv, ToldInv, IInv, PcInv
    <3>4. landed[c] < attempt[c] /\ attempt[c] \in 0..Attempts /\ landed[c] \in Nat
      BY <1>2, <3>1, RetryAssumption DEF EndInv, IInv, TypeOK, SentInv
    <3>5. op[c].effect = "append" => landed[c] = 0
      <4>1. ASSUME op[c].effect = "append" PROVE ~(attempt[c] > 1)
        BY <1>2, <4>1, AppendsAreNotRepeatable DEF EndInv, IInv, TypeOK, SentInv
      <4> QED BY <3>4, <4>1
    <3>6. landed[c] < Attempts
      BY <3>4, RetryAssumption
    <3> QED BY <3>1, <3>2, <3>3, <3>5, <3>6 DEF Promise!TakeEffect
  <2>7. ASSUME NEW c \in Calls, NodeRefuses(c)
        PROVE  UNCHANGED Promise!vars
    BY <2>2, <2>7 DEF NodeRefuses, client, StatusOf
  <2>8. ASSUME Tick \/ Close \/ JobEnds \/ UNCHANGED vars
        PROVE  UNCHANGED Promise!vars
    BY <2>2, <2>8 DEF Tick, Close, JobEnds, vars, client, StatusOf
  <2> QED BY <1>2, <2>3, <2>4, <2>5, <2>6, <2>7, <2>8 DEF Next, CallStep, NodeStep, Promise!Next
<1> QED BY <1>1, <1>2, EndInvariance, PTL DEF Spec

-----------------------------------------------------------------------------
(* index_exists, against a node whose errors of absence are 404s.          *)

\* A type that the client takes for NotFound comes with the status 404.
NotFoundsAre404 ==
    \A r \in Refusals : r.body = "envelope" /\ r.type \in TypesOf.NotFound => r.status = 404

\* The answers and the outcomes of absence are 404s.
AbsenceInv ==
    \A c \in Calls :
        /\ resp[c].body = "envelope" /\ resp[c].type \in TypesOf.NotFound
              => resp[c].status = 404
        /\ outcome[c].kind = "absent" => pc[c] = "done" /\ resp[c].status = 404

\* Only a 404 becomes NotFound.
LEMMA NotFoundIs404 ==
    ASSUME NEW r \in Responses,
           r.body = "envelope" /\ r.type \in TypesOf.NotFound => r.status = 404,
           error_from_response(r).class = "NotFound"
    PROVE  r.status = 404
<1>1. \A s : ByStatus(s) = "NotFound" => s = 404
  BY DEF ByStatus
<1>2. CASE r.body # "envelope"
  BY <1>1, <1>2 DEF error_from_response, ByStatusUntyped
<1>3. CASE r.body = "envelope"
  <2>1. CASE r.type \in KnownTypes
    <3>1. ByType(r.type) = "NotFound"
      BY <1>3, <2>1 DEF error_from_response
    <3>2. PICK cls \in DOMAIN TypesOf : r.type \in TypesOf[cls]
      BY <2>1 DEF KnownTypes
    <3>3. r.type \in TypesOf[ByType(r.type)]
      BY <3>2 DEF ByType
    <3> QED BY <1>3, <3>1, <3>3
  <2>2. CASE r.type \notin KnownTypes
    BY <1>1, <1>3, <2>2 DEF error_from_response
  <2> QED BY <2>1, <2>2
<1> QED BY <1>2, <1>3

\* Absence is told on NotFound alone.
LEMMA ToldAbsent ==
    ASSUME NEW o, NEW class, NEW type, NEW status,
           ToCaller(o, Raised(class, type, status)).kind = "absent"
    PROVE  class = "NotFound"
  BY DEF ToCaller, Raised, Outcome, IsA

\* "could not tell" never reads as "absent": index_exists answers False only
\* when the answer to its last attempt is a 404.
THEOREM AbsenceFound ==
    ASSUME NotFoundsAre404
    PROVE  Spec => []AbsentMeansNotFound
<1>1. Init => AbsenceInv
  <2>1. NoResponse.body # "envelope" /\ Pending.kind # "absent"
    BY DEF NoResponse, Response, Pending, Outcome
  <2> QED BY <2>1 DEF Init, AbsenceInv
<1>2. ASSUME EndInv, AbsenceInv, [Next]_vars
      PROVE  AbsenceInv'
  <2>1. /\ pc \in [Calls -> {"idle", "send", "await", "sleep", "done"}]
        /\ outcome \in [Calls -> Outcomes] /\ resp \in [Calls -> Responses]
    BY <1>2 DEF EndInv, IInv, TypeOK
  <2>2. ASSUME NEW c \in Calls, NEW out, Finish(c, out), UNCHANGED resp,
               ToCaller(op[c], out).kind = "absent" => resp[c].status = 404
        PROVE  AbsenceInv'
    BY <1>2, <2>1, <2>2 DEF Finish, AbsenceInv
  <2>3. ASSUME NEW c \in Calls, CannotConnect(c) \/ GiveUp(c)
        PROVE  AbsenceInv'
    <3>1. Finish(c, TransportError) /\ UNCHANGED resp
      BY <2>3 DEF CannotConnect, GiveUp
    <3>2. ToCaller(op[c], TransportError).kind # "absent"
      BY ToldAbsent DEF TransportError
    <3> QED BY <2>2, <3>1, <3>2
  <2>4. ASSUME NEW c \in Calls, SendClosed(c)
        PROVE  AbsenceInv'
    <3>1. Finish(c, Raised("RuntimeError", "", 0)) /\ UNCHANGED resp
      BY <2>4 DEF SendClosed
    <3>2. ToCaller(op[c], Raised("RuntimeError", "", 0)).kind # "absent"
      BY ToldAbsent
    <3> QED BY <2>2, <3>1, <3>2
  <2>5. ASSUME NEW c \in Calls, Cancel(c)
        PROVE  AbsenceInv'
    <3>1. Finish(c, Cancelled) /\ UNCHANGED resp
      BY <2>5 DEF Cancel
    <3>2. ToCaller(op[c], Cancelled).kind # "absent"
      <4>1. Cancelled.kind # "absent"
        BY DEF Cancelled, Outcome
      <4> QED BY <4>1, Told
    <3> QED BY <2>2, <3>1, <3>2
  <2>6. ASSUME NEW c \in Calls, Return(c)
        PROVE  AbsenceInv'
    <3>1. Finish(c, Decoded(op[c], resp[c])) /\ UNCHANGED resp
      BY <2>6 DEF Return
    <3>2. ToCaller(op[c], Value).kind # "absent"
      <4>1. Value.kind # "absent"
        BY DEF Value, Outcome
      <4> QED BY <4>1, Told
    <3>3. \A s \in {"GnarlError", "ParseError"} : \A type, status :
             ToCaller(op[c], Raised(s, type, status)).kind # "absent"
      BY ToldAbsent
    <3>4. \/ Decoded(op[c], resp[c]) = Value
          \/ \E s \in {"GnarlError", "ParseError"} : \E type, status :
                Decoded(op[c], resp[c]) = Raised(s, type, status)
      BY DEF Decoded
    <3> QED BY <2>2, <3>1, <3>2, <3>3, <3>4
  <2>7. ASSUME NEW c \in Calls, Raise(c)
        PROVE  AbsenceInv'
    <3> DEFINE err == error_from_response(resp[c])
    <3>1. Finish(c, Raised(err.class, err.type, err.status)) /\ UNCHANGED resp
      BY <2>7 DEF Raise
    <3>2. err.class = "NotFound" => resp[c].status = 404
      BY <1>2, <2>1, NotFoundIs404 DEF AbsenceInv
    <3> HIDE DEF err
    <3>3. ToCaller(op[c], Raised(err.class, err.type, err.status)).kind = "absent"
             => resp[c].status = 404
      BY <3>2, ToldAbsent
    <3> QED BY <2>2, <3>1, <3>3
  <2>8. ASSUME NEW c \in Calls, Begin(c) \/ Sleep(c) \/ Wake(c)
        PROVE  AbsenceInv'
    <3>1. UNCHANGED <<outcome, resp>> /\ pc[c] # "done"
          /\ \A d \in Calls : d # c => pc'[d] = pc[d]
      BY <2>1, <2>8 DEF Begin, Sleep, Wake, Answered
    <3> QED BY <1>2, <3>1 DEF AbsenceInv
  <2>9. ASSUME NEW c \in Calls, Send(c)
        PROVE  AbsenceInv'
    <3>1. UNCHANGED outcome /\ pc[c] = "send" /\ resp'[c] = NoResponse
          /\ \A d \in Calls : d # c => pc'[d] = pc[d] /\ resp'[d] = resp[d]
      BY <2>1, <2>9 DEF Send
    <3>2. NoResponse.body # "envelope"
      BY DEF NoResponse, Response
    <3> QED BY <1>2, <3>1, <3>2 DEF AbsenceInv
  <2>10. ASSUME NEW c \in Calls, NodeStep(c)
         PROVE  AbsenceInv'
    <3>1. UNCHANGED <<pc, outcome>>
      BY <2>10 DEF NodeStep, NodeRefuses, NodeServes, client
    <3>2. PICK r : /\ Answer(c, r)
                   /\ r.body = "envelope" /\ r.type \in TypesOf.NotFound => r.status = 404
      <4>1. \A b : OK(b).body = b
        BY DEF OK, Response
      <4>2. \A b \in Bodies : OK(b).body # "envelope"
        BY <4>1, TransportAssumption
      <4>3. \A x \in Objection(c) : x.type \in TypesOf.NotFound => x.status = 404
        BY DEF Objection, Conflicting, Response, TypesOf
      <4>4. CASE NodeRefuses(c)
        BY <4>3, <4>4, NotFoundsAre404 DEF NotFoundsAre404, NodeRefuses
      <4>5. CASE NodeServes(c)
        BY <4>2, <4>5, NotFoundsAre404 DEF NotFoundsAre404, NodeServes
      <4> QED BY <2>10, <4>4, <4>5 DEF NodeStep
    <3>3. \A d \in Calls : resp'[d] = resp[d] \/ (pc[d] = "await" /\ resp'[d] = r)
      BY <2>1, <3>2 DEF Answer
    <3> QED BY <1>2, <3>1, <3>2, <3>3 DEF AbsenceInv
  <2>11. CASE Tick \/ Close \/ JobEnds \/ UNCHANGED vars
    BY <1>2, <2>11 DEF Tick, Close, JobEnds, vars, client, AbsenceInv
  <2> QED BY <1>2, <2>3, <2>4, <2>5, <2>6, <2>7, <2>8, <2>9, <2>10, <2>11
         DEF Next, CallStep
<1>3. AbsenceInv => AbsentMeansNotFound
  BY DEF AbsenceInv, AbsentMeansNotFound
<1> QED BY <1>1, <1>2, <1>3, EndInvariance, PTL DEF Spec
=============================================================================
