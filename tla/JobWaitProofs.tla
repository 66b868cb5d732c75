--------------------------- MODULE JobWaitProofs ----------------------------
(***************************************************************************)
(* What holds of every wait, for any timeout, interval and poll time.      *)
(***************************************************************************)
EXTENDS JobWait, TLAPS

\* Where the clock may be at each point of the loop: a poll begins at once or
\* before the deadline and one interval are over, and a sleep only before the
\* deadline.
ClockInv ==
    /\ pc = "poll" => now = 0 \/ now < deadline + interval
    /\ pc = "await" => /\ now <= askedAt + PollTime
                       /\ askedAt = 0 \/ askedAt < deadline + interval
    /\ pc = "sleep" => now <= wakeAt /\ wakeAt < deadline + interval

\* What an answer and an outcome say of the job.  A job that was running when
\* it answered has ended, if at all, after that poll began; and a poll that
\* ends in a timeout began at most PollTime before the deadline.
TruthInv ==
    /\ pc # "done" => outcome = "pending"
    /\ answer \in Ended => job = answer
    /\ answer \in {"running", "none"} /\ job # "running" => endedAt >= askedAt
    /\ outcome = "job_timeout" => answer \in {"running", "none"} /\ askedAt >= deadline - PollTime
    /\ VerdictIsTrue

IInv == TypeOK /\ ClockInv /\ TruthInv

-----------------------------------------------------------------------------
\* The constants as the proofs use them.
LEMMA Parameters ==
    Timeouts \subseteq Nat /\ Intervals \subseteq Nat /\ PollTime \in Nat /\ MaxTime \in Nat
  BY WaitAssumption

LEMMA InitIInv == Init => IInv
  BY Parameters DEF Init, IInv, TypeOK, ClockInv, TruthInv, VerdictIsTrue, Ended, Raised, Nothing

LEMMA TypeKept ==
    ASSUME IInv, [Next]_vars
    PROVE  TypeOK'
<1> USE Parameters DEF IInv, TypeOK, Ended, Raised, Nothing, arguments, node, loop
<1>1. CASE Poll
  BY <1>1 DEF Poll
<1>2. CASE PollFails
  BY <1>2 DEF PollFails
<1>3. CASE Receive
  <2>1. UNCHANGED <<now, node, arguments, askedAt, answer>>
    BY <1>3 DEF Receive
  <2>2. pc' \in {"done", "sleep"} /\ wakeAt' \in Nat
    BY <1>3 DEF Receive, Conclude, Settle, TimeOut, Rest
  <2>3. outcome' \in {"pending"} \cup Raised \cup Ended
    BY <1>3 DEF Receive, Conclude, Settle, TimeOut, Rest, IsSettled
  <2> QED
    BY <2>1, <2>2, <2>3
<1>4. CASE Wake
  BY <1>4 DEF Wake
<1>5. CASE Tick
  BY <1>5 DEF Tick
<1>6. CASE NodeAnswers
  BY <1>6 DEF NodeAnswers
<1>7. CASE JobEnds
  BY <1>7 DEF JobEnds
<1>8. CASE UNCHANGED vars
  BY <1>8 DEF vars
<1> QED
  BY <1>1, <1>2, <1>3, <1>4, <1>5, <1>6, <1>7, <1>8 DEF Next

LEMMA ClockKept ==
    ASSUME IInv, [Next]_vars
    PROVE  ClockInv'
<1> USE Parameters DEF IInv, TypeOK, ClockInv, arguments, node, loop
<1>1. CASE Poll
  BY <1>1 DEF Poll
<1>2. CASE PollFails
  BY <1>2 DEF PollFails
<1>3. CASE Receive
  \* It rests only when the deadline is not over.
  BY <1>3 DEF Receive, Conclude, Settle, TimeOut, Rest, Expired
<1>4. CASE Wake
  BY <1>4 DEF Wake
<1>5. CASE Tick
  BY <1>5 DEF Tick
<1>6. CASE NodeAnswers
  BY <1>6 DEF NodeAnswers
<1>7. CASE JobEnds
  BY <1>7 DEF JobEnds
<1>8. CASE UNCHANGED vars
  BY <1>8 DEF vars
<1> QED
  BY <1>1, <1>2, <1>3, <1>4, <1>5, <1>6, <1>7, <1>8 DEF Next

LEMMA TruthKept ==
    ASSUME IInv, [Next]_vars
    PROVE  TruthInv'
<1> USE Parameters DEF IInv, TypeOK, TruthInv, VerdictIsTrue, Ended, Raised, Nothing, arguments, node,
        loop
<1>1. CASE Poll
  BY <1>1 DEF Poll
<1>2. CASE PollFails
  BY <1>2 DEF PollFails
<1>3. CASE Receive
  <2>1. UNCHANGED <<now, node, arguments, askedAt, answer>> /\ pc = "await" /\ answer # Nothing
    BY <1>3 DEF Receive
  <2>2. CASE IsSettled(answer)
    <3>1. Settle(answer)
      BY <1>3, <2>2 DEF Receive, Conclude
    <3>2. answer \in Ended /\ job = answer
      BY <2>1, <2>2 DEF IsSettled
    <3> QED
      BY <2>1, <3>1, <3>2 DEF Settle
  <2>3. CASE ~IsSettled(answer)
    <3>1. answer \in {"running", "none"}
      BY <2>1, <2>3 DEF IsSettled
    <3>2. CASE Expired
      <4>1. TimeOut
        BY <1>3, <2>3, <3>2 DEF Receive, Conclude
      <4>2. askedAt >= deadline - PollTime
        BY <2>1, <3>2 DEF Expired, ClockInv
      <4> QED
        BY <2>1, <3>1, <4>1, <4>2 DEF TimeOut
    <3>3. CASE ~Expired
      <4>1. Rest
        BY <1>3, <2>3, <3>3 DEF Receive, Conclude
      <4> QED
        BY <2>1, <3>1, <4>1 DEF Rest
    <3> QED
      BY <3>2, <3>3
  <2> QED
    BY <2>2, <2>3
<1>4. CASE Wake
  BY <1>4 DEF Wake
<1>5. CASE Tick
  BY <1>5 DEF Tick
<1>6. CASE NodeAnswers
  BY <1>6 DEF NodeAnswers
<1>7. CASE JobEnds
  BY <1>7 DEF JobEnds
<1>8. CASE UNCHANGED vars
  BY <1>8 DEF vars
<1> QED
  BY <1>1, <1>2, <1>3, <1>4, <1>5, <1>6, <1>7, <1>8 DEF Next

LEMMA Invariance == Spec => []IInv
<1>1. IInv /\ [Next]_vars => IInv'
  BY TypeKept, ClockKept, TruthKept DEF IInv
<1> QED
  BY InitIInv, <1>1, PTL DEF Spec

-----------------------------------------------------------------------------
\* Every variable stays in its range; a job is returned in an ended state only.
THEOREM Typing == Spec => []TypeOK
<1>1. IInv => TypeOK
  BY DEF IInv
<1> QED
  BY Invariance, <1>1, PTL

\* What wait returns or raises is true of the job when it does so.
THEOREM Truth == Spec => []VerdictIsTrue
<1>1. IInv => VerdictIsTrue
  BY DEF IInv, TruthInv
<1> QED
  BY Invariance, <1>1, PTL

\* A job that ended more than one poll's time before the deadline is never
\* reported as timed out.
THEOREM InTime == Spec => []SettledInTimeIsReported
<1>1. IInv => SettledInTimeIsReported
  BY Parameters DEF IInv, TypeOK, TruthInv, SettledInTimeIsReported
<1> QED
  BY Invariance, <1>1, PTL

\* The caller waits past the deadline for less than one interval and one poll,
\* the first poll alone apart.
THEOREM Overrun == Spec => []OverrunBounded
<1>1. IInv => OverrunBounded
  BY Parameters DEF IInv, TypeOK, ClockInv, OverrunBounded
<1> QED
  BY Invariance, <1>1, PTL
=============================================================================
