------------------------------ MODULE JobWait -------------------------------
(***************************************************************************)
(* Snapshots.wait (and the async one, the same loop): poll a snapshot job  *)
(* until it is settled or the timeout is over.  Each poll is one call of   *)
(* Transport, its resends included, and takes up to PollTime.  The job     *)
(* runs at the node and ends, or is ended by a restart of the node, while  *)
(* a poll travels or the caller sleeps.                                    *)
(***************************************************************************)
EXTENDS Integers

CONSTANTS
    Timeouts,   \* the values of timeout
    Intervals,  \* the values of interval
    PollTime,   \* the longest a poll takes
    MaxTime     \* bound: where the clock stops

ASSUME WaitAssumption ==
    /\ Timeouts \subseteq Nat
    /\ Intervals \subseteq Nat
    /\ PollTime \in Nat
    /\ \A t \in Timeouts, i \in Intervals : t + i + PollTime <= MaxTime
    /\ MaxTime \in Nat

VARIABLES
    now,       \* time.monotonic
    job,       \* the job's state at the node
    endedAt,   \* history: when it left "running"
    deadline,  \* when the timeout is over
    interval,
    raise_on_failure,
    pc,        \* where the loop is
    askedAt,   \* when the last poll began
    answer,    \* the state it brought back
    wakeAt,    \* when the sleep ends
    outcome    \* what the caller gets: the state of the returned job, or an error

arguments == <<deadline, interval, raise_on_failure>>
node == <<job, endedAt>>
loop == <<pc, askedAt, answer, wakeAt, outcome>>
vars == <<now, node, arguments, loop>>

Ended == {"succeeded", "failed"}
Raised == {"JobFailed", "job_timeout", "error"}
Nothing == "nothing"

-----------------------------------------------------------------------------
Init ==
    /\ now = 0
    /\ job \in {"running"} \cup Ended
    /\ endedAt = 0
    /\ deadline \in Timeouts
    /\ interval \in Intervals
    /\ raise_on_failure \in BOOLEAN
    /\ pc = "poll"
    /\ askedAt = 0
    /\ answer = Nothing
    /\ wakeAt = 0
    /\ outcome = "pending"

\* self.job(job_id) begins.
Poll ==
    /\ pc = "poll"
    /\ pc' = "await"
    /\ askedAt' = now
    /\ answer' = Nothing
    /\ UNCHANGED <<now, node, arguments, wakeAt, outcome>>

\* The poll raises what the transport raised; wait does not catch it.
PollFails ==
    /\ pc = "await"
    /\ pc' = "done"
    /\ outcome' = "error"
    /\ UNCHANGED <<now, node, arguments, askedAt, answer, wakeAt>>

\* Slip: a job without a state counts as settled.
IsSettled_NoState(state) == state # "running"

\* _settled does not return False.
IsSettled(state) == state \notin {"running", "none"}

\* Slip: the timeout starts again with each poll.
Expired_Restarted == now >= askedAt + deadline

\* Slip: one more round at the deadline itself.
Expired_Late == now > deadline

Expired == now >= deadline

Settle(state) ==
    /\ pc' = "done"
    /\ outcome' = IF state = "failed" /\ raise_on_failure THEN "JobFailed" ELSE state
    /\ UNCHANGED wakeAt

TimeOut ==
    /\ pc' = "done"
    /\ outcome' = "job_timeout"
    /\ UNCHANGED wakeAt

\* time.sleep(interval), which the deadline does not shorten.
Rest ==
    /\ pc' = "sleep"
    /\ wakeAt' = now + interval
    /\ UNCHANGED outcome

\* Slip: look at the clock before the answer.
Conclude_ClockFirst(state) ==
    IF Expired THEN TimeOut ELSE IF IsSettled(state) THEN Settle(state) ELSE Rest

\* What the loop does with the state a poll brought back.
Conclude(state) ==
    IF IsSettled(state) THEN Settle(state) ELSE IF Expired THEN TimeOut ELSE Rest

\* The answer is back.
Receive ==
    /\ pc = "await"
    /\ answer # Nothing
    /\ Conclude(answer)
    /\ UNCHANGED <<now, node, arguments, askedAt, answer>>

Wake ==
    /\ pc = "sleep"
    /\ now >= wakeAt
    /\ pc' = "poll"
    /\ UNCHANGED <<now, node, arguments, askedAt, answer, wakeAt, outcome>>

\* A poll takes no longer than PollTime and a sleep no longer than asked;
\* between the two the loop takes no time.
Tick ==
    /\ \/ pc = "await" /\ now < askedAt + PollTime
       \/ pc = "sleep" /\ now < wakeAt
    /\ now < MaxTime
    /\ now' = now + 1
    /\ UNCHANGED <<node, arguments, loop>>

-----------------------------------------------------------------------------
(* The node.                                                               *)

\* It answers with the job as it is then; the state may be missing while the
\* job runs.
NodeAnswers ==
    /\ pc = "await"
    /\ answer = Nothing
    /\ answer' \in IF job = "running" THEN {"running", "none"} ELSE {job}
    /\ UNCHANGED <<now, node, arguments, pc, askedAt, wakeAt, outcome>>

\* The job ends, or the node restarts and reopens it as failed.
JobEnds ==
    /\ job = "running"
    /\ pc # "done"
    /\ job' \in Ended
    /\ endedAt' = now
    /\ UNCHANGED <<now, arguments, loop>>

-----------------------------------------------------------------------------
Next == Poll \/ PollFails \/ Receive \/ Wake \/ Tick \/ NodeAnswers \/ JobEnds

Spec == Init /\ [][Next]_vars

\* A poll comes back (see Transport), and the thread or task that can run
\* does.  The clock runs however fast the polls are: without an interval each
\* may come back at once, but not endlessly many of them in the same tick.
\* Nothing makes the job end.
FairSpec ==
    /\ Spec
    /\ WF_vars(Poll \/ Wake)
    /\ WF_vars(PollFails \/ Receive)
    /\ SF_vars(Tick)

-----------------------------------------------------------------------------
(* Properties.                                                             *)

\* The ranges of the variables; a job is returned in an ended state only.
TypeOK ==
    /\ now \in 0..MaxTime /\ endedAt \in 0..now /\ askedAt \in 0..now
    /\ job \in {"running"} \cup Ended
    /\ deadline \in Timeouts /\ interval \in Intervals /\ raise_on_failure \in BOOLEAN
    /\ pc \in {"poll", "await", "sleep", "done"}
    /\ answer \in {Nothing, "running", "none"} \cup Ended
    /\ wakeAt \in Nat
    /\ outcome \in {"pending"} \cup Raised \cup Ended

\* What wait says of the job is so at the node when it says it, however old
\* the answer is: a returned state is the job's, and JobFailed is raised for
\* a failed job alone, and never when it was declined.
VerdictIsTrue ==
    /\ outcome \notin {"pending"} \cup Raised => job = outcome /\ job # "running"
    /\ outcome = "JobFailed" => job = "failed" /\ raise_on_failure
    /\ outcome = "failed" => ~raise_on_failure

\* A job that ended more than one poll's time before the deadline is never
\* reported as timed out, whatever the interval.
SettledInTimeIsReported ==
    outcome = "job_timeout" /\ job # "running" => endedAt >= deadline - PollTime

\* The caller waits past the deadline for less than one interval and one poll;
\* only the first poll may take its whole time whatever the timeout, 0 included.
OverrunBounded ==
    pc # "done" => now <= PollTime \/ now < deadline + interval + PollTime

\* Every wait ends, even if the job never does.
WaitEnds == <>(pc = "done")
=============================================================================
