------------------------------ MODULE Transport ------------------------------
(***************************************************************************)
(* Calls made through one Client (or AsyncClient: the same loop, awaited)  *)
(* against one node.  Client._do builds the request once, sends it, turns  *)
(* a refusal into an exception, and resends what the retry policy lets it  *)
(* resend; Client._call reads the answer.                                  *)
(*                                                                         *)
(* Each element of Calls is one method call.  Calls of several threads or  *)
(* tasks interleave at every blocking point of _do: inside http.request    *)
(* and inside the sleep.  They share the connection pool and the node.     *)
(* The node is external: it may refuse a request, serve it, or serve it    *)
(* and still answer a failure, and an answer may come too late or never.   *)
(***************************************************************************)
EXTENDS Retry, Errors, Operations

CONSTANTS
    Calls,       \* the method calls, each made once
    OpsOf,       \* the operations each call may be for
    Refusals,    \* the responses outside 2xx the node gives
    Ambiguous,   \* the statuses that do not say whether the request landed
    Bodies,      \* the bodies of its 2xx answers
    OwnsHttp,    \* whether the client made its own connection pool
    NoOne,       \* no call holds the resource
    Others       \* somebody outside the model does

Responses ==
    [ status : Nat, body : {"envelope", "json", "shape", "text", "empty"}, type : WireTypes,
      header : RawHints, detail : RawHints ]

ASSUME TransportAssumption ==
    /\ OpsOf \in [Calls -> SUBSET AllOperations]
    /\ Refusals \subseteq { r \in Responses : r.status \notin 200..299 }
    /\ Bodies \subseteq {"json", "shape", "text", "empty"}
    /\ Ambiguous \subseteq Nat
    /\ OwnsHttp \in BOOLEAN
    /\ NoOne \notin Calls /\ Others \notin Calls /\ NoOne # Others

VARIABLES
    op,       \* what each call is for
    pc,       \* where in _do each call is
    attempt,  \* _do's counter
    timer,    \* ticks left of the sleep before the next attempt
    outcome,  \* what the caller gets
    closed,   \* the connection pool is closed
    net,      \* the calls whose last request travels or waits at the node
    resp,     \* the last response to reach each call
    holder,   \* who created the index, who started the running job
    landed,   \* history: how often the node served each call's request
    rested,   \* history: ticks slept since the last response
    slept     \* history: ticks slept in all

client == <<pc, attempt, timer, outcome>>
history == <<rested, slept>>
vars == <<op, client, closed, net, resp, holder, landed, history>>

-----------------------------------------------------------------------------
(* Responses and outcomes.                                                 *)

Response(status, body, type, header, detail) ==
    [status |-> status, body |-> body, type |-> type, header |-> header, detail |-> detail]

NoResponse == Response(0, "empty", "", Absent, Absent)
OK(body) == Response(200, body, "", Absent, Absent)
Conflicting(status, type) == Response(status, "envelope", type, Absent, Absent)

\* Slip: a redirect counts as success.
Success_NotAnError(r) == r.status \in 200..399

\* _raise_for_status lets it through.
Success(r) == r.status \in 200..299

Outcomes ==
    [ kind : {"pending", "value", "absent", "raised", "cancelled"},
      class : GnarlClasses \cup {"", "ParseError", "RuntimeError"},
      type : WireTypes \cup {"transport_error", "invalid_response"}, status : Nat ]

\* What the caller sees: nothing yet, a value, index_exists' False, an
\* exception with the type and status it carries, or the end of its own task.
Outcome(kind, class, type, status) ==
    [kind |-> kind, class |-> class, type |-> type, status |-> status]

Pending == Outcome("pending", "", "", 0)
Value == Outcome("value", "", "", 0)
Absence == Outcome("absent", "", "", 0)
Cancelled == Outcome("cancelled", "", "", 0)
Raised(class, type, status) == Outcome("raised", class, type, status)
TransportError == Raised("GnarlError", "transport_error", 0)

\* Slip: index_exists takes every error of the node for absence.
ToCaller_AnyError(o, out) ==
    IF o.effect = "probe" /\ out.kind = "raised" /\ IsA(out.class, "GnarlError")
    THEN Absence
    ELSE out

\* index_exists answers False when it catches NotFound; every other
\* operation, and every other exception, passes through.
ToCaller(o, out) ==
    IF o.effect = "probe" /\ out.kind = "raised" /\ IsA(out.class, "NotFound")
    THEN Absence
    ELSE out

\* How _decode and the call's parse read a 2xx answer.  What a parse raises
\* on another shape (pydantic's error, a KeyError, a TypeError) is not the
\* client's own exception.
Decoded(o, r) ==
    IF o.parse # "none" /\ r.body = "text"
    THEN Raised("GnarlError", "invalid_response", r.status)
    ELSE IF o.parse = "model" /\ r.body # "json" THEN Raised("ParseError", "", 0)
    ELSE Value

-----------------------------------------------------------------------------
Init ==
    /\ op \in [Calls -> AllOperations] /\ \A c \in Calls : op[c] \in OpsOf[c]
    /\ pc = [c \in Calls |-> "idle"]
    /\ attempt = [c \in Calls |-> 0]
    /\ timer = [c \in Calls |-> 0]
    /\ outcome = [c \in Calls |-> Pending]
    /\ closed = FALSE
    /\ net = {}
    /\ resp = [c \in Calls |-> NoResponse]
    /\ holder \in [{"index", "job"} -> {NoOne, Others}]
    /\ landed = [c \in Calls |-> 0]
    /\ rested = [c \in Calls |-> 0]
    /\ slept = [c \in Calls |-> 0]

Finish(c, out) ==
    /\ pc' = [pc EXCEPT ![c] = "done"]
    /\ outcome' = [outcome EXCEPT ![c] = ToCaller(op[c], out)]

\* The method is called: the body is encoded and the policy chosen, once.
Begin(c) ==
    /\ pc[c] = "idle"
    /\ pc' = [pc EXCEPT ![c] = "send"]
    /\ UNCHANGED <<op, attempt, timer, outcome, closed, net, resp, holder, landed, history>>

\* Slip: the attempts are not counted.
Send_Uncounted(c) ==
    /\ pc[c] = "send"
    /\ ~closed
    /\ pc' = [pc EXCEPT ![c] = "await"]
    /\ net' = net \cup {c}
    /\ resp' = [resp EXCEPT ![c] = NoResponse]
    /\ UNCHANGED <<op, attempt, timer, outcome, closed, holder, landed, history>>

\* attempt += 1 and the request leaves.
Send(c) ==
    /\ pc[c] = "send"
    /\ ~closed
    /\ attempt' = [attempt EXCEPT ![c] = @ + 1]
    /\ pc' = [pc EXCEPT ![c] = "await"]
    /\ net' = net \cup {c}
    /\ resp' = [resp EXCEPT ![c] = NoResponse]
    /\ UNCHANGED <<op, timer, outcome, closed, holder, landed, history>>

\* No connection: an httpx.HTTPError, raised whatever the policy.
CannotConnect(c) ==
    /\ pc[c] = "send"
    /\ ~closed
    /\ attempt' = [attempt EXCEPT ![c] = @ + 1]
    /\ Finish(c, TransportError)
    /\ UNCHANGED <<op, timer, closed, net, resp, holder, landed, history>>

\* httpx refuses to send through a closed pool, with a RuntimeError that is
\* not an httpx.HTTPError.
SendClosed(c) ==
    /\ pc[c] = "send"
    /\ closed
    /\ attempt' = [attempt EXCEPT ![c] = @ + 1]
    /\ Finish(c, Raised("RuntimeError", "", 0))
    /\ UNCHANGED <<op, timer, closed, net, resp, holder, landed, history>>

\* A timeout or a broken connection while the answer is awaited.  The request
\* may still be on its way to the node.
GiveUp(c) ==
    /\ pc[c] = "await"
    /\ Finish(c, TransportError)
    /\ UNCHANGED <<op, attempt, timer, closed, net, resp, holder, landed, history>>

\* The task awaiting AsyncClient._do is cancelled, by asyncio.timeout or its
\* owner, at one of its two awaits.  The request is not recalled.
Cancel(c) ==
    /\ pc[c] \in {"await", "sleep"}
    /\ Finish(c, Cancelled)
    /\ timer' = [timer EXCEPT ![c] = 0]
    /\ UNCHANGED <<op, attempt, closed, net, resp, holder, landed, history>>

-----------------------------------------------------------------------------
(* A response is back: the rest of the loop body.                          *)

Answered(c) == pc[c] = "await" /\ resp[c] # NoResponse

\* retry.delay, or None when the operation may not be repeated.
Wait(c) ==
    IF IsIdempotent(op[c]) THEN Delay(attempt[c], error_from_response(resp[c])) ELSE None

Return(c) ==
    /\ Answered(c)
    /\ Success(resp[c])
    /\ Finish(c, Decoded(op[c], resp[c]))
    /\ UNCHANGED <<op, attempt, timer, closed, net, resp, holder, landed, history>>

Raise(c) ==
    /\ Answered(c)
    /\ ~Success(resp[c])
    /\ Wait(c) = None
    /\ LET err == error_from_response(resp[c])
       IN  Finish(c, Raised(err.class, err.type, err.status))
    /\ UNCHANGED <<op, attempt, timer, closed, net, resp, holder, landed, history>>

Sleep(c) ==
    /\ Answered(c)
    /\ ~Success(resp[c])
    /\ Wait(c) # None
    /\ pc' = [pc EXCEPT ![c] = "sleep"]
    /\ timer' = [timer EXCEPT ![c] = Wait(c)]
    /\ rested' = [rested EXCEPT ![c] = 0]
    /\ UNCHANGED <<op, attempt, outcome, closed, net, resp, holder, landed, slept>>

\* Slip: the sleeper wakes one tick after the last one.
Wake_OffByOne(c) ==
    /\ pc[c] = "sleep"
    /\ timer[c] < 0
    /\ pc' = [pc EXCEPT ![c] = "send"]
    /\ UNCHANGED <<op, attempt, timer, outcome, closed, net, resp, holder, landed, history>>

\* The sleep is over: back to the top of the loop.
Wake(c) ==
    /\ pc[c] = "sleep"
    /\ timer[c] = 0
    /\ pc' = [pc EXCEPT ![c] = "send"]
    /\ UNCHANGED <<op, attempt, timer, outcome, closed, net, resp, holder, landed, history>>

\* A tick passes for every sleeper at once.
Tick ==
    LET sleeping == { c \in Calls : pc[c] = "sleep" /\ timer[c] > 0 }
        advance(f, by) == [ c \in Calls |-> IF c \in sleeping THEN f[c] + by ELSE f[c] ]
    IN  /\ sleeping # {}
        /\ timer' = advance(timer, -1)
        /\ rested' = advance(rested, 1)
        /\ slept' = advance(slept, 1)
        /\ UNCHANGED <<op, pc, attempt, outcome, closed, net, resp, holder, landed>>

\* Client.close by any thread, at any time.
Close ==
    /\ OwnsHttp
    /\ ~closed
    /\ closed' = TRUE
    /\ UNCHANGED <<op, client, net, resp, holder, landed, history>>

-----------------------------------------------------------------------------
(* The node.                                                               *)

\* The request leaves the network; its answer reaches the call if the call is
\* still waiting for it.
Answer(c, r) ==
    /\ net' = net \ {c}
    /\ resp' = IF pc[c] = "await" THEN [resp EXCEPT ![c] = r] ELSE resp

\* The node's own refusal of an operation that excludes another.
Objection(c) ==
    CASE op[c].effect = "create" /\ holder["index"] # NoOne
            -> {Conflicting(409, "index_already_exists")}
      [] op[c].effect = "start" /\ holder["job"] # NoOne
            -> {Conflicting(409, "job_in_progress")}
      [] op[c].effect \in {"delete", "probe"} /\ holder["index"] = NoOne
            -> {Conflicting(404, "index_not_found")}
      [] OTHER -> {}

Effect(c) ==
    CASE op[c].effect = "create" -> [holder EXCEPT !["index"] = c]
      [] op[c].effect = "delete" -> [holder EXCEPT !["index"] = NoOne]
      [] op[c].effect = "start"  -> [holder EXCEPT !["job"] = c]
      [] OTHER                   -> holder

\* Refused before anything was done: the rate limiter, a proxy, a check.
NodeRefuses(c) ==
    /\ c \in net
    /\ \E r \in Refusals \cup Objection(c) : Answer(c, r)
    /\ UNCHANGED <<op, client, closed, holder, landed, history>>

\* Served.  The answer says so, or is one of the statuses that leave it open.
NodeServes(c) ==
    /\ c \in net
    /\ Objection(c) = {}
    /\ landed' = [landed EXCEPT ![c] = @ + 1]
    /\ holder' = Effect(c)
    /\ \E r \in { OK(b) : b \in Bodies } \cup { x \in Refusals : x.status \in Ambiguous } :
           Answer(c, r)
    /\ UNCHANGED <<op, client, closed, history>>

\* A running job ends by itself.
JobEnds ==
    /\ holder["job"] # NoOne
    /\ holder' = [holder EXCEPT !["job"] = NoOne]
    /\ UNCHANGED <<op, client, closed, net, resp, landed, history>>

-----------------------------------------------------------------------------
CallStep(c) ==
    \/ Begin(c) \/ Send(c) \/ CannotConnect(c) \/ SendClosed(c) \/ GiveUp(c)
    \/ Cancel(c) \/ Return(c) \/ Raise(c) \/ Sleep(c) \/ Wake(c)

NodeStep(c) == NodeRefuses(c) \/ NodeServes(c)

Next == (\E c \in Calls : CallStep(c) \/ NodeStep(c)) \/ Tick \/ Close \/ JobEnds

Spec == Init /\ [][Next]_vars

\* Every blocking point ends.  http.request returns or times out (httpx's
\* timeout is on unless the caller replaced it), the sleep is finite, and a
\* thread or task that can run does.  Nothing is asked of the node, and
\* nothing makes anybody start a call or close the client.
Fairness ==
    /\ \A c \in Calls : /\ WF_vars(Send(c) \/ CannotConnect(c) \/ SendClosed(c))
                        /\ WF_vars(GiveUp(c) \/ Return(c) \/ Raise(c) \/ Sleep(c))
                        /\ WF_vars(Wake(c))
    /\ WF_vars(Tick)

FairSpec == Spec /\ Fairness

-----------------------------------------------------------------------------
(* Properties.                                                             *)

Started(c) == pc[c] # "idle"

\* The ranges of the variables; net holds only calls that have sent.
TypeOK ==
    /\ op \in [Calls -> AllOperations]
    /\ pc \in [Calls -> {"idle", "send", "await", "sleep", "done"}]
    /\ attempt \in [Calls -> 0..Attempts]
    /\ timer \in [Calls -> 0..MaxDelay]
    /\ outcome \in [Calls -> Outcomes]
    /\ closed \in BOOLEAN
    /\ net \subseteq Calls
    /\ resp \in [Calls -> Responses]
    /\ holder \in [{"index", "job"} -> Calls \cup {NoOne, Others}]
    /\ landed \in [Calls -> 0..Attempts]
    /\ rested \in [Calls -> 0..MaxDelay]
    /\ slept \in [Calls -> Nat]

\* An operation that makes something new each time it is served (a document
\* without an id, a memory) is served at most once per call, whatever is
\* refused, lost or late: the client never sends it twice.
NoDuplicateWrite == \A c \in Calls : op[c].effect = "append" => landed[c] <= 1

\* When such a write raises an error whose status says it was refused, the
\* node did not do it.  Only the open statuses, a transport error and an
\* unreadable 2xx leave the caller in doubt.
InDoubt(out) ==
    out.kind = "raised" /\ out.status \in Ambiguous \cup 200..299 \cup {0}

RefusedMeansNotDone ==
    \A c \in Calls : /\ op[c].effect = "append"
                     /\ outcome[c].kind = "raised"
                     /\ ~InDoubt(outcome[c])
                     => landed[c] = 0

\* A method that returns has had its request served, by an attempt of its
\* own: no refusal, redirect or lost answer reads as success.
ReturnedMeansServed ==
    \A c \in Calls : outcome[c].kind = "value" => landed[c] >= 1

\* All the sleeps of one call together stay within the policy: at most
\* Attempts - 1 of them, none longer than MaxDelay.
TotalWaitBounded == \A c \in Calls : slept[c] <= (Attempts - 1) * MaxDelay

\* index_exists says False only on a 404 that answers its last attempt: no
\* lost answer, closed pool, redirect or status of "not now" reads as absence
\* (client.py, "absent" against "could not tell").
AbsentMeansNotFound ==
    \A c \in Calls : outcome[c].kind = "absent" => resp[c].status = 404

\* The ticks the node asked for in a form the client reads: the header's
\* number, or the detail's when there is no such header.
Usable(raw) == raw.form = "number" /\ raw.ticks >= 0

AskedInNumbers(r) ==
    IF Usable(r.header) THEN r.header.ticks
    ELSE IF r.body = "envelope" /\ Usable(r.detail) THEN r.detail.ticks
    ELSE 0

Resent(c) == attempt[c] > 0 /\ attempt'[c] > attempt[c]

\* A request is not sent again before the time the node asked for in numbers
\* has passed ("honoured exactly"), and so never at all past the cap.
NumberedHintHonoured ==
    [][\A c \in Calls : Resent(c) => rested[c] >= AskedInNumbers(resp[c])]_vars

\* The order in which one attempt goes through the loop.
Stage == [idle |-> 0, await |-> 1, sleep |-> 2, send |-> 3, done |-> 4]

\* A call begins another attempt, goes further in this one, or has less to sleep.
Forward(c) ==
    /\ pc[c] # "done"
    /\ \/ attempt'[c] > attempt[c]
       \/ attempt'[c] = attempt[c] /\ Stage[pc'[c]] > Stage[pc[c]]
       \/ attempt'[c] = attempt[c] /\ pc'[c] = pc[c] /\ timer'[c] < timer[c]

\* The loop never comes back to where it was, neither by its own steps nor by
\* those of the node or of another call, and what a caller was told never
\* changes.  As attempts and sleeps are bounded, no call goes on for ever.
NeverBack ==
    [][\A c \in Calls :
          UNCHANGED <<pc[c], attempt[c], timer[c], outcome[c]>> \/ Forward(c)]_vars

\* README, Errors: every failure is a GnarlError.
EveryFailureIsGnarlError ==
    \A c \in Calls : outcome[c].kind = "raised" => outcome[c].class \in GnarlClasses

\* A DELETE is "safe to send twice" (_wire.py, Retry): when the node serves one
\* again, it takes away nothing that the first time did not.
ResentDeleteIsHarmless ==
    [][\A c \in Calls : op[c].effect = "delete" /\ landed[c] > 0 /\ landed'[c] > landed[c]
                        => holder' = holder]_vars

\* Every call that starts comes back, with a value or an exception.
EveryCallReturns == \A c \in Calls : Started(c) ~> pc[c] = "done"
=============================================================================
