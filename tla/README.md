# Verification of the Gnarl Python client

TLA+ models, TLC runs and TLAPS proofs for the Python client in `src/gnarl`.
The client is a thin layer over HTTP, but its loops decide things a unit test
hardly reaches: which requests are sent again, when an iteration over a result
set is complete, when a listing is, when a wait for a job is over, what a
chunked bulk tells its caller, and which node a client talks to. Those are
modelled in full, and so is the way of every option from a method's arguments
to the node; the rest is listed below with the reason it is left out.

## Inventory

| Component | State | Operations | What is hard | What makes it correct |
|---|---|---|---|---|
| Retry policy (`_wire.py`, `Retry`, `_is_idempotent`) | none; a frozen dataclass | `delay`, validation | hints, caps and limits at their boundary | never more than `attempts`, never past `max_delay`, never before a hint |
| Errors (`errors.py`) | none; tables | `error_from_response` | untyped bodies, unknown types, two places for a hint | the type decides the class, a status decides only when there is no type |
| Transport (`client.py`, `_do`, `_call`, sync and async) | per call: attempt, sleep, last response; shared: connection pool | every method of the client | concurrent calls, lost and late answers, refusals that may have landed, `close` and cancellation in the middle | no duplicate write, no value without effect, every call returns |
| Operations (`client.py`, `memory.py`, `namespaces.py`, `snapshots.py`) | none; a `_Call` each | one request each | which are declared safe to repeat | what is repeated is harmless |
| Paged search (`iter_search`) | cursor, page in hand | a generator | writes between pages, claims that miss a page, a node that ignores `search_after` | order, no repetition, completeness, an end |
| Waiting for a job (`Snapshots.wait`) | deadline | poll, sleep | a job that ends between an answer and its use; a poll that outlives the deadline | a true verdict, no false timeout, bounded overrun |
| Chunked bulk (`bulk_chunked`, `failed_items`) | chunk, answers | read, send, merge | failures of one item, of one chunk, lost answers, reruns | nothing lost silently, nothing twice, the weakest `ack` |
| Listings (`list_indexes`, `Namespaces.list`) | cursor, list, floor mark | follow `next_after` | entries that come and go between pages; short pages in the middle; peers that miss one page | each name once; whole, or marked a floor |
| Discovery (`_resolve_addr`, `_read_endpoint`, `_resolve_token`) | base URL and token, fixed at construction | one lookup, a file at a time | nodes that start, stop and crash between two files; records left behind | the caller's word stands, a node that is there is found, a file never sends plaintext over a network |
| Request bodies (`_search_body`, `_json_body`, `_create`, ...) | none | build, validate, dump | options dropped when false, or by the generated model; defaults that stand in for the node's | the node does what was asked |
| Query builders, entitlement, generated models | none | pure construction and parsing | | |

A component calls the next only through `_do` / `_call`: `iter_search`, `wait`
and `bulk_chunked` make one call of the transport per step and see its value or
its exception. The sync and the async client share `_wire.py` and differ only
in `await`. Calls on one client share the connection pool and nothing else.
`PROJECT.json` lists the hazards of each component at the line where they bite.

## Modules

| Module | Models | Used by |
|---|---|---|
| `Retry` | `Retry.delay`, `_is_idempotent` | `Transport` |
| `Errors` | `error_from_response`, hints, exception classes | `Transport` |
| `Operations` | the table of all requests: method, declared idempotency, how the answer is read, what the node does | `Transport` |
| `Transport` | `_do` and `_call` of both clients, `close`, cancellation, the node and the network | |
| `RemoteCall` | abstract: what a method call promises | `TransportRefinement` |
| `TransportRefinement` | the refinement mapping from `Transport` to `RemoteCall` | `MCTransport` |
| `IterSearch` | `iter_search`, `_cursor_of`, `_check_complete` | `MCIterSearch` |
| `JobWait` | `Snapshots.wait`, `_settled`, `_timed_out` | `MCJobWait` |
| `BulkChunked` | `bulk_chunked`, `_chunks`, `_merge_bulk`, `failed_items` | `MCBulkChunked` |
| `Listing` | `list_indexes`, `Namespaces.list`, the nodes' catalogs | `MCListing` |
| `Scan` | abstract: one ordered reading of a changing catalog | `Listing` (`INSTANCE`) |
| `Discovery` | `_resolve_addr`, `_discover_local`, `_read_endpoint`, `_resolve_token`, the nodes of the machine | `MCDiscovery` |
| `Requests` | the options of 18 methods, the generated request models, `_json_body`, the node's defaults and limits | `MCRequests` |
| `TransportProofs`, `OutcomeProofs`, `IterSearchProofs`, `JobWaitProofs`, `ListingProofs`, `DiscoveryProofs`, `BulkProofs`, `RequestsProofs` | theorems | |
| `MC...` | values of the constants for TLC | the `.cfg` files |

An operator whose comment begins with *Slip* is a plausible bug of the
definition below it. The specification does not use it; `PROJECT.json` pairs it
with the property that finds it ("mutants").

### Transport

Each element of `Calls` is one method call. `pc` is where it stands in `_do`:
`idle`, `send` (top of the loop), `await` (inside `http.request`), `sleep`
(inside `_sleep`), `done`. `attempt` is the code's counter and `timer` what is
left of the sleep. `Return`, `Raise` and `Sleep` are the three ways the loop
body goes on with a response, `CannotConnect` and `GiveUp` the two moments of an
`httpx.HTTPError`, `SendClosed` the `RuntimeError` of a closed pool, `Cancel`
the end of an async caller's task. `outcome` is what the caller gets, after
`index_exists` has turned `NotFound` into `False`.

The node is external. It may refuse a request without doing anything
(`NodeRefuses`), or do it (`NodeServes`) and answer 2xx or one of the statuses
in `Ambiguous` that leave it open; `openapi.yaml:2230-2233` speaks of "Ambiguous
/ 503 / partial-accept outcomes", so the instances put 500 and 503 there. A
request whose caller gave up stays in `net` and may be served later, or never.
A request body is abstracted to the operation's effect: `read`, `append`
(something new each time: a document without id, a memory), `set`, `create`,
`delete`, `probe`, `start` (a snapshot job).

Two details are left out: the text of errors, and the redirects and retries
inside httpx (it follows none by default).

### IterSearch

A row is a place in the total order that the sort values and the `_id`
tiebreaker make; `0` is the code's `cursor = None`. `Search` is one
`self.search`, with `_check_complete` inside it; `Yield` gives the consumer one
hit, because the generator is suspended there and the index changes meanwhile;
`NextCursor` is `_cursor_of` and the end of the loop. The node answers from the
claims it reaches with the first `page_size` matching rows. It may report a
missed claim by the `partial` flag or by the count of served claims, and either
may be wrong, but not both: that is what `_check_complete` relies on. The node
may drop sort values, or ignore `search_after` altogether (`obeys`). `Insert`
and `Remove` are other clients of the index; nothing bounds how often they come.

An iteration need not end, even against a node that follows `search_after`: rows
may be inserted beyond the cursor for ever. `CompleteOrObedientEnds` says
when it does. If the node follows the cursor, it is enough that insertions
beyond the cursor stop at some time (`QuietAhead`); writers behind it and
removals may go on. If it does not, the caller has to insist on complete
answers and the index has to come to rest (`Quiet`): the progress check
compares two cursors in a row, and a row that is written and removed in turn
makes them differ for ever.

### JobWait

`now` counts ticks of `time.monotonic`. A poll takes up to `PollTime`, the time
of one call of `Transport` with its resends, and the node answers with the job's
state at some moment within it. A sleep takes exactly `interval`, which may
be 0; what the scheduler adds to it is left out. `JobEnds` is also a restart of the node,
which reopens a running job as `failed`. A running job may come back without a
state (`none`).

### BulkChunked

The documents are numbered. `Read` and `Exhausted` are the generator `_chunks`,
one document at a time; `Answered`, `Failed` and `BadDocument` the ways one
`self.bulk` ends. After an exception, or after a merged result that has failed
items, the caller may start again over the same documents (`Rerun`), while a
chunk that was reported as failed lands (`LandsLate`). An item the node reports
as written is stored; one it reports as failed may be stored all the same, as a
partial accept is reported "as an error for every item" (`openapi.yaml`). The
node sets `errors` when an item failed, as `openapi.yaml` says it does.

### Listing

A name is its place in the order of the listing. `Page` is one turn of either
loop: the page that comes, the entries that join `out`, and the loop that goes
on with the new cursor or returns. Indexes are in the catalog of the node;
namespaces are each recorded by one peer, and a page merges the peers reached
for it and is marked `partial` when one is missing, a mark the loop keeps. Names
of the system are cut with the others and hidden afterwards, as `openapi.yaml`
has it, so a page may be short or empty with a `next_after`. `PageFails` is an
exception of `Transport`. The node sends the cursor of its last entry, or none;
a node that repeats a cursor keeps the loop going, for neither loop looks
whether it moves, and is not in the model.

`Scan` is what a listing is to its caller. `Names`, `present` and `stable` lose
the hidden names on the way; the list is what was given.

### Discovery

The client reads the candidate files one after the other (`ReadEndpoint`) after
the arguments and the environment (`UseConfigured`, `LookAround`), while nodes
bind a port (`Start`), write their record, remove it and stop, or crash and
leave it, and other programs take free ports or disturb a file. An address is a
scheme, a host and a port, each from a small set with an empty member; a file
that is missing, unreadable or no record is `Blank`. `Send` shows where a
request goes, with which token, and who listens there. Discovery decides once:
nothing makes a built client look again.

`standing` has the nodes that were up with their record in place when the
client began to look and still are. Of the others nothing can be promised: a
record may be older than its node.

### Requests

A call is a function from the options that are not `None` to numbers, 0 for
every false value, 2 (`Malformed`) for a string of a form the node refuses. `Build` is the method: its own checks and which options it
drops when they are false; `Validate` the generated model, which refuses values
out of a field's range and drops fields it does not declare; `Send` the dump
and the node, which puts its own defaults for what is missing. `Table` has one
row for each method that takes options, `Together` says which of them are given
together and `Tried` with which values. The fields and ranges come from
`_models.py` (two query strings check theirs in the method), the defaults and
limits of the node from `openapi.yaml`.

The node does one of three things with a value. It takes it (`Accepted`); it
refuses it; or it brings it into range (`Adjusted`): a `k` of `recall` above 100,
`max_num_segments` below 1, a `limit` above 10000, a deadline beyond its own
`Budget`. `PagesWell` is what it asks of a search as a whole: a cursor comes with
a sort, and without one `from + size` stays within 10000. `Ceiling` is how many
copies the node can hold.

Where the client and the node differ on a value, the model says so by name.
`Stricter` has the values that the client refuses and the node would bring into
range: `k`, `max_num_segments` and `limit` (a long deadline passes). `LeftToNode`
has those that the client sends and the node refuses: a `replication_factor`
above the ceiling, which no client can know; `wait_for_timeout_ms` below 1,
and `wait_for` and `prefix` of a wrong form, which go out unchecked. The
joint limits of a page, and a snapshot of an empty index name beside no
namespace, are left to the node as well.

## Runs

| Run | Instance | Shows |
|---|---|---|
| `transport_safety` | two calls, a writer (document without id, or `create_index`) and a reader or remover; 3 attempts; refusals with a numeric hint, without one, and a redirect | no duplicate write, the total wait within the policy, no resend before a numeric hint, no step back in the loop |
| `transport_promise` | one call of every operation; 3 attempts; hints below, at and above the cap; every kind of body; `close` and cancellation at any point | what a value, a refusal and `False` from `index_exists` mean; `Transport` implements `RemoteCall`; every call returns |
| `iteration` | 4 rows alternating over 2 claims, pages of 2, any number of writes, with and without `require_complete`, obedient or not | order, no repetition, completeness, an end once the writers let it |
| `job_wait` | timeouts 0, 2, 5, intervals 0, 1, 4, polls of up to 2 | truth of the verdict, no false timeout, bounded overrun, an end |
| `bulk_chunked` | 0, 1, 3 or 4 documents, chunks of 2, 2 runs, with and without ids, failed items stored or not | nothing lost silently, nothing written twice, the merged `ack` |
| `listing` | 5 names of which 2 are hidden, pages of 2, 2 peers, 2 writes, indexes and namespaces | each name once, whole unless marked, an end, refinement of `Scan` |
| `discovery` | 2 directories, 2 ports, 4 events, 15 ways of being told and 3 of looking | the caller decides, plain HTTP stays local, a standing node answers |
| `requests` | 18 methods, every pair of options beside the required ones and every choice of `size`, `from`, `sort` and `search_after`, values below, at and above each bound | what is asked is done, and nothing else; what is out of range fails here, but for what is left to the node |

The runs below end in a violation: the code does not do what a docstring, a
comment or the README says. `PROJECT.json` quotes the line ("findings").

| Run | The code | The claim |
|---|---|---|
| `unexpected_body` | a 2xx of another shape raises pydantic's error | every failure is a `GnarlError` |
| `resent_delete` | a resent DELETE removes what another caller created in between | safe to send twice |
| `earlier_chunks` | item failures of earlier chunks are lost when a later chunk raises | the chunks before it have been written |
| `recall_clamp` | `recall(k=101)` raises pydantic's error | a `k` above 100 is clamped, not refused |

Some things are the case and are no violation, because nothing in the
repository says otherwise. A `Retry-After` in HTTP's date form counts as no
hint, which is why `NumberedHintHonoured` speaks of numbers. A `create_index`
that is resent may meet the index its first attempt made and raise
`AlreadyExists`. `index_exists` takes every 404 for absence, a proxy's and
`route_not_found` included: `AbsentMeansNotFound` promises a 404 and no more.
The progress check of `iter_search` compares two cursors in a row, so a node
that ignores `search_after` may alternate between two and keep a caller going:
one that accepts partial pages, when pages come from other claims in turn, and
any caller, when writers change the last row of the page in turn.
`CompleteOrObedientEnds` claims an end in neither case. A `create_index` whose
resend lands after another caller's delete makes the index again; the run
`resent_delete` is about the DELETE alone.

### Bounds

- Two calls are enough for interleaving: calls share only the pool and the
  node, and every property but `ResentDeleteIsHarmless` speaks of one call. In
  `resent_delete` the second call is the one that creates the index anew. Three
  attempts make a first, a middle and a last one. `MaxDelay = 2` ticks with a
  backoff of 1 makes the doubling meet the cap; hints of 1, 2 and 3 are below,
  at and past it. A tick is half a second, the default backoff.
- Four rows and pages of two give a full page, a short one, an empty one and a
  page boundary with a claim on either side. `Rows` is the finite set of places
  a row can have; rows come and go at them without a bound. `given` counts to 2,
  meaning more than once.
- In `JobWait` the clock stops at `MaxTime`, which `WaitAssumption` puts past
  every possible end of a wait; no run reaches it.
- In `BulkChunked` the totals give no chunk, a short one, a full one with a rest
  and two full ones; two runs have one over what the first left behind, and the
  theorems hold of any number.
- `Listing`: five names and pages of two give full, short and empty pages, and
  hidden names at a page's end; with two writes a name can be deleted and come
  back behind or before the cursor.
- `Discovery`: two directories have an order; two ports let a port change
  hands; four events are a start, a crash, a restart elsewhere and another
  program on the old port. The events bound only what happens on the machine.
- `Requests`: three groups of options depend on each other: `index` and
  `namespace` of a snapshot, `sort` and `search_after` of a search, and its
  `from` and `size`, the latter unless there is a `search_after`. Every pair and
  every choice of the four options of a page is tried, and the theorems hold of
  any options together and any values. `Ceiling` and `Budget` are 1, with values
  on both sides.

`CHECK_DEADLOCK FALSE` is in every `.cfg` because each of these systems stops:
the calls return, the iteration, the listing or the wait ends, a client that
refuses its address is not built.

### Fairness

- `Transport`: `http.request` returns or times out (httpx's timeout is on unless
  the caller replaced the client), a sleep is finite, and a runnable thread or
  task runs. Nothing is asked of the node, and nobody has to start a call, close
  the client or cancel.
- `IterSearch`: each search returns or raises, by `EveryCallReturns`, and the
  consumer asks for the next hit or leaves. Writers owe nothing by fairness; that
  they let an iteration end is the hypothesis of the property (`QuietAhead`,
  `Quiet`), stated above.
- `Listing`: a call for a page returns or raises; writers owe nothing.
- `JobWait`: a poll comes back, the clock runs. The job need never end. The clock
  is strongly fair, because with an interval of 0 the loop enables and disables
  it over and over: each poll may come back at once, but not endlessly many
  within one tick.

## Proofs

TLAPS proves, for every value of the constants that the named assumptions allow:

| Theorem | Says | Rests on |
|---|---|---|
| `TransportProofs!Typing` | `TypeOK` | `IInv` |
| `TransportProofs!NoDuplicates` | `NoDuplicateWrite` | `SentInv`, `AppendsAreNotRepeatable` |
| `TransportProofs!HintHonoured` | `NumberedHintHonoured` | `TimerInv`, `WaitRange` |
| `TransportProofs!OnlyForward` | `NeverBack` | `IInv` |
| `IterSearchProofs!Typing` | `TypeOK` | `PageOfSize` |
| `IterSearchProofs!InOrder` | `GivenInOrder` | `OrderInv` |
| `IterSearchProofs!Completeness` | `CompleteMeansAll` | `CompleteInv`, `CompleteReachesAll` |
| `JobWaitProofs!Typing`, `Truth`, `InTime`, `Overrun` | `TypeOK`, `VerdictIsTrue`, `SettledInTimeIsReported`, `OverrunBounded` | `ClockInv`, `TruthInv` |
| `OutcomeProofs!WaitsBounded` | `TotalWaitBounded` | `SleptInv`, `SleepsAddUp` |
| `OutcomeProofs!ReturnsServed`, `RefusalsUndone` | `ReturnedMeansServed`, `RefusedMeansNotDone` | `HeardInv`, `ToldInv` |
| `OutcomeProofs!AbsenceFound` | `AbsentMeansNotFound`, if `NotFoundsAre404` | `AbsenceInv`, `NotFoundIs404` |
| `OutcomeProofs!Implements` | the safety part of `KeepsPromise` | `ToldInv`, `SentInv`, `EndingMaps` |
| `ListingProofs!Typing`, `NoRepeats`, `Wholeness` | `TypeOK`, `ListedOnce`, `WholeUnlessPartial` | `PageAdds` |
| `ListingProofs!OneReading` | `ReadsAsOneScan` | `PageAdds` |
| `DiscoveryProofs!Typing`, `Decided`, `Local` | `TypeOK`, `CallerDecides`, `ClearStaysLocal` | `BaseInv`, `RequestInv` |
| `DiscoveryProofs!Answered` | `StandingNodeAnswers` | `StandingInv`, `PortInv` |
| `BulkProofs!Typing`, `WeakestHolds`, `NoneTwice` | `TypeOK`, `AckHoldsForAll`, `NoDuplicates` | `AckInv`, `CopyInv` |
| `BulkProofs!ItemEach` | `OneItemEach` | `OrderInv`, `SaidInv`, `ResultInv`, `Flattened` |
| `BulkProofs!LossIsTold`, `Convergence` | `NoSilentLoss`, `Converges` | `SaidInv`, `StoredInv`, `FailedAreFound` |
| `RequestsProofs!Typing`, `OnlyTheAsked`, `RangesHold` | `TypeOK`, `NothingElseIsAsked`, `OutOfRangeFailsHere` | `PathInv`, `Rows` |
| `RequestsProofs!SameAsDirect` | `AskedIsDone` | `SameAnswer`, `ObjectionStands`, `RefusalStands` |

**Transport.** `NoDuplicateWrite` is not inductive: it says nothing of requests
that still travel. `IInv` is `TypeOK /\ PcInv /\ SentInv /\ TimerInv`. `SentInv`
bounds what the node served by what was sent, strictly while a request is in the
network, and says that only a repeatable operation is sent more than once;
`PcInv` keeps a request out of the network whenever the loop is about to send
again; `TimerInv` makes the ticks slept and the ticks to sleep add up to at
least the hint. That no appending operation is repeatable is read off the whole
operation table (`AppendsAreNotRepeatable`), so an operation added with a wrong
declaration breaks the proof. `OnlyForward` is what `EveryCallReturns` has in it
besides fairness: within the ranges of `TypeOK`, a loop that only goes forward
has finitely many steps to make.

**Outcomes.** On top of `IInv`, `HeardInv` says what an answer that reached a
call tells of its request: a 2xx that it was served, a status outside
`Ambiguous` that an append was not. It needs that a request in the network has
no answer yet, and `SentInv`, by which an append has one request only. `ToldInv`
carries both over to the outcome, and keeps the request of a settled call out
of the network; without that, a late landing would undo them. `SleptInv` counts
the ticks slept by the attempts made. The refinement then is a case per action:
the node serving a call is `TakeEffect`, every end `ReturnValue` or
`RaiseError`, the rest a stutter. `AbsenceFound` is about a node that sends the
types of `NotFound` with the status 404, as `openapi.yaml` lists them.

**IterSearch.** Order: what was given lies at or before the cursor or in the
used part of the page, and the page lies beyond the cursor. Completeness: of the
rows that were there all the time, those up to the cursor were given, those up
to a hit of the page were given or are still to be, and an empty page leaves
none. It needs that a report which `_check_complete` lets pass comes from all
claims (`CompleteReachesAll`); nothing in it needs the node to follow
`search_after`.

**JobWait.** `ClockInv` says where the clock may be at each point of the loop;
`TruthInv` that a job still running in an answer ended, if it did, after that
poll began, and that a poll which ends in a timeout began at most `PollTime`
before the deadline. The overrun is below one interval and one poll because
every poll but the first begins less than one interval past the deadline. With
timeout and interval both 0 that leaves no room for the one poll there is,
hence the property's exception for the first poll.

**Listing.** What was listed lies at or before the cursor, and in an unmarked
list every name that was there all the time is listed or lies beyond it
(`Swept`). A page is summed up in `PageAdds`: what it shows lies between the
two cursors, and it passes over nothing unless it is marked. The same lemma
gives the refinement.

**Discovery.** `StandingInv` says that the file of a node that stands is not
behind the place to read, or could not be used. It is inductive because a node
that stands keeps its record (`Withdraw`, `Exit` and `Disturb` take it out of
`standing`); `PortInv`, that a node which is not down listens on its port, turns
the record into an answer.

**BulkChunked.** `NoDuplicates` counts: without ids, the copies of a document
and the chunks under way that hold it are no more than the runs, and one less
while the current run has not sent it (`CopyInv`). The count moves from the one
to the other when a late chunk lands.

The merged items are `FlattenSeq` of the answers, which the library defines by
recursion over their number: a `CHOOSE` of a function that satisfies an
equation. That such a function exists and what its last value is would take an
induction over the answers. The loop of the program makes that induction
instead: `SaidInv` says of the answers so far that the function exists and that
its last value is what the node said of each document covered, in their order,
and an answer adds one step to both (`JoinedMore`, `Pieces`). `Flattened`
carries it over to `FlattenSeq`. `OrderInv` says that the chunk in hand is what
was read after the documents covered, `StoredInv` that what the node said it
stored is there.

**Requests.** A row of the table is good when it declares what its method sends
with the range the node has (`Declares`), and when what it drops for being false
was not meant or is what the node would assume (`Drops`). `Rows` looks at each of
the eighteen methods, so an option that is added with the wrong test, or a
model generated with another bound, breaks the proof of its row. From there on
nothing depends on the table: `PathInv` says how far the call is, and the answer
to what was sent is the answer to what was meant (`SameAnswer`), because they
differ in false values only that the node assumes; `ObjectionStands` and
`RefusalStands` say that the node would refuse what the client refuses, or the
client is stricter. The theorem has no hypothesis: where the client is stricter
is part of the property, and `recall_clamp` is the one such place where a
docstring promises otherwise.

`RetryAssumption` states that the powers of two used by the backoff are natural
numbers, because the provers know nothing of exponents; TLC evaluates it.

`RequestsAssumption` says that the methods are rows of the table, the values
integers, and the node's ceiling and budget natural numbers. `WaitAssumption` has
timeouts and intervals in the natural numbers, 0 included.

Only model-checked: the liveness properties `EveryCallReturns`,
`CompleteOrObedientEnds`, `WaitEnds` and `ListingEnds` (fairness and ENABLED are
out of the prover's reach), of `KeepsPromise` the liveness part, and the
properties of the violation runs, which are false.

## Not modelled

- Encoding of JSON, paths and query strings; error text; the user agent. No
  property here is about them.
- Query builders: each makes one JSON value from its arguments. `Bool`
  accumulates clauses in one object, in the order of the calls.
- Entitlement: a projection of one answer to four states. Its requests are in
  `Operations`.
- Generated models, other than the fields and ranges of the requests.
- httpx itself, beyond timeouts, connection errors and the closed pool. So not
  that a recorded host which is no host of a URL passes `_read_endpoint` and
  makes `Client()` raise httpx's `InvalidURL`.
- Negative intervals of `wait`, which sync and async treat differently.
- Empty names of an index or a document in a path, which some methods check and
  others leave to the node.
- A node that repeats the cursor of a listing, for which nothing is promised.

## Plan

Done: the modules and proofs above. What is left, in order:

1. `Requests`: the bodies with nested options (a repository's spec, an index
   schema), each with its own generated model.
2. Entitlement: the four states of an answer against the three of the
   docstring, over a token that expires, is refused or is activated anew.
3. Composition of `JobWait` with `Transport`: one poll as a call with its
   resends, to derive `PollTime` from the retry policy.
