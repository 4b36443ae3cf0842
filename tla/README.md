# Verification of leptos_wasi in TLA+

`leptos_wasi` serves a Leptos application from a WebAssembly component, under
WASI Preview 2 (`wasi:http/incoming-handler`, an executor of its own) and under
Preview 3 (host-driven tasks). These modules model the parts of it that decide
*when* something happens: the cooperative executor, the reading of request
bodies, the selection of what answers a request, how its head and body come
together and reach the host, and what a component sets up before. The counter
example and its store are modelled too, as the one user of the library with a
protocol of its own. TLC checks all of it on small instances; every safety
property of a passing run is also proved for every value of the parameters.

## 1. The system

| part | source | state it keeps | operations |
|---|---|---|---|
| wait queue, `WaitPoll` | `src/executor/p2.rs` 31-353 | registrations (status, waker, id), queue entries, the id counter | register, poll, drop; take, requeue, mark ready |
| Preview 2 executor | `src/executor/p2.rs` 355-729, 801-817 | pool of tasks, `spawn_failed`, mode | `run_until`, `poll_local`, `spawn`, `spawn_local` |
| spawner initialization | `src/executor/p2.rs` 547-565, 731-795; `src/executor/p3.rs` | thread-local executor, memo of the first attempt, the global spawner slot | `Executor::new`, `init_wasip2_executor`, `init_wasip3_spawner` |
| Preview 2 request body | `src/request.rs` | buffer, timer, count of empty reads | `collect_wasi_body` |
| Preview 3 request body | `src/handler/wasip3.rs` 184-247 | collected frames, timer | `ingest` |
| request policy | `src/handler/policy.rs` | configuration | `validate_content_length`, errors to answers |
| handler core | `src/handler/core.rs`, `render.rs` | the selection, the route table | `with_server_fn`, `static_files_handler`, `generate_routes*`, `render` |
| Preview 2 response | `src/handler/wasip2.rs` | response out-parameter, body, output stream, trace | `build_with_config`, `handle_with_context`, `send_response`, `write_all` |
| Preview 3 response | `src/handler/wasip3.rs` 249-341 | bytes counted for the trace | `TraceBody` |
| route table | `src/handler/routes.rs` | the validated entries, a prebuilt matcher | discover, validate, match |
| server functions, redirects | `src/handler/server_fns.rs`, `http_util.rs`, `src/utils.rs` | none | `apply_server_fn_redirect`, `redirect` |
| response options | `src/response.rs`, `src/integration.rs` | shared parts under a lock | set, insert, append, `extend_response`, `from_app` |
| static files | `src/static_files.rs` | none | `normalize_static_path` |
| counter store (example) | `examples/production-counter/store` | two SQL tables | `read_counter`, `increment_counter` |
| counter island (example) | `examples/counter` | count, operation id, pending actions | load, click, retry; the store's client with its deadline |

How they interact. A Preview 2 component calls `run_until(handle(request))`. The
handler reads the body with *blocking* WASI calls (no task runs meanwhile), lets
the core select and render, commits the head to the response out-parameter, and
then writes the body in an async loop that awaits `WaitPoll`s; these register
in the wait queue, which the executor offers to the host's `poll`. Preview 3 has
neither executor nor queue: the host drives the tasks, and collecting the body is
an async race against a timer; the host polls the response body and drops it when
it likes. Both previews share the core and the policy, and promise to treat a
request alike. Before any of this a component installs an executor as the
process's one spawner, and builds or validates a route table.

What is hard to test in it, and where it is caught:

* a wake-up lost between registration, blocking poll, drop and the end of a run;
  a waker gone stale because a future moved (`NoLostWakeup`, `WaitInv`);
* what `run_until` leaves behind when it succeeds or fails, and whether it
  returns at all (`NothingCarriedOver`, `RootIsGone`, `StalledMeansNothingLeft`,
  `SpawnFailureReported`, `RunReturns`);
* a request answered never, or twice, because of an early return, a dropped
  future or a stream that closes between two awaits (`Answered`, `AnswersOnce`,
  `AlwaysFinished`, `TraceTellsOutcome`);
* a body truncated, over the limit, or read past its budget, and two previews
  that disagree about it (`AcceptedIsWhole`, `CollectedIsWhole`, `OneLateChunk`,
  `SameAnswerInTime`);
* an answer that depends on the order of the registration calls, or a
  configuration error found only for some requests (`FirstClaimStands`,
  `AnsweredMeansConfigured`, `SameForEveryMethod`, `HeadAgreesWithGet`);
* two previews, or an application, competing for one spawner slot, asked again
  by every request (`OkMeansInstalled`, `AnswersAreConsistent`);
* a path that is harmless decoded once and leaves the asset root decoded again
  (`AcceptsWhatStaysInside`); exclusion, expansion and collision checks of routes
  that work on each other's results (`TableIsTheApplication`);
* headers merged twice, dropped, or replaced by a default; a redirect computed
  from a status that is stale (`WritesArriveOnce`, `AppendedArrive`,
  `RedirectsStayHome`, `FormsGoBack`);
* a response body reported twice, never, or with the wrong end, wherever the host
  drops it (`ReportIsTrue`);
* an increment retried because its answer was lost, and answers that arrive late
  or out of order (`CountsOperationsOnce`, `KeepsPromise` of `CounterApp`,
  `ShownNeverFallsBack`, `ButtonComesBack`).

`PROJECT.json` lists these hazards line by line.

## 2. Modules

### Wait queue: `WaitPromise`, `WaitQueue`

`WaitPromise` is abstract: a wait is new, waiting, resolved, refused or gone,
and may resolve only after its pollable has become ready. A live wait is never
canceled.

`WaitQueue` is `WaitPoll`, `WaitRegistration` and `WaitQueue<P>`. A wait is one
`WaitPoll` with its pollable; it registers at most once, so the registration is
named after it, and `RegistrationId` is kept apart because `cancel` searches by
it. Each method is an action: `Register`, `RegisterExhausted` (`checked_add` at
`u64::MAX`, here `MaxId`), `PollRegistered`, `PollFailed`, `DropWaits`,
`TakePending` / `HostAnswer` (the two halves of `dispatch_ready` around the host
poll; `hand` is what it holds meanwhile), `Sweep`, `Abandon`, `CallWaker`. The
`VecDeque` is a set, as no property of the code depends on its order. A waker is
the task it wakes. `poller`, `answer` and `abandoned` are history.

Its specification `WaitSpec` allows more than the executor does (a wait may be
dropped while the host poll is in flight); what is proved of it holds all the
more within the executor, which is shown to refine it (`UsesWaitQueue`);
`Preview2ExecutorProofs` has the proofs about both.

### Executor: `Preview2Executor`, `Preview2ExecutorProofs`

`pc` is the place of the driver in `drive_until_output` (`check`, `guest`,
`guestDone`, `host`, `polling`, `waking`, `hostDone`), `driver` what is driven:
`run_until`, `poll_local`, the clean-up after an error, or the last wake-ups of
a run that returns its output. A task is polled from `BeginPoll` to `Suspend`,
`Yield` or `Complete`, and in between it does, action by action, whatever a
guest can: create, poll, drop and hand over waits, spawn (or fail to), wake others, call
`run_until` recursively. `LocalPool` is external: any runnable task is polled,
`try_run_one` ends with a completion or when nothing is runnable,
`run_until_stalled` only then. `Mode` selects between them, and `host_wait`
between `Sweep` and the blocking poll. With `InlineWakers` a waker may poll its
task on the spot, as the comment at `p2.rs` 470 warns; that is why it is modelled
as an action between two wakers.

### Request bodies: `ContentLength`, `IncomingBody`, `Preview2Ingest`, `Preview3Ingest`, `IngestAgreement`, `IngestProofs`

`ContentLength` is `validate_content_length` as a recursive function over the
members of the headers, beside `Expected`, which states the verdict without a
pass. A member above `MaxU64` is any text the code refuses to parse.
`IncomingBody` is the environment: a client that sends, closes, fails or stalls,
and the timer. `Preview2Ingest` is `collect_wasi_body` with one action per
outcome of a read; `Preview3Ingest` is `ingest`, the poll of a `select` whose
collecting side goes first. `IngestAgreement` lets both read one request, each
at its own pace, which checks either beside the other and compares their answers,
as the HTTP statuses that errors become. `IngestProofs` holds the proofs, also that
`Expected` is what the recursive pass returns.

### Preview 2 response: `HttpAnswer`, `Preview2Response`, `Preview2ResponseProofs`

`HttpAnswer` is what a client is owed: one answer, head first, nothing after the
end. `Preview2Response` is the path from `build_with_config` to the end of the
body: the guard of the out-parameter (every early return), `send_response`, the
write loop against a host buffer of `Cap` bytes, the wait for room, the flush,
and the finishing of stream, body and trace, with a host that closes or fails
the stream at any time and a caller that drops the future at any await. It
refines `HttpAnswer` (`AnswersOnce`).

### Handler core: `HandlerCore`

The registration calls in any order on a request, for each method at once (so
that GET and HEAD of the same application can be compared): claims, skipped
work, validation errors, and the body and `Content-Length` that `render` makes of
the selection. A file is present or not, its body synchronous or not. An
application is a sequence of calls, each with what its callbacks would do.

### Before a request: `SpawnerInit`, `RouteTable`, `StaticPath`, `Setup`, `StaticPathProofs`, `SetupProofs`

`SpawnerInit` is `Executor::new`, `init_wasip2_executor` and
`init_wasip3_spawner`: the two memos of first attempts, the thread's executor, the
queue and `any_spawner`'s slot, which the application may take as well. Every call
appends its answer to `answers`, and the properties compare answers with each
other and with the slot.

`RouteTable` goes from the listings of an application to a table in the order of
the code: expansion of optional parameters, exclusion, the collision key, the
refusal of static rendering. The excluded paths are any set of those that the
listings expand to (another one excludes nothing). Its properties speak of patterns
that match the same URLs, which is stated without the key the code compares.

`StaticPath` is `normalize_static_path`: decoding, the residual decoding passes
that only look, the components. A path is a sequence over the few bytes that can
spell encodings of each other, the bytes of characters of three and four bytes among
them, so that `Utf8` (`String::from_utf8`) is about the whole text as in the code.
The property quantifies over every later decoding, and over every pass for UTF-8.

`Setup` puts these and `HandlerCore` into one state space. They share no state in
the code (the handler gets a finished table and a finished key), so `Setup` runs
one of them while the others stay where they began; it is a sum of the four and
says nothing about their interaction. `StaticPathProofs` has the proofs about
`StaticPath`, `SetupProofs` those about the other three and about the sum.

### Head and body of an answer: `ResponseMerge`, `Preview3Trace`, `Preview3Answer`, `AnswerProofs`

`ResponseMerge` is what becomes of the writes an application makes to
`ResponseOptions` (status, list-valued and other headers, `redirect`), before and
after the first chunk, in each of the ways an answer arises: rendered (streamed
or collected), from a server function with the redirect policy, preset, not
found. `written` is history: `WritesArriveOnce` computes from it what the
application meant. Targets of redirects are local, remote or broken, and the
sanitizer maps these.

`Preview3Trace` is `Body` wrapped in `TraceBody`, with a host that polls frames and
drops the body at any moment, also one it need not poll to the end because of
`is_end_stream`. `ReportIsTrue` compares the report with the frames the host got.

`Preview3Answer` is the sum of the two, like `Setup`; `AnswerProofs` has the
proofs about either and about the sum.

### Counter: `Counter`, `CounterStore`, `CounterApp`, `CounterStoreProofs`

`Counter` is what visitors are promised: an operation counts at most once, and
whoever is told of it is told the value it made. `CounterStore` is the store's
transaction statement by statement (reserve the operation, update, record, or
replay; commit; respond), with statements that fail, a process that crashes
between any two and connections that close; a read may fail as well (`ReadFails`).
`CounterApp` adds the island of each
visitor: it loads, clicks, gives up at the deadline and retries with the same
operation id, while its requests and answers are under way, arrive in any order or
get lost. It refines `Counter` (`KeepsPromise`). Without a configured store the
server function adds one to what the island sent.

## 3. Runs

| run | instance | shows |
|---|---|---|
| `executor_preemptive` | 3 tasks, 2 waits, 2 runs, 2 noises | no lost wake-up, only live waits queued, no blocking while work is runnable, nothing carried over, a stall is final; the executor refines `WaitSpec` and `WaitPromise` |
| `executor_stalled` | 2 tasks, 2 waits, 2 runs, 3 noises, ids run out, inline wakers | the inductive invariant with re-entrant wakers, the root is gone after errors, spawn failures surface; under fairness `run_until` returns |
| `executor_one_task` | 2 tasks, 1 wait | **violation**: the doc of `Mode::Preemptive` promises one task per sweep, `try_run_one` goes on to the next task |
| `p2_response` | chunks of up to 3 bytes, 3 of them, host buffer of 2 | one answer always, `Ok` only for a whole body, body finished, trace truthful; under fairness the transfer ends |
| `p2_flush` | 2 chunks of up to 2 bytes | **violation**: a stream that closes during the last flush is reported as `Ok` |
| `request_body` | bodies up to 3 bytes, limit 2, 3 Content-Length members, a cap of 3 empty reads | both readers accept only whole bodies within the limit, the budget bounds them, they agree as long as it lasts; under fairness both return |
| `ingest_budget` | the same, readers start together | **violation**: with body and timer both ready Preview 2 answers 408 and Preview 3 accepts |
| `setup` | 4 calls of 2 modes; paths of 5 units or 4 spelled bytes, 2 residual passes; 2 routes of 2 segments, every set of exclusions; 2 registration calls, 3 methods | spawner answers agree with the slot and each other, only harmless keys are accepted, the table is what was declared; claims, validation and HEAD against GET |
| `head_length` | 1 registration call | **violation**: HEAD for an asynchronous asset answers `Content-Length: 0` |
| `p3_answer` | 2 writes to the options, 3 chunks of 0 to 2 bytes | writes arrive once, redirects stay on the origin, forms go back to their page, the trace reports what the host got |
| `appended_headers` | the same | **violation**: of two values appended under a name that is not list-valued only the last is sent, unlike the doc of `append_header` |
| `counter` | 2 operations, 2 visitors, 2 attempts each, 1 fault, counts up to 2 readable | operations count once and are told their value, a shown count never falls back; given a clock the button comes back |

Bounds. *Noise* counts the steps a guest could repeat for ever without changing
what is waited for (yields, wake-ups between tasks, handovers, failed spawns, nested calls, `poll_local`).
Two waits are enough for one to be ready while the other is not; three tasks for a root, a
waiter and one that a future moves to; two runs for something to be carried
over. `MaxId` of 2 or 3 puts the exhaustion of ids within reach. A host buffer
smaller than a chunk forces short writes and backing up. A limit below the
largest body makes every chunking cross it. Three members put two agreeing ones
before a bad one. Four spawner calls are one more than the spawners that compete.
Five units (`MaxUnits`) spell `%25` and an escape behind it, or a doubly encoded dot; a path
that changes a third time is beyond the passes. Four spelled bytes (`MaxSpelled`),
raw, encoded once or twice over, are a whole character of three or four bytes, and
one that lacks a byte, has one too many, or is completed by a later decoding only. Two routes make a pair, the least
that can collide. Two registration calls are a claim and what comes after it. Two
writes are one that is kept and one that replaces or appends. One fault is enough
for a lost answer or a crash after the commit, two attempts for a retry that
overtakes its first request. `MaxCount` is the largest count the two operations
reach, so that a wrong answer can be told apart; an answer that is too large for
the component is left to the theorems, which hold for every `MaxCount`. Symmetry
is used for safety runs only: tasks and waits are interchangeable model values.

`CHECK_DEADLOCK FALSE` is set where the program stops: a run has been made, a
request has been answered, a body has been read.

Fairness. Executor, handler and readers run when they can (single-threaded code
with no other scheduler). A poll of a guest task ends. A pollable becomes ready
some day, and the host drains its buffer or ends the stream: without this
nothing could make the code return, and its docs claim nothing else. The clock
advances. Fairness never rests on a fault: a wait that nothing resolves need not
fail (`Progress` leaves `WaitFails` out), and a reader that waits is not woken by a
host that lies (`HonestNext`). Nothing is assumed of the client, nor of the caller of the handler. In
`CounterApp` only the deadline is fair (and a server function that asks no
store returns). The deadline is the component's (`counter_store.rs` 163), so what is
presumed is that the component runs its timer and that the browser's own request ends,
with the component's answer or without it: neither messages nor the store need ever
make progress.

## 4. Proofs

All theorems hold for every value of the constants, under the assumptions named
in the modules that declare them (sizes are naturals, `NoTask` is no task, `MaxId`
is positive, `Mode` is one of two, the host buffers at least one byte, `NoOp` is no
operation, the raw paths are sequences of units). The bounds of the models are
constants as well, so a theorem covers any number of runs, calls, attempts or faults.

* `Preview2ExecutorProofs`, wait queue: `WaitInv` is inductive. What makes `PendingIsTracked` and
  `DistinctIds` inductive are `IdsBelowNext`, `StatusFollowsFuture` and
  `EntriesAccounted`: an entry belongs to a live pending wait, or to one dropped
  while the host poll was in flight. `WaitStep` proves it once for
  `[WaitNext]_waitVars`; `WaitKeepsPromise` adds that every step is a step of
  `WaitPromise` or a stutter.
* `Preview2ExecutorProofs`, executor: every executor step is a queue step
  (`ExecutorUsesWaitQueue`), so `WaitInv` is inherited; `ExecInv` adds what each
  point of the loop knows (`Scheduling`: before a blocking poll and at a stall
  nothing is runnable; a hand is held only while polling; wakers are owed only
  while waking), whose root is being driven (`RootPhases`) and that a finished
  task holds nothing. From it follow `NoLostWakeup`, `OnlyLiveQueued`,
  `BlocksOnlyWhenIdle`, `RootIsGone`, `NothingCarriedOver` (for wakers that do
  not poll on the spot) and the action properties `StalledMeansNothingLeft` and
  `SpawnFailureReported`.
* `Preview2ResponseProofs` (any buffer, chunk and body size; the host buffers at
  least one byte): `ResponseInv` adds to the properties `Accounted` (every byte
  yielded is written or left to write; a permit stays within the room because
  only the host frees room in between; a chunk is done before the next) and
  `StageTells` (what each stage knows of out-parameter, body and trace). It
  carries `Answered`, `OkMeansWhole`, `TraceTellsOutcome` and `AlwaysFinished`,
  the action property `WithinPermit`, and the refinement `AnswersOnce`:
  bytes reach the client only after the application's answer. `WaitsAreKept` says
  that a wait is for something due, `TransfersEnd` that every step leaves less to
  do: the handler goes on to a later phase, takes a chunk, writes some of one, or is
  a step closer to writing (`Turn`), or the host drains or ends the stream.
* `Recursion`: the library's theorems on induction and on recursive definitions
  take an operator, which the installed provers cannot instantiate. `Induction`
  takes a set of naturals instead, and `ValuesExist` a function for the step of a
  recursion; both go back to `LeastNumber` (a set of naturals has a least one, from
  `NatLessThanWellFounded` and `WFMin`). The recursive functions of `ContentLength`,
  `RouteTable`, `StaticPath` and `Preview3Trace` are reasoned about through these.
  `Falling(n)` orders lists of n naturals by the first that changes, and
  `NothingFallsForEver`.
* `IngestProofs`: `IngestInvariant` is what each place of the two readers knows
  (`Reader`: a late chunk was decided on before the timer fired; with an honest
  host an empty read is followed by a fruitful one; `Collector`), `Acceptance` what
  was checked before a body was accepted. With the validated length
  (`LengthIsChecked`) they yield `WholeBodies` and `WholeCollections`; `LateChunks` and
  `TricklingIsForgiven` bound the reading. `LengthIsWhatMembersSay`: for every list of
  members the pass of `validate_content_length` returns what `Expected` states
  without one. `AnswersAgreeInTime` compares the two previews' answers: as long as
  the timer has not fired and the client has not failed, either reader has been
  refused or has collected for the same reasons, except where a member declares a
  length that was not sent, which only Preview 2 compares (CHANGELOG.md:103-104). `ReadingIsFinite`: every step of
  either reader, the client or the timer leaves less to do; an empty read spends
  `Patience`, which only bytes restore, and a wake-up leads to a frame, to the end,
  or to a place (`Place3`) from which nothing but the client or the timer wakes.
* `SetupProofs`, spawners: `SpawnerInv` ties the memos, the executor, the slot and
  each answer given so far together; `OkIsInstalled` and `SameAnswersAlways` follow.
  Route table: `RouteInv` says of each stage of the generation which listings it
  has kept and what they have become (`TableSoFar` of the entries already
  examined); `KeysMeanPatterns` that two patterns have one key exactly if they
  match the same URLs, and `ExpansionsAreSpellings` that the recursive expansion
  makes each spelling of a path once. `TablesAreApplications` is the result, for
  listings of any length. Handler: a request knows only the calls it has been
  through. `Claimed` says that the selection is that of the first call which claims
  it, `Configured` that what was registered is valid and where the table comes
  from, `Ended` why it was refused or what it was answered. From it follow
  `ClaimStands`, `AnswersNeedConfiguration`, `RefusalsAgree` and, by comparing first
  claims, `HeadIsGet`, which leaves out server functions and, for the length,
  asynchronous bodies, where the length is wrong (`head_length`).
  `SetupKeepsItsPromises` carries these over to the sum.
* `StaticPathProofs`: texts of any length, over the digits that `Byte` knows, are taken apart into a byte,
  or an encoded byte, and the rest (`CodeInduction`). The property is about every
  order in which encodings may be decoded, the code tries one: all of them at once,
  again and again. What makes the one stand for the others is `DecodeOfReduct`: if
  one byte is decoded first and then all of them, the outcome is that of decoding
  all of them, or one encoded byte of that further. `InsideOfDecode` says that what
  is bad in a text is still bad when the rest is decoded, so that the checks of the
  last decoding cover the readings in between; `BadReduct` that a refused byte can be
  decoded first, so that nothing is refused for less than a bad reading;
  `CollapsingAgrees` that dropping separators commutes with decoding, so that the key
  is as good as the path that was checked. `Durable` is the least set of texts that
  stay inside and stop changing; `ReductOfDurable` and `CollapsedOfDurable` are by
  induction over it. `ReadingsWithin` and `ReadingsDecoded` say that the readings of a
  text are what decoding a byte at a time reaches (each such step shortens the text,
  so the bounded recursion reaches all). `PathInv` then says that the text the code
  probes is a reading of the path, that it is what `passes` decodings of all of the path
yield, each of them UTF-8 (`PassesExist`, `PassesEnd`), and that the path is durable if
the probe is.
  `PathStaysInside` is the result.
* `AnswerProofs`, body: `TraceInv` says that before the report neither an error nor
  an end has been heard and the counters count what was (`BytesOfOneMore`), and
  that a report tells of what was heard first, which nothing heard later changes
  (`FirstIsHeard`). Head: what an application meant is computed from all writes, so
  the invariant `MergeInv` says that, until there is an answer, the options are
  what the writes mean (`Gathered`; `WriteInTime` is its step for any write) and
  that late writes mean nothing (`LateWrite`). `OneMore` counts the places of
  writes in the order they were made. Each way to answer is then a chain of merges
  and defaults (`MergesAre`, `DefaultsAre`, `MergedArrives`, `AppliedIs` for the redirect policy).
  `AnswersKeepTheirPromises` is about the sum of the two.
* `CounterStoreProofs`: `StoreInv` says of an open transaction that it holds what is
  committed, or that and its own increment; of answers and of what visitors were
  told that it is recorded. `CounterIsPromised` shows each step to be one of
  `Counter` or a stutter, the commit being the only one that counts. `ShownInv` says
  that an island shows a count only after its load, and that neither the counter
  nor the row of the operation the island holds is below it; `ShownStays` follows.

Only model-checked: liveness (`RunReturns`, `Returns`, `BothReturn`,
`ButtonComesBack`), since fairness is beyond the prover, and the runs that find a
disagreement with the docs, which are about one behaviour each. Of `Returns` and
`BothReturn` the part that needs no fairness is proved: no behaviour takes steps for
ever (`TransfersEnd`, `ReadingIsFinite`, whose measures count down from the bounds on
chunks and bodies), so what TLC adds is that the code does not stop early, for
which fairness is needed. Every invariant and action property of a passing run is
proved.

## 5. Not modelled, and why

* One queue per process is assumed; `CURRENT_QUEUE` and its guard (p2.rs
  208-248) matter only with several queues, which only tests create.
* A `poll_local` that a polled task calls cannot borrow the pool and does nothing.
  From an inline waker the pool is free, since `run_guest` drops its borrow before
  `poll_host` (p2.rs:697): a `poll_local` or a `run_until` called there runs in full,
  and may take a spawn failure or find it unreported (p2.rs:656). Neither is
  modelled; `SpawnFailureReported` says nothing about them.
* The conversion of method, URI and headers is string work: `Preview2Ingest` has
  that it may fail. The sanitizer's string work is a map of three values; MIME
  types, ETags and conditional requests are left out.
* The matching of a URL against the table, and its precedence, are routefinder's;
  the crate hands it the validated entries.
* The SSR stream's content is Leptos's; the reactive owner and contexts likewise.
* A handler future dropped in mid-transfer leaves the body unfinished and untraced:
  the code has nothing that runs then. The properties speak of futures that
  return.
* Spans, durations and the metrics of the build: nothing depends on them.
* The HTTP exchange between counter client and store is one message each way.
* The other examples, fixtures, tests, scripts and benches exercise or measure the
  library and have no protocol of their own.

## 6. Where to go on

* A stack of runs, for `run_until` and `poll_local` called by an inline waker
  (`p2.rs` 684, 697).
* The conditional requests of static files, if they get state.
