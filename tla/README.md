# Verification of onair

`onair` is an OpenAI-compatible reverse proxy: it authenticates a client, picks
an ordered list of backends for the requested model, tries them in turn, and
answers with a buffered body or a stream. Around that it keeps counters, a
verdict about the health of each backend, debug captures on disk, and an
inspector with a live, optionally persistent list of request records. This
directory holds TLA+ models of its stateful parts, the TLC configurations that
check them on small instances, and TLAPS proofs for every size.

## 1. Inventory

Paths are below `src/crates/`.

| Part | Code | State | Operations that change it |
|---|---|---|---|
| request proxy | `onair-proxy/src/proxy.rs`, `proxy/{context,upstream,attempt,inspector}.rs` | one `ProxyContext` per request and the locals of `do_proxy` | preflight, admission, prepare, send, retry, error body, buffered answer |
| streamed responses | `proxy/response.rs` | `StreamMetrics`, owned by the response body | chunk, error, end, shutdown, and `Drop`, which does all the bookkeeping |
| request record | `onair-obs/.../inspector/{live,records}.rs` | one record per request | publish, update, finalize |
| inspector store | `inspector/store.rs` | deque, broadcast channel | record, upsert, upsert_final, `Drop` |
| inspector persistence | `inspector_persistence.rs` | bounded queue, writer thread, flag, SQLite table | restore, record, request_shutdown, the loop of the writer |
| inspector event stream | `onair/src/app.rs` | one receiver per client | subscribe, snapshot, receive, lag |
| stream capture | `stream_capture.rs` | per side: channel, writer thread, file, timings | record, finish, the loop of the writer |
| debug capture | `debug_capture.rs` | a directory per captured attempt | capture, outcome, summary |
| backend health | `health.rs`, `health_probe.rs` | per backend: recent failures, last success | record success and failure, probe |
| routing | `onair-proxy/src/routing.rs` | round-robin counters | select |
| configuration | `onair-core/src/config.rs` | the active configuration | load, watch, debounce, reload |
| context sizes | `context_sizes.rs`, `context_size_cache.rs` | sizes per backend and model | refresh, set, prune |
| server lifecycle | `onair/src/{main,app}.rs` | shutdown watch channel | signal, drain, exit |
| translation | `onair-core/src/openai/*` | state of a translated stream | rewrite a request, a whole answer; push, finish |
| the rest | auth, errors, client information, sanitising, timeline, operator endpoints, inspector page | none, or none that matters | pure functions and views |

How they interact. A request reads the configuration once, on arrival. It calls
routing once, and then owns the candidates. It writes to the counters, to the
health store, to the debug captures and to its record at points that must agree
with one another. Its record goes to the store, which tells the writer thread
and the subscribers after releasing its lock. A streamed response outlives the
handler: everything left to record is recorded when the body is dropped, at any
await point. On its way it passes the normalizer of its request mode, which
keeps lines that are not complete and what it has told the client so far. Health
probes and the refresh of context sizes work beside the requests, each on a
snapshot of a configuration that the file watcher may replace. A shutdown signal
races with all of these, and the store is dropped last.

What is hard to test here, and what the properties are about:

* bookkeeping over several attempts: a label, a capture or a health verdict that
  ends up with the wrong attempt;
* a stream dropped before, during or after its last chunk, by the client, by an
  error or by a shutdown;
* two threads and a bounded channel between them: full channels, flags polled
  between blocking receives, joins, drain deadlines;
* a deque and a table that evict by different rules;
* a process that dies between two writes, and its restart;
* a subscriber that is overtaken;
* events of one API made from events of another, cut anywhere by the chunks they
  come in, and an answer that comes back through the inverse translation;
* a configuration that is replaced while the watcher debounces or retries, and
  while tasks work on the old one.

`PROJECT.json` lists each hazard with its line and its properties.

## 2. Modules

| Module | What it models |
|---|---|
| `RequestRecord` | abstract: what the inspector may rely on about one record |
| `Proxy` | request proxy, the life of a streamed response, captures, counters, verdicts |
| `MCProxy` | instances of `Proxy` for TLC |
| `ProxySteps`, `ProxyAccounts`, `ProxyProofs` | theorems about `Proxy`: methods and steps of a context, the account of its attempts, temporal theorems |
| `Routing` | eligibility, request modes, order of candidates, round-robin counters |
| `MCRouting` | instances of `Routing` for TLC |
| `RoutingProofs` | theorems about `Routing` |
| `StreamCapture` | both sides of a captured stream with their writer threads |
| `StreamCaptureProofs` | theorems about `StreamCapture` |
| `InspectorStore` | deque, persistence, restart, drop, subscribers |
| `MCInspectorStore` | its deployments for TLC |
| `InspectorStoreProofs` | theorems about `InspectorStore` |
| `ApiValues` | values of the three APIs, model names, usage, lines and bytes of a stream |
| `ChatToResponses`, `ResponsesToChat`, `MessagesToChat` | whole answers and streams of one API turned into another |
| `SseStrategy` | the normalizer of each request mode, the native ones included |
| `RequestRewrite`, `RequestModes` | requests of one API turned into another; policies, path, body for a request mode |
| `Translation` | a conversation through the proxy: ask, answer whole or in chunks, ask again |
| `MCTranslation` | paths, requests and answers for TLC |
| `ConfigReload` | loading and checking of a configuration file, the watcher |
| `BackgroundTasks` | health store and probes, context sizes and their refresh |
| `Operations` | the two above composed with the server, its event streams and its end |
| `MCOperations` | files and limits for TLC |
| `OperationsProofs` | the theorems about the health store and the configuration in `Operations` |
| `Keep` | what `filter` and `retain` leave of a sequence |
| `Induction` | induction over natural numbers; lemmas about `Keep` and finite sets |

Operators and actions carry the names of the functions they translate;
`PROJECT.json` maps each to its lines. Operators whose comment begins with
"Mutant" are deliberately wrong variants, used to show that a property notices.

### Proxy

`req[r]` is the context of request `r`: the fields of `ProxyContext`, the locals
of `do_proxy`, and what the request has told the counters, the health store, the
captures, the inspector and the client so far. A method on `&mut self` is an
operator from a context to a context, so that the order of calls in the code is
the order of composition in the model. An action runs from one await point to
the next, with one action per way the await can end: headers, an error, a
shutdown, a chunk, a drop. `HandlerDropped` and `StreamDrop` can happen whenever
the code is waiting.

Abstractions: a body is a number of bytes relative to the error-body cap; headers
and JSON are left out; a candidate is its backend and the two switches of its
route; the clock is left out, so a timeout is an error that may come at any wait.
Four fields are history (`sent`, `received_bytes`, `upstream_ended`,
`client_bytes`); no action reads them.

`Proxy` implements `RequestRecord` under the mapping `outcome` = outcome of the
record, `listed` = number of attempts in it.

### StreamCapture

For each side: the channel, the writer's place in its loop, the flag, the file as
the sequence of its lines, the shared timings and the summary that goes into the
metadata. The writer reads the flag, then blocks in a receive, then reads the
flag again; these are separate actions, so every race with `finish` is there.
A deadline may pass whenever the writer waits on it. A writer that returns drops
the receiver and with it what is still in the channel; `cut` is history: how many
events that was. `finish` keeps a sender of its own until it has joined the writer,
so the writer's exits for a disconnected channel are never taken, and are not actions.

### InspectorStore

Requests write their records in two or three steps, as the code does: deque
(under the lock), queue of the writer (final records only), broadcast. Between
them anything may happen. The process may be stopped in order (`Drop` marks what
is in flight, sends it, raises the flag, joins the writer), or be killed, and is
then started over the surviving table. A deployment (persistent or not, its
retention, capacities and subscribers) is chosen at the start. Requests are numbered in the order of
their start, which is the order the table is pruned by; the deque evicts in the
order of first publication. `unsaved` is history: what the persistence gave up on.

### Routing

`candidates` is what `select` collects for a request: the bindings of the model's
route, or the configured backends for a path without a model, each kept if
`is_eligible` finds a request mode. A strategy then says by how much the list may
be rotated; a random pick is any pick. The counters survive a reload, as they do
in the process. Markers are the strings of the code. An absent route and an empty
`expose` behave alike in every test of the code and are one case here. The hash
of the sticky key is a number of the request; `path_capability_candidates` is
given per path. `turns` is history: the last primaries of a key as long as its
candidates stay the same. `select` is modelled as a whole, with its
`model_not_found`, which the proxy's own access check comes before.

### Translation

JSON objects are records of the fields that are present, and text is a sequence
of pieces, so that a delta is a piece and the text of an answer is their
concatenation. `path` says what the client speaks, what the backend speaks and
under which policies; `exchange` is what the backend will answer, as a script of
events and as a body. The script is turned into bytes (a line has a few, the last
of them its newline) that arrive in chunks of several sizes, so a chunk may end
inside a line. `Chunk` is one turn of the loop of `streaming_response`: push to
the normalizer, record usage and clear its counters if something came out, yield.
The stream ends with the upstream, with an error, or with a shutdown, which the
loop cannot tell from the end. The client then makes its next request from what
it was given (`ChatHistory`, `ResponsesHistory`), which is translated again.
`oracle` is history: the same normalizer, given whole lines.

Numbers that the code parses as `u32` have the width `U32Max`. The cleaning of
tool schemas for llama.cpp, form and multipart bodies, and the query string are
left out.

### ConfigReload, BackgroundTasks, Operations

A file is what the checks of `Config::load` tell apart; `Load` is the resolved
configuration or nothing. The watcher goes through idle, debounce, load (with its
attempts) and apply; edits, reports of `notify` and its errors come at any point,
also between the reading of the file and the replacement. The watch starts after
the first load.

The health store is a record per backend; requests (any backend of any
configuration) and the probe loop write to it, and the clock moves. The refresh
takes the targets of the configuration in force, has its fetches end in any order
with a size or an error, and prunes at the end. The server is serving, draining
or stopped; an event stream takes its receiver some time after it was accepted,
and sees a signal only if that came later. `limits` bounds what happens and is
chosen at the start; `log` and `missed` are history.

## 3. Runs

Passing runs:

| Run | What it shows |
|---|---|
| `proxy` | One request under every configuration, three candidate orders (one with a backend twice), every kind of upstream error and four statuses. Attempts, verdicts, captures, counters, record and answer agree. |
| `proxy_pair` | Two requests, a shutdown and the drop of the store. Records refine `RequestRecord`; admitted requests are answered; a shutdown ends every request. |
| `routing` | One backend with every combination of seven markers it supports and seven its route exposes; three backends under sticky, weighted and round-robin order, with reloads. No strategy loses a fallback; translation needs its exact marker in the route's `expose`, or in the backend's `supports` when `expose` is empty; tools are blamed only if they are the reason; primaries cycle per key; weights are the odds. |
| `stream_capture` | Four events a side over channels of two, with failing opens and writes. Lines keep their order, the summary is the file's, and an event is lost without a trace only at the deadline or without a file; what the deadline takes from the counts of a summary is at most one full channel. Finishing returns as long as both writers have their files. |
| `inspector_store` | Durable: three requests, retention of two, a queue of one, SQLite errors, two lives of the process. Deque and table hold what was written; an orderly drop loses nothing in silence, and ends. Watched: a subscriber that comes, lags and goes while two requests write and the configuration changes, and is current unless it was told of a gap. |
| `translation` | Five request modes, tools, usage policies, answers with text and calls, failures in the middle, shutdowns, chunks of 1, 2 and 7 bytes. Cuts make no difference; usage is shown as asked and counted once; the client's own protocol is kept, also by a stream that is cut short; a streamed answer says what the whole one says (no arguments of a call and `{}` count as the same, here and in the conversation); and what the client sends back is the conversation the backend had. |
| `operations` | Edits into four good files and sixteen rejected ones under refreshes; requests and probes under a clock and a reload; a signal under three event streams. Health is what the observations say; configuration and sizes settle on the file; the server stops. |

Runs that refute a statement of the documentation, a comment or a test:

| Run | Statement | What happens |
|---|---|---|
| `proxy_done` | `done` is written once the upstream stream completes | a shutdown in the middle is recorded as `done`, and the backend is credited with a success |
| `routing_warned` | a backend that is warned about "will never be selected" | the warning is given for every route that omits `expose`, and such a route serves all its backends support |
| `stream_capture_open` | `finish` drains within its budget and returns | if the file cannot be opened, `finish` and the writer wait for each other for ever |
| `inspector_store_evicted` | evicted records do not appear in the restored file | the deque evicts in order of publication, the table in order of start, so they can |
| `translation_usage` | `usage.total_tokens` values are preserved | a Responses client of a chat backend gets `response.completed` with the chunk that has `finish_reason`; the usage, which comes in a later chunk, is counted but reported to the client as zero |

Smaller disagreements met while modelling, which have no run of their own: of
the 4xx statuses only 400, 408, 422 and 429 are forwarded unchanged
(`map_upstream_status`); an error body of exactly the cap counts as truncated;
with `mode = "failures"` no stream capture is opened; `finish` keeps a sender
while it joins the writer and so always waits for the drain deadline; events left
at that deadline are marked nowhere, although a comment in `finish` says "mark
`truncated = true` in the timings" (`SummaryLossBounded` says how many they can be);
requests of one model with different
candidates share one round-robin counter, so a regular mix of them can keep one
backend primary; `/v1/embeddings`, the example of a model-less path, requires a
model (`path_requires_model`); the record of an interrupted request misses
the attempt whose headers were awaited (the run `proxy` shows that it misses no
other); a lowered `retention_requests` does not shrink the deque, since each write
pops at most one record (`TypeOK` of `InspectorStore` only promises the largest
retention that was configured).

Of the translation: for a Responses client the text and the first call both have
`output_index` 0; a stream that ends or is cut before any data gets an empty
`response.completed` that no `response.created` came before (`finish_response` does not
start the response; the one exception in `ClientProtocol`); a stream cut by a shutdown or closed early gets a made-up
`stop` and `[DONE]`; a call streamed by a Messages backend without arguments
reaches the client with empty ones and is refused when it comes back
(`StreamedWithoutArguments` excepts it); usage of native Messages is not counted,
and with `ChatCompletionsViaMessages` what is counted depends on the chunks
(both excepted from `UsageCounted`); a `max_tokens` beyond 32 bits counts as absent.

Of the operations: an edit between the first load and the start of the watch goes
unnoticed until the next one (`missed`, which `Settles` excepts, so that it says
nothing about this edit); a failed fetch takes away a known size,
and the model stays listed without one, while `docs/configuration.md` says it is
hidden; a model whose route loses all its backends keeps its last size
(`SizesInForce` excepts it); context sizes follow a reload up to a minute later;
the status of a backend is not aged when it is read, so "unhealthy" outlives the
window until the next observation; an event stream that subscribes after the
signal never ends by itself, and only the grace period ends the server.

### Bounds

* `Proxy`: three attempts reach a first, a middle and a last one, and a backend
  that comes up twice. A cap of two bytes has bodies below, at and above it.
  Requests share nothing but the shutdown, so one request explores all
  configurations, and two are enough for the drop of the store.
* `Routing`: a wrap at five instead of 2^64 falls into the cycle of three
  candidates; requests with and without streaming have lists of three and two.
  Markers of one backend do not affect another, so one backend has all of them.
* `StreamCapture`: four events over a channel of two fill it, overflow it and
  fill it again after the writer has moved. The sides share only their owner.
* `InspectorStore`: three requests over a retention of two evict, replace and
  re-insert; a queue of one is full whenever it is not empty, which makes Drop
  lose its Shutdown message; two starts cover a restore of restored records.
  The run with a subscriber has one update per request and a channel of two.

* `Translation`: two turns are a request, its answer, and the request that
  contains them. Answers have up to two pieces of text and two calls, one
  after the other, side by side or all at once, so that every normalizer opens, switches and closes an item;
  chunks of one byte, of two, and larger than a line cover the places a cut can
  have relative to a line.
* `Operations`: two edits and an error of the watch are enough for an edit in
  each state of the watcher and a second one during the reload of the first; two
  attempts give a retry and a last attempt. Four observations reach the threshold
  of three and pass it, with three ticks over a window of one. Three streams
  can be before, at and after the signal. The scenarios are separate because the
  tasks share only the configuration.

`StreamCapture`, `InspectorStore`, `Translation` and `Operations` turn deadlock
checking off because a finished capture or conversation and a stopped process
have nothing left to do.

### Fairness

* `Proxy`: weak fairness of a handler's own steps. Every wait of an admitted
  request is bounded by the request timeout, which covers the body. Nothing is
  assumed of streams, except that after a shutdown the connection is dropped
  (`serve` gives up after its grace period).
* `StreamCapture`, `InspectorStore`: the writer threads and the thread that joins
  them are scheduled, and clocks reach deadlines. Clients and requests are not
  assumed to do anything.
* `Operations`: the runtime runs tasks that can run, timers fire, `notify` reports
  a change, and a fetch ends (`FETCH_TIMEOUT`). Whoever edits the file, clients and
  backends may do anything or nothing.
* `Translation` has safety properties only.

## 4. Proofs

Every safety property of a passing run is proved for all values of the constants,
except the six of `Translation`. The theorems use only the named assumptions of
the modules they are about, which say that the constants are well typed, that
capacities, caps, thresholds and retentions are positive, and (for `Routing`) that
models are not paths and that a request has the model its path requires.

| Component | Theorem | Property |
|---|---|---|
| `Proxy` | `TypeCorrect` | `TypeOK` |
| | `FallbackOrder` | `AttemptsFollowCandidates` |
| | `CountedOnce` | `CountedOnceAsAnswered` |
| | `NoLateRetry` | `NoRetryAfterHeaders` |
| | `AttemptsListed` | `RecordListsEveryAttempt` |
| | `AttemptsJudged` | `HealthJudgesEveryAttempt` |
| | `CapturesMatched` | `CapturesMatchAttempts` |
| | `ForwardedWhole` | `ForwardedErrorsAreWhole` |
| | `RecordRefinement` | `ImplementsRequestRecord` |
| `Routing` | `TypeCorrect` | `TypeOK` |
| | `FallbacksKept` | `SelectionKeepsFallbacks` |
| | `TranslationIsExplicit` | `CompatIsExplicit` |
| | `ToolsBlamedRightly` | `ToolsErrorIsAboutTools` |
| | `RoundRobinTakesTurns` | `RoundRobinCycles` |
| | `OddsAreWeights` | `WeightedShare` |
| `StreamCapture` | `TypeCorrect` | `TypeOK` |
| | `FaithfulSummary` | `SummaryMatchesFile` |
| | `Accounted` | `EveryEventAccounted` |
| | `LossBounded` | `SummaryLossBounded` |
| | `CompleteUnlessTruncated` | `UntruncatedIsComplete` |
| | `Ordered` | `LinesInOrder` |
| `InspectorStore` | `TypeCorrect` | `TypeOK` |
| | `CurrentDeque` | `DequeIsCurrent` |
| | `OutcomesOnly` | `TableHoldsOutcomes` |
| | `SavedDeque` | `DrainSavesDeque` |
| | `CurrentSubscriber` | `SubscriberIsCurrent` |
| | `StableOutcomes` | `OutcomesStay` |
| `Operations` | `HealthShownFromHistory` | `HealthFromHistory` |
| | `NoEditLost` | `AtRestInForce` (in no run: the first part of `Settles`) |

None of the properties is inductive. What follows says, for each component, which
invariant was proved instead and what it adds.

### Proxy

`ProxySteps` says what each method of a context changes and leaves alone, defines
the invariant and has one lemma per action; `ProxyAccounts` does the same for a
second invariant on top of it; `ProxyProofs` has the temporal theorems. Contexts
never meet, so the step proofs are about one context.

`Invariant == Spec => []IInv` says of every context (`CInv`)

* `Position`: the current route is the candidate numbered by the attempt, the
  fallback routes are the rest up to `max_attempts`, and the labels name the route;
* `Listed`: the finished attempts are the first candidates, in order, one per
  counted attempt, the last possibly under way;
* `Underway`: which attempt is under way at each point of the handler;
* `Observed`: whether the request has been counted and answered, and with what;
* `Recorded`: the state of its record at each point.

To see that a retry goes to the next candidate one has to know where the context
stands in the list. The step lemmas also show that each action moves the record as
`RequestRecord` allows, which makes the refinement a corollary.

`AccountsInvariant == Spec => []AccountsInv` adds what is said elsewhere of the
attempts (`AInv`):

* `Accounts`: while a request runs, its retried attempts are the finished ones, its
  sends are the counted ones, and its record is at most one attempt behind;
* `JudgesEveryAttempt`, at every point and not only at the end;
* `Captured`: no capture is made ahead of its attempt, the one of the attempt under
  way is in its slot and linked from wherever the attempt is held, and with
  `mode = "failures"` there is none before the attempt has failed;
* `Body`: what has been read of an error body, and that it is below the cap as
  long as reading goes on.

The lemmas about `AInv` take what they need of `Keep` as a hypothesis
(`JudgedKept`), which `JudgedAreKept` in `ProxyProofs` discharges.

### Routing

`RInv` says that the last selection is what `select` returns under the configuration
in force, that is, an error or a rotation of all candidates (`Answers`), and that the
remembered primaries of a key are the last values of its counter modulo the number
of candidates, as far as the counter has not wrapped since (`Cycle`). The first four
properties are then about `candidates` and `selection_error`; what these collect is
described by lemmas on `Keep`. `RoundRobinTakesTurns` comes from remainders of
numbers less than L apart being different. `OddsAreWeights` is a bijection between
the picks that land on a candidate and an interval as long as its weight; it rests
on sums of weights as recursive functions, and on induction over their length.

### StreamCapture

`IInv` says for each side that the events of file and channel are in order, the file
before the channel (`InOrder`); that nothing is missing before the end of the channel
unless something was counted as dropped, which marks the capture, and that lines,
channel, drops and what was cut off add up (`SideLines`); and in which order the flag,
the end of the writer and the summary come, and that only a writer's end cuts events
off, at most a channel of them (`Phase`). A step of one side leaves the other alone
(`OneSide`).

### InspectorStore

`IInv` has a part for each kind of state:

* `Proceeds`: the order in which a request writes its record, and that it writes
  none after the process has stopped running;
* `Stored`: a record of the deque is the one outcome its request can have or what
  it wrote last, one per request; what was interrupted and what is in the table are
  outcomes;
* `Queued`: the queue has outcomes with a limit that some retention gives, and is
  empty without a reader;
* `Drained`: with persistence, a record of the deque is still to be persisted, in the
  queue, among the interrupted, in the table, given up, or older than as many
  rows as a retention allows;
* `Follows`: for a stream that runs and has missed nothing, each of the newest
  records of the deque is about to be announced, is the last event about its request
  that the stream has yet to receive, or is what the stream shows.

The difficult parts are pruning (the top rows of a finite set, by their number), the
window of a snapshot over a deque that moves, and a restart, where the deque
becomes the newest rows of the table in ascending order.

### Operations

`HInv` says of each backend that its counters count the observations in the log by
source and result, and that `recent_failures` has the times of the last observations
as long as these failed within the window of the very last one: all of them, and no
others (`Recent`). A success, which clears the list, and the removal of old failures,
which cuts off a prefix because the clock does not go back, both keep this.

`NoEditLost` is the safety half of the first part of `Settles`: whenever the watcher is idle with no
change unreported and no reload event in its channel, the configuration in force is
what the file holds, unless the file is rejected or its last change came before the
watch began. `WInv` says that the watcher otherwise still has something to do about
the file as it is (`Pending`), and that a configuration read from an older
version of the file is put in force only when that is so: an edit between
`reload_config_with_retries` and `apply_reloaded_config` leaves an event behind.
`AtRestInForce` and `WInv` are defined in `OperationsProofs`; no run lists them, as
`Settles` is what the run checks. That the watcher does come to rest is left to it.

### Induction, and what is only model-checked

`Induction` has the facts about sequences that queues and logs need. It proves
induction over natural numbers for sets (`NatInd`, from the well-foundedness of
strict inclusion of finite sets) and uses it to show what the recursive function
`Keep` computes, that recursive functions over a prefix exist, and
that a finite set of numbered elements can be listed in order. `Keep` stands for
`Iterator::filter` and `retain` in the modules that are proved about; it is
`SelectSeq` in a form that induction reaches.

Zenon proves the steps that name no prover; a step that needs arithmetic, records or
sequences says `SMTT(30)`. From nothing the proofs take about 50 minutes;
`InspectorStoreProofs` is the longest, at 18 minutes.

Only model-checked:

* liveness (`AdmittedIsAnswered`, `ShutdownEndsRequests`, `FinishReturnsWithFiles`,
  `DropReturns`, `Settles`, `ServerStops`): fairness and ENABLED are outside the
  prover's reach;
* the six properties of `Translation`. `UsageAsAsked`, `UsageCounted`,
  `ClientProtocol`, `StreamAgreesWithBuffered` and `ConversationKept` depend on what a
  backend may answer (`Exchanges`), so a theorem for every value of the constants
  would first have to state the grammar of the answers of each API, and then follow
  five normalizers through an induction over it. `SplitsDoNotMatter` needs no such
  assumption, but relates two runs of the same normalizer on different prefixes and
  the folds they are written with; no proof of it has been attempted.

## 5. Not modelled

* The cleaning of tool schemas for llama.cpp, form and multipart bodies, bodies
  that are no JSON, and the rewriting of query strings: text in, text out.
* The hash of sticky keys and the splitting of paths into segments.
* What a route inherits from its first backend (`extra_body`, `stream_capture`,
  `expose_backend_errors`): an input of `Proxy` and of `RequestRewrite`.
* The values in a configuration that are only checked one by one, addresses and
  secrets: a file says whether they pass.
* The schema check of the table and malformed rows; nothing in the code writes
  them.
* The walk over `X-Forwarded-For` and the comparison of keys: pure functions
  without state.
* Files of the debug capture, histograms and the exporter of metrics.
* Pure text: error envelopes, log lines, redaction, operator views, timestamps.
* The inspector page's JavaScript.

## 6. Plan

1. Proofs: `SplitsDoNotMatter` of `Translation`; for `SizesInForce`, which is part of
   `Settles`, what `NoEditLost` is for the configuration.
2. `Routing` over the configurations that `ConfigReload` produces, instead of its
   own instances.
3. The walk over `X-Forwarded-For` against a reference definition.
