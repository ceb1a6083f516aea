# A verification project for the ConfigDirector Python SDK

TLA+ models of the server SDK (`configdirector-server-sdk`) and of its
OpenFeature provider: what the threads of the SDK do to each other, model-checked
with TLC on small instances, and theorems about most of its parts, proved with
TLAPS for every size. Paths below are relative to
`src/configdirector-server-sdk/src/configdirector/` unless they start with `src/`.

## 1. The system

A *client* serves config values that a *transport* fetches. Evaluations are
recorded by *telemetry*, which reports them at intervals. Threads: the
application's own; one polling thread (`configdirector-polling`), or an event
source worker (`configdirector-eventsource`) and a heartbeat thread
(`configdirector-heartbeat`); one telemetry thread.

| component | state | operations | interacts with |
|---|---|---|---|
| client (`client.py`) | `_configs`, `_segments`, `_ready`, `_closed`, `_ready_event`, `_watchers`, `_event_handlers`, under one RLock | `initialize`, `close`, `get_value`, `get_all_configs`, `watch`/`unwatch`, `on`/`off`; `_on_bundle` | transports call `_on_bundle` on their threads; it calls user code with the lock released; user code may call the client back |
| polling transport (`_transport/polling.py`, `_http.py`) | `_last_update_timestamp`, `_fatal`, `_stop`, `_thread` | `connect` (a first fetch, then a thread), `close` | posts to the server; hands bundles to the client |
| streaming transport (`_transport/streaming.py`) | `_client`, `_settled`, `_fatal_error`, `_session_id`, heartbeat thread | `connect`, `close`, stream handlers | makes an event source client per `connect` |
| event source client (`_eventsource/client.py`, `transport.py`) | `_ready_state`, `_stop`, `_thread`, `_response`, `_last_event_id` | `connect`, `close`; the worker's connect/read/reconnect loop | calls its owner's handlers on the worker |
| event source parser (`_eventsource/parser.py`) | a partial line, a partial event | `feed`, `finish` | fed by the worker |
| connection plan (`_connection_plan.py`, `_validation.py`) | none | `plan_connection` | decides, at construction, which transport a client has |
| offline transport (`_transport/offline.py`, `_native_values.py`) | whether it loaded | `connect` | encodes a file's or given values as configs and hands one bundle to the client |
| telemetry (`_telemetry/`) | an event queue, a context registry, invalid-context counts, `_collecting`, `_stop`, `_flush_lock`; the reporter's `_send_requests` | `record_evaluation`, `record_invalid_context`, `flush`, `close` | called by every evaluation; posts to the server |
| evaluation, value parsing (`_evaluation/`, `_value_parser.py`) | none of their own | `evaluate`, `evaluate_condition`, `parse_config_value` | the client's `_evaluate` |
| bundle parsing (`_bundle.py`) | none | `parse_bundle` | the transports |
| test client (`_in_memory_connection.py`, `testing.py`) | values, a held attempt, a queue of updates | `set_value`, `remove_value`, `hold/complete/fail_initialization` | stands in for the transport |
| OpenFeature provider (`src/configdirector-openfeature-server-provider/`) | start-up state, readiness check thread | `initialize`, `shutdown`, `resolve_*` | wraps a client |

What is hard here: callbacks run between critical sections, on transport threads,
and may close the client or the transport they run on; several threads may be in
`initialize()`; `close()` races a request in flight, the start of a thread, a
flush, and a read that may stay silent for 45 seconds; requests fail in ways that
must be retried and ways that must not. `PROJECT.json` lists each of these, under
`hazards`, at its line.

What makes each part correct:

- *client*: readiness is announced once and after the first callbacks; a watcher
  is told of every change of what its key evaluates from; a definition is never
  evaluated against segments older than those it came with; removal and closing
  are final; `initialize()` is released.
- *polling*: the timestamp never claims more than is served, until requests overlap;
  every edit is served in the end; after a fatal answer, and after `close()`, nobody polls; `close()`
  returns.
- *event source*: messages are handled in order, once, across reconnects; a
  stopped worker ends; `close()` does not block.
- *streaming*: however often `connect()` is called, one stream and one heartbeat
  run, and none after `close()`; a fatal answer is raised; heartbeats go on.
- *parser and bundles*: what is parsed does not depend on how the network cut the
  stream; what cannot be read costs nothing else.
- *telemetry*: every evaluation goes into one report or is counted as dropped, in
  order, and is never reported ahead of its context; `close()` reports what is left;
  both threads end.
- *evaluation*: the first matching rule serves, whatever other rules raise; nobody
  is put in or out of a segment by an error; growing a bucket moves nobody out of
  it; an operator and its opposite never both hold or both fail; a value given to
  an offline client comes back as it was.
- *test client*: what the test stored is what is served; a held attempt is settled by
  one thread only; a held `initialize()` is released.
- *provider*: READY is reported once, and in the end; `shutdown()` returns; a
  resolution has the details of its own value.

## 2. The modules

| module | models |
|---|---|
| `ConfigClient` | `client.py` |
| `ConfigFeed` | abstract: what the client promises its users |
| `ConfigClientRefinement` | the mapping from `ConfigClient` to `ConfigFeed` |
| `PollingTransport` | `_transport/polling.py` and `_http.py`'s `post`, with the parts of `initialize()`, `close()` and `_on_bundle` that drive it |
| `EventSource` | `_eventsource/client.py` and the response of `_eventsource/transport.py` |
| `StreamingTransport` | `_transport/streaming.py`, over what `EventSource` details, with `initialize()` and `close()` of the client |
| `EventSourceParser` | `_eventsource/parser.py`, as operators on the parser's state |
| `Bundle` | `_bundle.py`, as operators |
| `StreamMessages` | the composition: reader loop, parser, message handler, `parse_bundle`, the state `_on_bundle` replaces |
| `Telemetry` | `_telemetry/collector.py`, `queue.py`, `reporter.py` |
| `Conditions` | conditions, segments and comparisons of `_evaluation/`, as operators |
| `Evaluation` | `_evaluation/config_evaluator.py`, `_value_parser.py` and `_evaluate` of `client.py` |
| `OfflineClient` | `_connection_plan.py`, `_transport/offline.py`, `_native_values.py`, over `Evaluation` |
| `ProviderContext` | `_context.py` and `_values.py` of the provider, as operators, over `Evaluation` |
| `Provider` | `provider.py` and `_resolution.py` of the provider |
| `InMemoryConnection` | `_in_memory_connection.py`, `testing.py` |
| `ConfigClientProofs` | theorems about `ConfigClient`: readiness, removal, closing, its data, and the refinement of `ConfigFeed` |
| `PollingTransportProofs`, `EventSourceProofs`, `StreamingTransportProofs`, `TelemetryProofs`, `ProviderProofs`, `InMemoryConnectionProofs` | theorems about the module of that name |
| `EvaluationProofs` | theorems about `Evaluation` and `OfflineClient` |
| `MCConfigClient`, `MCPolling`, `MCEventSource`, `MCStreaming`, `MCStreamMessages`, `MCTelemetry`, `MCEvaluation`, `MCProvider`, `MCInMemory` | instances for TLC |

In every module an action is one critical section of a lock, one access of an
attribute another thread also uses, or one step between two of these. `map` in
`PROJECT.json` gives the lines each definition stands for. A definition whose name
is another's followed by `_Something`, marked "Mutant of", is a plausible mistake
in that code; replacing the original by it must break the property it is listed
with, which shows that the property depends on the code.

### ConfigClient

A thread in `_on_bundle` goes through `idle -> emit -> calling -> idle`, the one
with the first bundle through `idle -> emit -> calling -> ready -> calling ->
idle`: `OnBundle` is the critical section, `EmitUpdated` and `EmitReady` are the
snapshots `_emit` takes, `CallHandler` and `NotifyWatcher` one callback each,
`FinishCalls` sets the ready event. A callback that calls the client back is a
step of another action between two callbacks: the lock is free then.

A config definition is `[ver, segs, came]`: the bundle it came in, the segments
its rules use, and those of them the same bundle carried (a history field, used
only by `DefinitionsMeetTheirSegments`). A segment is the bundle it came in. What
an evaluation computes is a function of these (`View`), so a property about `View`
is one about every value. `GetAllConfigs` follows one key of its answer: all keys
are read under one lock. Telemetry recording and `config_evaluated` handlers
change nothing of this state and are left out.

`ConfigFeed` is the promise without bundles, threads or locks: a state replaced as
a whole (`Publish`), readers that use one state each, and watchers that are owed
the state a key changed to and told of it (`Tell`). The mapping takes `view` to
what each key evaluates from, `owed` to the watchers each deliverer has still to
call with the snapshot it made, `told` to `seen` and `reads` to `looked`; every
step of the client is a step of the feed or leaves it unchanged. The feed says
nothing of the order in which two owed states are told: two deliverers call
watchers outside the lock, and a watcher may be told of the older state last.

### PollingTransport

The server's configuration is the number of edits made; a timestamp is the number
of edits at the time of the answer, a bundle the range `from+1..to`, and a full
bundle has `from = 0`. `served` is the set of edits the client's state reflects.
`SetStop` ends the waits in progress: a thread in `Event.wait` returns true once
`set()` ran, though the event is cleared again before the thread runs. Locals that
are dead are reset, to merge states. Polling mode always has a positive interval
(`_resolve_polling_interval`), so `connect()` always goes on to `_start_polling`.

`Faults` is what may go wrong with a request; the runs allow everything: one that
fails, one whose body breaks off, one that is refused for good. Two history variables
tell apart what the code handles from what it does not: `overlapped`, two threads were
between reading the timestamp and handing their bundle over at once; `raced`,
`close()` was called while an `initialize()` was in progress.

### EventSource

`connect()` number *n* makes stop event *n* and worker *n*. `_stop.is_set()` asks
the current event (`Stopped`), whichever worker asks. Handlers are places
(`Handlers`) where the worker may call `close()` itself, or unwind with
`SystemExit`. The server numbers its messages and a message carries its number as
id; a request with `Last-Event-ID` *n* gets the messages after *n*. A message that
was begun and not finished is never handled (`finish()` discards it), so a chunk
carries whole messages or none. Reconnect delays, the attempt counter (which only
delays depend on), comments, retry fields and the connection pool are left out.

`Sequential` says whether `connect()` waits until an earlier `close()` and worker
are over, as it does for the streaming transport, which makes a new client for
every connection. A stream may say nothing for ever; `ReadsEnd` and `StreamsSpeak` are
the hypotheses of the properties that need it to speak.

### StreamingTransport

`connect()` number *n* makes event source client, worker, stop event and heartbeat
*n* (`conn[n]`); `tr` holds the transport's attributes, each the number of the
connection it belongs to. `connect()` and `close()` are one action per attribute
they read or write, because nothing guards them: `StopHeartbeat`, `TakeHeartbeat`,
`JoinHeartbeat`, `TakeClient`, `CloseClient`, `JoinClient` are `close()`, which is
also how `connect()` begins. A `close()` may come from any caller or from a callback
on a worker; joining a thread that was made but not started raises. The worker's
own loop is that of `EventSource`, reduced to what the transport sees: the request
body is built (which draws a session), the request ends, the answer is a stream,
retried or fatal, messages arrive, the stream ends. Only one `initialize()` is in
progress at a time, and callbacks do not call `initialize()`. `raced` is history:
`close()` was called while a `connect()` was in progress.

### EventSourceParser, Bundle, StreamMessages

The parser's state is a record: the line begun, whether a line feed is pending
after a carriage return, the event so far and what was handed to the handlers
(`out`). Characters are tokens: line ends, colon, space, NUL, byte order mark,
digits, the field names as one token each, anything else. `Bundle` reads a JSON
document, a tagged value, and says for each config whether its definition is read,
is unreadable (one of the exceptions caught at `_bundle.py:78`) or raises
`OverflowError`, which is not caught there and refuses the whole bundle.
`StreamMessages` cuts a server's text anywhere (`ReadChunk`), feeds the parser and
applies the bundles. Its reference is `Events`: the lines of the text read so far,
split into events by definition, not by scanning. `MCStreamMessages` also has the
cases of the repository's parser tests as an assumption TLC evaluates
(`ParserCases`).

### Telemetry

An evaluation is its number in the order of `push()` and its context; `None` is no
context or an anonymous one. Flushers are the flush thread and the thread in
`close()`. Invalid contexts are counted, without their kind samples: one recorded
after collecting stopped goes to a counter nobody reports, and is left out. Times,
aggregation and the wire format are left out, but for one thing: a report that cannot
be written as JSON, because of a trait, raises (`ReportRaises`), and `flush()` logs that
and returns. A report is made (`Report`), raises or is withheld after a fatal answer;
whichever it is, `Settles` records what it carried: in `told` when the server accepted
it, in `failed` when not. Nothing that failed is sent again.

### Conditions and Evaluation

`Conditions` has no state. An outcome is `"yes"`, `"no"` or `"raises"`: an exception
passes through `all`, `any` and `not` up to `_evaluate_rule`, which disregards the
rule. Texts are opaque; what `float()`, `int()`, `json.loads`, the version and date
patterns and `startswith` make of them are constant tables, and the code around
those calls (which characters are let through, infinite and huge numbers, missing
version components, offsets, parts out of range, a long integer that is compared as the
float nearest to it) is modelled. The tables of `MCEvaluation` hold what Python gives
for those texts, among them `1e2` and `1e+22`, whose characters the code lets through.

`Evaluation` is one call: `TryRule` for each rule in the order `sorted()` gives,
`NoRuleMatched`, then `Return`, which parses. The sorted list is the set of positions
not tried yet (`todo`) with its order (`TriedBefore`); the next element is the one
before all others (`IsNext`). `IsInput` is the shape of what `_bundle.py` makes. `RaiseShare` is an edit in the
dashboard followed by the same call. Shares and slots are floats, and floats are
integers here: ten per tenth of a percent, so that a sum may fall just off its
tenth, as 0.1 + 0.2 does (`Plus`, `Rounded` in `MCEvaluation`; `SumsAreOrdered` has
TLC evaluate that rounding keeps sums in order). Hashing is `Slot`.

### OfflineClient and ProviderContext

`OfflineClient` goes from options to a value: `Create` plans the connection,
`Initialize` loads the source or raises, `GetValue` evaluates with the actions of
`Evaluation`. A native value is the value and what a walk of its contents finds;
`TooLong` stands for an integer of more digits than `str()` writes.
`ProviderContext` is the conversion of an OpenFeature context: dates become ISO
texts at any depth, names and identifiers are written with `str()` (`26.0` keeps
its point) while traits are compared as JSON (`26`), and a kind is passed on
whatever it is, so that a kind which is no text makes the client ignore the whole
context. Its results are inputs of `Evaluation`, and the cases of the provider's
`test_context.py` are an assumption TLC evaluates (`ContextCases`).

### Provider

OpenFeature's registry is external: it calls `initialize()` on a thread, records
READY when it returns and ERROR when it raises, and calls `shutdown()` at any time
after it began. The client is reduced to when config arrives, when it is closed
and the one call of its `client_ready` hook. `Judge` is the critical section that
ends `initialize()`; `FailureRecorded` and `CheckStops` are the readiness check's
loop, `ReportReady` and `EmitReady` what it shares with the hook. Handlers of the
registry's events are assumed not to call `shutdown()` on the readiness check's
own thread. Resolutions are steps a thread takes again and again, with the context
variable the hook writes as one slot per thread, which outlives a resolution.

### InMemoryConnection

`state` is what the state lock guards, `queue` and `delivering` what the delivery
lock does; every operation is its critical section (`SetValue`, `RemoveValue`,
`ReplaceValues`, `CompleteInitialization`, ...) and then the delivery, if any:
`Enqueue`, `TakeUpdate`, `HandOver`. Keys in `Given` have a value from the creation of the
test client. Attempts are numbered; a second one takes over from one that is held
(`TakesOver`). `overlapped` is history:
two threads had built updates and not queued them at the same time.

## 3. What is checked

| run | bounds | shows |
|---|---|---|
| `ConfigClient` | 1 key, 1 segment, 2 deliverers, 1 initializer, 1 reader, 1 watcher, 1 handler, 2 bundles of 6 shapes, `close()` at any time | `WatchersCurrent`, `DefinitionsMeetTheirSegments`, `ReadyOnce`, `FirstCallbacksFirst`, `RemovedStaysSilent`, `ClosedIsFinal`, `InitializeReleased`, `ImplementsFeed` |
| `PollingFetches` | 2 `initialize()` calls on 2 threads, 1 polling thread, 2 edits, every fault, `close()` at any time | `TimestampNotAheadAlone`, `EditsAreServed`, `FatalEndsPolling`, `QuietAfterClose`, `CloseReturns` |
| `PollingOverlap` | the same, 2 polling threads | violates `TimestampNotAhead` |
| `EventSourceStream` | 1 worker, 2 messages, 2 closing threads and the worker itself, streams that stay silent | `InOrderOnce`, `MessagesArrive`, `StoppedWorkerEnds`, `CloseNeverBlocks` |
| `StreamingConnections` | 2 connections one after the other, 2 sessions, 1 caller and the workers, close() at any time | `NothingLeftRunning`, `FatalRaised`, `HeartbeatsGoOn` |
| `StreamingCloseRace` | 1 connection, 2 callers | violates `NothingRunsAfterClose` |
| `StreamParsing` | every cut of streams of up to three messages or lines and some longer; 2 keys; limits of 5 characters | `CutsDoNotMatter`, `OthersServed` |
| `BundleOverflow` | the same streams | violates `LastReadableServed` |
| `TelemetryReports` | 2 recorders, 1 context, queues of 1, 2 evaluations, 1 invalid context, reports that are accepted, fail, raise or are refused | `EverythingAccounted`, `ContextsReported`, `CloseReportsAll`, `ReportsInOrder`, `Shutdown` |
| `EvaluationOutcomes` | over 14000 inputs: one condition of every type on 25 values, pointers, segments of up to 2 groups of 2, 3 rules of 5 shapes and 3 orders, 3 buckets of 0 to 0.4%, every text read as 6 types, OpenFeature contexts with attributes of every type; 1 edit; every plan of an offline client, 20 values given and 14 files | `FirstMatchWins`, `ServedOnlyWhenConditionsHold`, `ZeroShareUnreachable`, `RolloutKeepsItsContexts`, `ComparisonsConsistent`, `OfflineValuesComeBack` |
| `ProviderLifecycle` | 1 life of a provider, 2 threads that resolve any number of times | `ReadyReportedOnce`, `DetailsMatchValue`, `ReadyInTheEnd`, `ShutdownEnds` |
| `InMemoryDelivery` | 1 key with a value, 2 threads of a test, 2 stored values (the first one included), 2 initializing threads, 2 attempts | `StoredIsServed`, `OneOwner`, `HeldIsReleased` |

Why the bounds are enough. The client: two deliverers with a bundle each are the least
that can overlap, and give a first bundle and an update of it, in any combination of
full and delta, definition, segment and unreadable key; keys are independent of each
other. What a third bundle adds is not searched: each safety property of this run is
also proved, for any number of bundles. Polling: the races need two fetches and one
`close()`, and an edit between two answers. The event source: a message handled
and one to come, and a `close()` whose join the worker slips past. Streaming: a second
connection while the first one's worker, heartbeat or fatal answer is still on its
way. Parsing: a cut changes at most the line and the event it falls in, and limits
of five characters put them within reach of every short text. The test client: an
update in the queue, one being handed over and one being built. The provider has
one life; its resolutions share nothing but a slot, and the run does not bound
them. Telemetry: queues that overflow with the evaluations allowed, a flush on each
side of `close()`. Evaluation: rules interact only through their
order and through matching first, so three show every pattern of two with one in
between; groups and conditions likewise; shares of tenths reach sums that round up
and sums that round down.

The type invariants (`TypeOK`) of `ConfigClient`, `PollingTransport`, `EventSource`,
`StreamingTransport` and `Telemetry` are proved, and that of `InMemoryConnection` as part of
`DeliveryInv`; no run lists them.

No run checks for deadlock: every one of these systems may rightly stop (a closed
client, an exhausted bound), and blocking is what the liveness properties are
about.

### Disagreements between the code and what it says

Three runs expect a violation.

- `StreamingCloseRace`: `initialize()` is in `StreamingTransport.connect()`, has started
  the event source client (`streaming.py:88`) and made the heartbeat thread, but not
  started that one. `close()` takes the heartbeat and joins it, and a join of a thread
  that was not started raises (`streaming.py:128`): the client is never stopped. The
  docstring of `close()` (`types.py:432`) says "Closes all connections". With one step
  more there is the other half of this race: `close()` finds neither, and `connect()`
  starts both after it.
- `PollingOverlap`: two threads are in `initialize()`, with an edit between the answers
  they get. Their bundles are handed over in the other order than their timestamps are
  stored (`polling.py:125`, `126`): the older one is served, and the server withholds the
  edit from then on. `types.py:369`: "safe to share across threads".
- `BundleOverflow`: a number no int holds (`"order": 1e999`) raises `OverflowError`,
  which `_bundle.py:78` does not catch, and costs the whole bundle. The comment there says
  "One unreadable config must not cost the application every other config in the bundle".

In the passing runs the following happen as well; the property concerned names the case
and is checked for all others.

- `close()` during an `initialize()` in polling mode (`raced`, in `QuietAfterClose` and
  `CloseReturns`): `_start_polling` clears the stop event `close()` has just set
  (`polling.py:76`), or starts a thread `close()` did not see. This is the polling
  transport's form of `StreamingCloseRace`.
- A connection that breaks while a body is read (`"broken"`, in `EditsAreServed`) raises
  a urllib3 error that `post()` does not translate (`_http.py:69`), and `_poll` ends the
  thread (`polling.py:91`). The comment at `polling.py:140` says network failures "are
  worth retrying".
- `close()` takes `_response` before it sets the stop event (`SlippedBy`, in
  `CloseNeverBlocks`; `_eventsource/client.py:125`, `128`): a worker that publishes and
  passes its check in between reads on until the stream speaks, for up to the read
  timeout, while `close()` gives up after five seconds. The comment at line 205 takes
  this gap for closed.
- Two deliverers (`overlapped`, in `WatchersCurrent`): a watcher may be told of the older
  state last.
- Two threads of a test (`overlapped`, in `StoredIsServed`) may queue their updates in
  the order opposite to that of their changes. A test with one thread is safe. Neither
  does an operation always deliver "on the calling thread before it returns"
  (`testing.py:41`): while another thread delivers, it leaves its update to that one.
- A telemetry report that failed is gone, in `failed`, as the message at
  `_telemetry/reporter.py:139` says ("were discarded"); the comment at line 27 speaks of
  "letting the next flush carry the events instead". `EverythingAccounted` counts it as
  failed, and `CloseReportsAll` says only that what was recorded went into a report.
- A trait that JSON cannot hold, a set say, makes `json.dumps` raise before a request is
  made (`ReportRaises`; `reporter.py:89`); the whole batch is lost with a warning.

Not covered by any property:

- `MarkMayBeCut`, which is false in the runs: when the bytes of a byte order mark arrive
  in two chunks, the first one is fed as the empty text and ends the search for a mark
  (`parser.py`, `feed`), so that `CutsDoNotMatter` does not hold.
- `StreamingTransport.close()` does not set `_settled`, so an `initialize()` that
  waits there is released only by its timeout, where the comment at `client.py:292`
  speaks of anyone still blocked in `initialize()`.
- `_set_state` checks and writes in two steps (`_eventsource/client.py:148`), so that
  `ready_state` may be `OPEN` after `close()`.
- A share may be a tenth of a percent off because totals are floats
  (`config_evaluator.py:120`), where the comment says exact.

### Fairness

Threads that can run do, callbacks return, `Event.wait` and requests end (each has
a timeout). Nothing makes anybody call `initialize()`, `close()` or register, makes
a bundle arrive, or lets `initialize()`'s timeout elapse; nor is a join's timeout
ever relied on, so that "close() returns" means without it. Strong fairness is
assumed of the environment only: a polling thread that asks for ever is answered some
time (`PollingTransport!Answered`). Of event streams `Spec` assumes nothing but that a
request ends; a property that needs more says so: `StoppedWorkerEnds` that a read ends,
which takes up to the read timeout (`ReadsEnd`), `MessagesArrive` also that streams open
and carry what was published (`StreamsSpeak`), `CloseNeverBlocks` neither. In `StreamingTransport` requests end and the
heartbeat's interval elapses, and nothing has to answer, send or close; in
`InMemoryConnection` nobody has to settle an attempt; in `Provider` the client's
`initialize()` ends, by its timeout at the latest.

## 4. What is proved

Each theorem holds for every value of the constants that the module's named
assumption allows (TLC evaluates those assumptions in the module's runs), and under
the further hypothesis listed, if any.

| module | theorem | states | hypothesis |
|---|---|---|---|
| `ConfigClientProofs` | `TypeCorrect` | `Spec => []TypeOK` | |
| | `ReadyEmittedOnce` | `Spec => []ReadyOnce` | |
| | `ReadyAfterFirstCallbacks` | `Spec => []FirstCallbacksFirst` | |
| | `RemovedAreSilent` | `Spec => RemovedStaysSilent` | |
| | `CloseIsFinal` | `Spec => ClosedIsFinal` | |
| | `DefinitionsAndSegments` | `Spec => []DefinitionsMeetTheirSegments` | |
| | `WatchersMissNothing` | `Spec => []WatchersCurrent` | |
| | `ClientIsAFeed` | `Spec => ImplementsFeed` | |
| `PollingTransportProofs` | `TypeCorrect` | `Spec => []TypeOK` | |
| | `AheadOnlyByOverlap` | `Spec => []TimestampNotAheadAlone` | |
| `EventSourceProofs` | `TypeCorrect` | `Spec => []TypeOK` | |
| | `MessagesInOrder` | `Spec => []InOrderOnce` | `Sequential` |
| `StreamingTransportProofs` | `TypeCorrect` | `Spec => []TypeOK` | |
| | `NothingLeftBehind` | `Spec => []NothingLeftRunning` | |
| `TelemetryProofs` | `TypeCorrect` | `Spec => []TypeOK` | |
| | `ReportsNeverOvertake` | `Spec => ReportsInOrder` | |
| | `NothingUnaccounted` | `Spec => []EverythingAccounted` | |
| | `ContextsGoFirst` | `Spec => []ContextsReported` | |
| | `ClosedMeansReported` | `Spec => []CloseReportsAll` | |
| `EvaluationProofs` | `FirstRuleWins` | `SpecAll => []FirstMatchWins` | |
| | `ServedWhenHeld` | `SpecAll => []ServedOnlyWhenConditionsHold` | |
| | `NoShareNoService` | `SpecAll => []ZeroShareUnreachable` | `FloatsAdd`, `SlotsCount` |
| | `RolloutOnlyGrows` | `SpecAll => []RolloutKeepsItsContexts` | `FloatsAdd`, `SlotsCount` |
| | `ComparisonsAgree` | `SpecAll => []ComparisonsConsistent` | |
| | `GivenValuesComeBack` | `SpecAll => []OfflineValuesComeBack` | |
| `ProviderProofs` | `ReadyToldOnce` | `Spec => []ReadyReportedOnce` | |
| | `DetailsAreOnesOwn` | `Spec => []DetailsMatchValue` | |
| `InMemoryConnectionProofs` | `StoredValuesAreServed` | `Spec => []StoredIsServed` | |
| | `HeldAttemptHasOneOwner` | `Spec => []OneOwner` | |

The hypotheses are those of the code. The streaming transport makes a new event source
client for every connection, which is `Sequential`. `FloatsAdd` says of sums what IEEE
arithmetic guarantees: they are no smaller when the second part is not, and adding
nothing or less makes nothing larger; `SlotsCount` says that a hash modulo something is
not negative.

*Client.* Types are inductive by themselves, given what the operators on configs
return (`ViewType`, `BundleType`, `AppliedType`). `ReadyOnce` is not: it needs to be known
where the one right to emit `client_ready` is. The invariant `ReadyInv` says that at
most one deliverer has `first`, that there is none before a client is ready or
closed, and none once the event was emitted; and that one that has `first` and has
gone past its callbacks owes no watcher a call, with the event set only by it or by
`close()`. `FirstCallbacksFirst` follows from the same invariant. `RemovedStaysSilent`
rests on `RegInv`: no registration in place was ever taken out. `ClosedIsFinal` is a
property of each step, given types and that a closed client is not ready.

*The client's data.* `CoherenceInv` lifts `DefinitionsMeetTheirSegments` from what is
read to the whole state, the snapshots and what watchers were told, and adds that no
definition is newer than the last bundle, so that a delta's segments are new enough
for it (`CoherentApplied`). `CurrentInv` says that, until deliveries overlap, one thread at
most delivers, its snapshot is the state in place and a watcher was told of it or is still
to be (`InTurn`); `overlapped` never goes away (`OverlapStays`), and without it a delivery
begins when nobody delivers (`OneAtATime`). The refinement is
a step simulation (`FeedStep`): `OnBundle` is `Publish` (`OnBundlePublishes`),
`NotifyWatcher` is `Tell` (`NotifyTells`), registering, reading and closing have a step
of their own there, and every other step leaves the feed as it is, for which it must be known that a deliverer which is
not calling owes nothing (`OwesInv`).

*Polling.* `FetchInv`: until requests overlap, one thread at most is between reading the
timestamp and handing its bundle over; so what a bundle in flight is a delta of is served,
and it goes at least as far as the timestamp (`Stamps`). Initializers, polling threads,
`close()` and failures come and go around it, in any number.

*Event source.* Most steps of a worker touch no message; `StepKinds` sorts the steps
into such walks and the five that do. `OrderInv` says that at most one worker is
alive (`OneLive`), that the id kept is that of the last message handled, and that an
open stream stands there (`AtLast`).

*Streaming.* `CallInv` says how far the one `connect()` in progress has come and what
it has made by then; `RunInv` says, for each point of `connect()` and `close()`
(`Phase`), which stop events are set and which threads are gone. Until `close()` races a
`connect()` at most one of these calls is in progress, and every connection but the
current one has been told to stop.

*Telemetry.* `LockInv`: a flusher holds the lock from its first snapshot to the
answer, so at most one report is outstanding; what is in it is filled in order, and
only `close()` or a fatal answer ends collecting. `OrderInv` adds that what is reported
is older than what is in the report under way, and that older than the queue, whether
reports succeed or fail; `AccountInv`,
`ContextInv` and `CloseInv` add where every evaluation, every context and every count
is. Lemmas on queues at their limits (`QueuedFacts`, `AddedFacts`, `PushFacts`) are
shared by all four.

*Evaluation.* `EvalInv`: rules that were tried did not match, and what was chosen is
the match of the rule before all that are left. `Membership` follows exceptions
through `any` and `all`, for any number of groups and conditions. What a sum of any
number of shares is, is proved by taking the first position at which it fails
(`FirstPosition`): that running totals exist (`TotalsUnfold`), are numbers and depend
only on the buckets before (`TotalsAgree`). `RolloutInv` adds that after an edit the
rule that served before gives the same match (`BucketKept`), and those tried before
it none.

*Provider.* `ReportInv` treats the start-up state as a token: whoever moves it to
ready has taken it, nobody reports without it, and the readiness check only waits
for a failure that nobody reported ready. `DetailsInv` says what each thread's slot
holds between the steps of a resolution: nothing from when it is cleared until the hook
writes, whatever an earlier resolution left there.

*Comparisons.* An operator is the dashboard's spelling of one outcome or of its
opposite (`UnderOperator`, `OpposedOutcomes`), so the negations go by cases over the types
of conditions (`NegationsHold`); what is left is that both comparisons are orders. Numbers
that `float()` reads and that are finite are compared as such (`NumbersAreInts`); versions
are compared part by part, a missing part being 0, and that is the order of triples
(`VersionsAreOrdered`). Of the tables it is assumed that the parts of a version are
numbers, that `float()` never gives an integer beyond the range of floats, and that what
a condition finds is a text or number the tables know (`IsCondition`).

*Offline values.* `WrittenIsRead` is the round trip of one value, type by type: what
`_native_values.py` writes of a value that it accepts (no float that is not finite, no
integer that is too long) is not empty and is read by
`_value_parser.py`, for a default of that type, as that value. `ReadInv` takes it
through planning, loading and evaluating: the config evaluated is the one made of some
given value (`Serves`), has no rules, and so its own text is what is parsed. Assumed of
Python (`TextsAssumption`, `EvaluationAssumption`, `OfflineAssumption`): `int()` reads
back the decimals of an integer, however long, `float()` those of a float, and gives the
nearest float for other integers, "true" and "false" are
read as Booleans, `json.loads` gives back the shape of what `json.dumps` wrote.

*Test client.* `StoredIsServed` speaks of quiet states only, so `DeliveryInv` says what
holds in between. Updates on their way are in an order: the one being handed over, those
queued, the one that was built and not queued. The last of them to mention a key carries
what is stored under it, and when none does it is served (`OnTheWay`). That needs to be
known that one thread at most drains the queue, that a queue which is not empty is being
drained, and that, unless updates overlapped, one thread at most has built one.
`DeliveryKinds` sorts the steps into four that touch updates and all others.
`HeldAttemptHasOneOwner` is inductive by itself, given types: each step moves an attempt
from one owner to the next, or settles it. It is the safety half of `HeldIsReleased`: an
attempt that was taken away is never forgotten and never settled twice.

Only model-checked:

- all liveness (the `~>` properties), which rests on fairness and so on `ENABLED`: out
  of the prover's reach;
- `CutsDoNotMatter` and `OthersServed`: what a parser computes of a whole text, and
  what a sequence of bundles leaves, by induction over texts and sequences, which no
  installed prover does;
- `NothingRunsAfterClose`, `TimestampNotAhead` and `LastReadableServed`, which the code
  violates.

Every other safety property that a run checks is a theorem.

## 5. Not modelled, and what could follow

Every component with state of its own has a module. What could follow: a proof of the
parser's step (one character at a time) against a reference for one more character,
which is all of `CutsDoNotMatter` but the induction; and handlers that are registered
more than once.

Not modelled:

- the hash (`_evaluation/_rapidhash.py`): 64-bit arithmetic on bytes, out of TLC's
  reach; what depends on it takes the slot it gives as a parameter;
- the telemetry wire format (`events.py`, `value_id.py`, `compact_json.py`) and the
  headers and identifiers of `_wrappers.py`: characters put together, no state;
- what the version, date and number patterns accept (strings): tables; an identifier or a
  trait that is an integer too long for `str()`, which would raise in a condition;
- the classes and docstrings of `types.py`, errors and the logger: declarations;
- reconnect delays, intervals and times, connection pools;
- re-registration of one callable with `on()` after `off()` (`client.py:595`): handlers
  are callables registered at most once;
- `src/profiling` and `src/samples`, which are not part of the library.
