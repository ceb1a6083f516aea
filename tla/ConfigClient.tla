---------------------------- MODULE ConfigClient ----------------------------
(***************************************************************************)
(* The client of configdirector/client.py: the config state it serves, the *)
(* delivery of bundles to it by transport threads, watches, event          *)
(* handlers, evaluation, initialize() and close().                         *)
(*                                                                         *)
(* Every action is one critical section of the client's RLock, or one step *)
(* taken between two of them.  User callbacks run with the lock released,  *)
(* so whatever a callback calls on the client is a step of some thread     *)
(* between two callbacks, and needs no action of its own.                  *)
(*                                                                         *)
(* Data is abstracted to what the properties tell apart.  A definition is  *)
(* the number of the bundle it came in, the segments its rules use and     *)
(* those of them that came in the same bundle; a segment is the number of  *)
(* the bundle it came in.  Watchers are registrations, as _Watcher objects *)
(* are: watching twice with one callable makes two of them.  Handlers are  *)
(* distinct callables, each registered at most once.                       *)
(***************************************************************************)
EXTENDS Naturals

CONSTANTS
  Keys,         \* config keys
  Segs,         \* segment ids
  Watchers,     \* registrations made by watch()
  WatchKey,     \* the key each of them watches
  Handlers,     \* registrations made by on()
  HandlerEvent, \* the event each of them is for
  Deliverers,   \* threads that call _on_bundle
  Readers,      \* threads that call get_value
  Initializers, \* threads that call initialize()
  Shapes,       \* the bundles the server may send, see BundleShape
  MaxBundles,   \* bound: bundles delivered in a behaviour
  None          \* Python's None: no definition, no segment

Events == {"configs_updated", "client_ready"}

(* What a bundle says, before it is numbered: which keys it defines and    *)
(* with which segments, which segments it carries, which keys it mentions  *)
(* with a definition that could not be read.                               *)
BundleShape == [kind: {"full", "delta"},
                configs: [Keys -> (SUBSET Segs) \cup {None}],
                segments: SUBSET Segs,
                unreadable: SUBSET Keys]

(* What _configs, _segments and an evaluation of one key are made of.      *)
Def == [ver: 1..MaxBundles, segs: SUBSET Segs, came: SUBSET Segs]
Configs == [Keys -> Def \cup {None}]
Segments == [Segs -> (1..MaxBundles) \cup {None}]
Views == [def: Def \cup {None}, segs: Segments]

ASSUME ConfigClientAssumption ==
  /\ WatchKey \in [Watchers -> Keys]
  /\ HandlerEvent \in [Handlers -> Events]
  /\ Watchers \cap Handlers = {}
  /\ MaxBundles \in Nat
  /\ \A x \in (1..MaxBundles) \cup (SUBSET Segs) \cup Def \cup Views : x # None
  /\ Shapes \subseteq BundleShape
  /\ \A b \in Shapes : \A k \in b.unreadable : b.configs[k] = None

VARIABLES
  loaded,       \* _configs is not None
  configs,      \* _configs
  segments,     \* _segments
  ready,        \* _ready
  overlapped,   \* history: a bundle was applied while another thread's was announced
  closed,       \* _closed
  readyEvent,   \* _ready_event
  closing,      \* progress of the close() call that closed the client
  watching,     \* _watchers: the registrations in place
  handlers,     \* _event_handlers: the registrations in place
  removed,      \* history: registrations that were taken out
  sent,         \* bundles handed to _on_bundle so far
  dpc,          \* per deliverer: where in _on_bundle it is
  snap,         \* per deliverer: configs and segments snapshotted under the lock
  first,        \* per deliverer: first_bundle
  hTodo,        \* per deliverer: handlers _emit has still to call
  wTodo,        \* per deliverer: watchers _notify_watchers has still to call
  seen,         \* per watcher: what its callback was last given
  readyEmits,   \* how often client_ready was emitted
  looked,       \* per reader: the definition and segments get_value read
  ipc           \* per initializer: where in initialize() it is

stateVars == <<loaded, configs, segments, ready, overlapped>>
regVars == <<watching, handlers, removed>>
deliveryVars == <<sent, dpc, snap, first, hTodo, wTodo, readyEmits>>
vars == <<stateVars, closed, readyEvent, closing, regVars, deliveryVars, seen,
          looked, ipc>>

-----------------------------------------------------------------------------
(* Definitions, segments and what evaluating a key depends on              *)

(* Everything _evaluate() takes from the client's state for one key.       *)
View(k, cfg, sgs) ==
  [def |-> cfg[k],
   segs |-> [s \in Segs |->
               IF cfg[k] # None /\ s \in cfg[k].segs THEN sgs[s] ELSE None]]

(* The configs and segments a bundle carries, numbered n.                  *)
BundleConfigs(b, n) ==
  [k \in Keys |-> IF b.configs[k] = None THEN None
                  ELSE [ver |-> n, segs |-> b.configs[k],
                        came |-> b.configs[k] \cap b.segments]]
BundleSegments(b, n) == [s \in Segs |-> IF s \in b.segments THEN n ELSE None]

Overlay(old, new) ==
  [x \in DOMAIN old |-> IF new[x] = None THEN old[x] ELSE new[x]]

(* A full bundle replaces the state, but keeps the previous definition of  *)
(* a key it mentions unreadably; a delta is laid over the state.           *)
ReplacesState(b) == ~loaded \/ b.kind = "full"

NewConfigs(b, n) ==
  IF ReplacesState(b)
    THEN [k \in Keys |-> IF k \in b.unreadable THEN configs[k]
                         ELSE BundleConfigs(b, n)[k]]
    ELSE Overlay(configs, BundleConfigs(b, n))

\* Mutant of NewSegments: a delta's segments yield to the ones in place.
NewSegments_KeepsOld(b, n) ==
  IF ReplacesState(b) THEN BundleSegments(b, n)
                      ELSE Overlay(BundleSegments(b, n), segments)

NewSegments(b, n) ==
  IF ReplacesState(b) THEN BundleSegments(b, n)
                      ELSE Overlay(segments, BundleSegments(b, n))

UsesAnySegment(def, sgs) == def # None /\ def.segs \cap sgs # {}

\* Mutant of UpdatedKeys: the keys that use a segment the bundle brought are
\* forgotten.
UpdatedKeys_DefinedOnly(b, n) == {k \in Keys : b.configs[k] # None}

UpdatedKeys(b, n) ==
  {k \in Keys : b.configs[k] # None
                \/ UsesAnySegment(NewConfigs(b, n)[k], b.segments)}

RemovedKeys(b, n) ==
  {k \in Keys : configs[k] # None /\ NewConfigs(b, n)[k] = None}

-----------------------------------------------------------------------------
(* _on_bundle, by deliverer d                                              *)

\* Mutant of FirstBundle: judged by the event, which is set after the callbacks.
FirstBundle_ByEvent == ~readyEvent

(* first_bundle, as computed under the lock.                               *)
FirstBundle == ~ready

\* Mutant of Ignored: the check of _closed is missing.
Ignored_Never == FALSE

(* A bundle that arrives once the client is closed is ignored.             *)
Ignored == closed

(* The critical section: apply the bundle, snapshot who is to be told.     *)
OnBundle(d, b) ==
  LET n == sent + 1
      changed == UpdatedKeys(b, n) \cup RemovedKeys(b, n)
  IN /\ dpc[d] = "idle"
     /\ sent < MaxBundles
     /\ ~Ignored
     /\ sent' = n
     /\ loaded' = TRUE
     /\ configs' = NewConfigs(b, n)
     /\ segments' = NewSegments(b, n)
     /\ first' = [first EXCEPT ![d] = FirstBundle]
     /\ ready' = TRUE
     /\ overlapped' = (overlapped \/ \E e \in Deliverers \ {d} : dpc[e] # "idle")
     /\ snap' = [snap EXCEPT ![d] = [configs |-> NewConfigs(b, n),
                                     segments |-> NewSegments(b, n)]]
     /\ wTodo' = [wTodo EXCEPT ![d] = {w \in watching : WatchKey[w] \in changed}]
     /\ dpc' = [dpc EXCEPT ![d] = "emit"]
     /\ UNCHANGED <<closed, readyEvent, closing, regVars, hTodo,
                    seen, readyEmits, looked, ipc>>

OnBundleIgnored(d) ==
  /\ dpc[d] = "idle"
  /\ sent < MaxBundles
  /\ Ignored
  /\ sent' = sent + 1
  /\ UNCHANGED <<stateVars, closed, readyEvent, closing, regVars,
                 dpc, snap, first, hTodo, wTodo, readyEmits, seen, looked, ipc>>

(* What _emit() copies, under the lock, before it calls anyone.            *)
Registered(e) == {h \in handlers : HandlerEvent[h] = e}

(* _emit("configs_updated"): the handlers are snapshotted under the lock.  *)
EmitUpdated(d) ==
  /\ dpc[d] = "emit"
  /\ hTodo' = [hTodo EXCEPT ![d] = Registered("configs_updated")]
  /\ dpc' = [dpc EXCEPT ![d] = "calling"]
  /\ UNCHANGED <<stateVars, closed, readyEvent, closing, regVars,
                 sent, snap, first, wTodo, readyEmits, seen, looked, ipc>>

(* One handler runs; an exception it raises is caught and logged.          *)
CallHandler(d, h) ==
  /\ dpc[d] = "calling"
  /\ h \in hTodo[d]
  /\ hTodo' = [hTodo EXCEPT ![d] = @ \ {h}]
  /\ UNCHANGED <<stateVars, closed, readyEvent, closing, regVars,
                 sent, dpc, snap, first, wTodo, readyEmits, seen, looked, ipc>>

\* Mutant of NotifyWatcher: the watcher is evaluated on the state as it is now.
NotifyWatcher_Live(d, w) ==
  /\ dpc[d] = "calling"
  /\ hTodo[d] = {}
  /\ w \in wTodo[d]
  /\ seen' = [seen EXCEPT ![w] = View(WatchKey[w], configs, segments)]
  /\ wTodo' = [wTodo EXCEPT ![d] = @ \ {w}]
  /\ UNCHANGED <<stateVars, closed, readyEvent, closing, regVars,
                 sent, dpc, snap, first, hTodo, readyEmits, looked, ipc>>

(* _notify_watchers: one watcher is evaluated, on the snapshot, and called.*)
NotifyWatcher(d, w) ==
  /\ dpc[d] = "calling"
  /\ hTodo[d] = {}
  /\ w \in wTodo[d]
  /\ seen' = [seen EXCEPT
                ![w] = View(WatchKey[w], snap[d].configs, snap[d].segments)]
  /\ wTodo' = [wTodo EXCEPT ![d] = @ \ {w}]
  /\ UNCHANGED <<stateVars, closed, readyEvent, closing, regVars,
                 sent, dpc, snap, first, hTodo, readyEmits, looked, ipc>>

\* Mutant of FinishCalls: the event is set without waiting for the watchers.
FinishCalls_Early(d) ==
  /\ dpc[d] = "calling"
  /\ hTodo[d] = {}
  /\ readyEvent' = (readyEvent \/ first[d])
  /\ dpc' = [dpc EXCEPT ![d] = IF first[d] THEN "ready" ELSE "idle"]
  /\ UNCHANGED <<stateVars, closed, closing, regVars, sent, snap, first, hTodo,
                 wTodo, readyEmits, seen, looked, ipc>>

(* Every callback has run: the first bundle goes on to set _ready_event.   *)
FinishCalls(d) ==
  /\ dpc[d] = "calling"
  /\ hTodo[d] = {}
  /\ wTodo[d] = {}
  /\ readyEvent' = (readyEvent \/ first[d])
  /\ dpc' = [dpc EXCEPT ![d] = IF first[d] THEN "ready" ELSE "idle"]
  /\ UNCHANGED <<stateVars, closed, closing, regVars, sent, snap,
                 first, hTodo, wTodo, readyEmits, seen, looked, ipc>>

(* _emit("client_ready"), whose handlers are called by CallHandler.        *)
EmitReady(d) ==
  /\ dpc[d] = "ready"
  /\ hTodo' = [hTodo EXCEPT ![d] = Registered("client_ready")]
  /\ first' = [first EXCEPT ![d] = FALSE]
  /\ readyEmits' = readyEmits + 1
  /\ dpc' = [dpc EXCEPT ![d] = "calling"]
  /\ UNCHANGED <<stateVars, closed, readyEvent, closing, regVars,
                 sent, snap, wTodo, seen, looked, ipc>>

-----------------------------------------------------------------------------
(* watch(), unwatch(), on(), off()                                         *)

(* The history variable seen starts at what the key evaluates from at the  *)
(* moment of registration: watch() itself calls nothing.  Neither watch()  *)
(* nor on() looks at _closed.                                              *)
Watch(w) ==
  /\ seen[w] = None
  /\ watching' = watching \cup {w}
  /\ seen' = [seen EXCEPT ![w] = View(WatchKey[w], configs, segments)]
  /\ UNCHANGED <<stateVars, closed, readyEvent, closing, handlers, removed,
                 deliveryVars, looked, ipc>>

(* unwatch(key, callback), or close() of the Subscription: one watcher;    *)
(* unwatch(key): every watcher of the key; unwatch_all(): all of them.     *)
Unwatch(gone) ==
  /\ \/ \E w \in watching : gone = {w}
     \/ \E k \in Keys : gone = {w \in watching : WatchKey[w] = k}
     \/ gone = watching
  /\ watching' = watching \ gone
  /\ removed' = removed \cup gone
  /\ UNCHANGED <<stateVars, closed, readyEvent, closing, handlers,
                 deliveryVars, seen, looked, ipc>>

On(h) ==
  /\ h \notin handlers \cup removed
  /\ handlers' = handlers \cup {h}
  /\ UNCHANGED <<stateVars, closed, readyEvent, closing, watching, removed,
                 deliveryVars, seen, looked, ipc>>

(* off(event, handler), or close() of its Subscription; off(event).        *)
Off(gone) ==
  /\ \/ \E h \in handlers : gone = {h}
     \/ \E e \in Events : gone = Registered(e)
  /\ handlers' = handlers \ gone
  /\ removed' = removed \cup gone
  /\ UNCHANGED <<stateVars, closed, readyEvent, closing, watching,
                 deliveryVars, seen, looked, ipc>>

-----------------------------------------------------------------------------
(* get_value() by reader r: the lock is held for the lookup only; the      *)
(* reason of a missing definition is decided later, by reading is_ready.   *)

Lookup(r, k) ==
  /\ looked[r] = None
  /\ looked' = [looked EXCEPT ![r] = View(k, configs, segments)]
  /\ UNCHANGED <<stateVars, closed, readyEvent, closing, regVars,
                 deliveryVars, seen, ipc>>

(* get_all_configs(): nothing before the client is ready; otherwise every  *)
(* definition and the segments are copied under one lock, and evaluated    *)
(* after it.  The reader follows one of the keys in the answer.            *)
GetAllConfigs(r, k) ==
  /\ ready /\ loaded
  /\ configs[k] # None
  /\ Lookup(r, k)

Reason(view) ==
  IF view.def # None THEN "evaluated"
  ELSE IF ready THEN "config-state-missing" ELSE "client-not-ready"

EvaluateAndReturn(r, reason) ==
  /\ looked[r] # None
  /\ reason = Reason(looked[r])
  /\ looked' = [looked EXCEPT ![r] = None]
  /\ UNCHANGED <<stateVars, closed, readyEvent, closing, regVars,
                 deliveryVars, seen, ipc>>

-----------------------------------------------------------------------------
(* initialize() and close()                                                *)

(* _raise_if_closed, then transport.connect(), which the transport modules *)
(* detail: it returns or raises, and an exception ends initialize().       *)
Initialize(i) ==
  /\ ipc[i] = "idle"
  /\ ~closed
  /\ ipc' = [ipc EXCEPT ![i] = "connecting"]
  /\ UNCHANGED <<stateVars, closed, readyEvent, closing, regVars,
                 deliveryVars, seen, looked>>

ConnectEnds(i, raised) ==
  /\ ipc[i] = "connecting"
  /\ ipc' = [ipc EXCEPT ![i] = IF raised THEN "idle" ELSE "waiting"]
  /\ UNCHANGED <<stateVars, closed, readyEvent, closing, regVars,
                 deliveryVars, seen, looked>>

(* _ready_event.wait(remaining): the event was set, or time ran out.       *)
WaitEnds(i) ==
  /\ ipc[i] = "waiting"
  /\ readyEvent
  /\ ipc' = [ipc EXCEPT ![i] = "idle"]
  /\ UNCHANGED <<stateVars, closed, readyEvent, closing, regVars,
                 deliveryVars, seen, looked>>

WaitTimesOut(i) ==
  /\ ipc[i] = "waiting"
  /\ ~readyEvent
  /\ ipc' = [ipc EXCEPT ![i] = "idle"]
  /\ UNCHANGED <<stateVars, closed, readyEvent, closing, regVars,
                 deliveryVars, seen, looked>>

\* Mutant of Close: the event handlers stay registered.
Close_KeepsHandlers ==
  /\ ~closed
  /\ closed' = TRUE
  /\ ready' = FALSE
  /\ watching' = {}
  /\ removed' = removed \cup watching \cup handlers
  /\ closing' = "release"
  /\ UNCHANGED <<loaded, configs, segments, overlapped, readyEvent, handlers,
                 deliveryVars, seen, looked, ipc>>

(* The critical section of the close() call that closes the client; later  *)
(* calls return at once.                                                   *)
Close ==
  /\ ~closed
  /\ closed' = TRUE
  /\ ready' = FALSE
  /\ watching' = {}
  /\ handlers' = {}
  /\ removed' = removed \cup watching \cup handlers
  /\ closing' = "release"
  /\ UNCHANGED <<loaded, configs, segments, overlapped, readyEvent, deliveryVars,
                 seen, looked, ipc>>

\* Mutant of CloseReleases: the event is not set.
CloseReleases_Forgets ==
  /\ closing = "release"
  /\ closing' = "done"
  /\ UNCHANGED <<stateVars, closed, readyEvent, regVars, deliveryVars, seen,
                 looked, ipc>>

(* Releases anyone still blocked in initialize().                          *)
CloseReleases ==
  /\ closing = "release"
  /\ readyEvent' = TRUE
  /\ closing' = "done"
  /\ UNCHANGED <<stateVars, closed, regVars, deliveryVars, seen,
                 looked, ipc>>

-----------------------------------------------------------------------------
Init ==
  /\ loaded = FALSE
  /\ configs = [k \in Keys |-> None]
  /\ segments = [s \in Segs |-> None]
  /\ ready = FALSE
  /\ overlapped = FALSE
  /\ closed = FALSE
  /\ readyEvent = FALSE
  /\ closing = "open"
  /\ watching = {}
  /\ handlers = {}
  /\ removed = {}
  /\ sent = 0
  /\ dpc = [d \in Deliverers |-> "idle"]
  /\ snap = [d \in Deliverers |-> [configs |-> configs, segments |-> segments]]
  /\ first = [d \in Deliverers |-> FALSE]
  /\ hTodo = [d \in Deliverers |-> {}]
  /\ wTodo = [d \in Deliverers |-> {}]
  /\ seen = [w \in Watchers |-> None]
  /\ readyEmits = 0
  /\ looked = [r \in Readers |-> None]
  /\ ipc = [i \in Initializers |-> "idle"]

Deliver(d) ==
  \/ EmitUpdated(d)
  \/ \E h \in Handlers : CallHandler(d, h)
  \/ \E w \in Watchers : NotifyWatcher(d, w)
  \/ FinishCalls(d)
  \/ EmitReady(d)

Next ==
  \/ \E d \in Deliverers : \/ \E b \in Shapes : OnBundle(d, b)
                           \/ OnBundleIgnored(d)
                           \/ Deliver(d)
  \/ \E w \in Watchers : Watch(w)
  \/ \E gone \in SUBSET watching : Unwatch(gone)
  \/ \E h \in Handlers : On(h)
  \/ \E gone \in SUBSET handlers : Off(gone)
  \/ \E r \in Readers : \/ \E k \in Keys : Lookup(r, k) \/ GetAllConfigs(r, k)
                        \/ \E reason \in {"evaluated", "config-state-missing",
                                          "client-not-ready"} :
                             EvaluateAndReturn(r, reason)
  \/ \E i \in Initializers : \/ Initialize(i)
                             \/ \E raised \in BOOLEAN : ConnectEnds(i, raised)
                             \/ WaitEnds(i)
                             \/ WaitTimesOut(i)
  \/ Close
  \/ CloseReleases

(* Callbacks return and runnable threads run.  Nothing makes a bundle      *)
(* arrive, a timeout elapse or anyone call close().                        *)
Fairness ==
  /\ \A d \in Deliverers : WF_vars(Deliver(d))
  /\ \A i \in Initializers : WF_vars(WaitEnds(i))
  /\ WF_vars(CloseReleases)

Spec == Init /\ [][Next]_vars /\ Fairness

-----------------------------------------------------------------------------
(* Properties                                                              *)

(* The shape of the state the client and the threads in it keep.           *)
TypeOK ==
  /\ loaded \in BOOLEAN
  /\ configs \in Configs
  /\ segments \in Segments
  /\ ready \in BOOLEAN
  /\ overlapped \in BOOLEAN
  /\ closed \in BOOLEAN
  /\ readyEvent \in BOOLEAN
  /\ closing \in {"open", "release", "done"}
  /\ watching \subseteq Watchers
  /\ handlers \subseteq Handlers
  /\ removed \subseteq Watchers \cup Handlers
  /\ sent \in 0..MaxBundles
  /\ dpc \in [Deliverers -> {"idle", "emit", "calling", "ready"}]
  /\ snap \in [Deliverers -> [configs: Configs, segments: Segments]]
  /\ first \in [Deliverers -> BOOLEAN]
  /\ hTodo \in [Deliverers -> SUBSET Handlers]
  /\ wTodo \in [Deliverers -> SUBSET Watchers]
  /\ seen \in [Watchers -> Views \cup {None}]
  /\ readyEmits \in Nat
  /\ looked \in [Readers -> Views \cup {None}]
  /\ ipc \in [Initializers -> {"idle", "connecting", "waiting"}]

(* client_ready is emitted at most once in the life of a client, however   *)
(* many threads deliver bundles at the same time: _on_bundle decides which *)
(* bundle is the first under the lock, long before it emits.               *)
ReadyOnce == readyEmits <= 1

(* initialize() is not released by readiness before the first bundle has   *)
(* been announced: while _ready_event is set and the client is open, the   *)
(* deliverer of the first bundle owes no watcher a call.                   *)
FirstCallbacksFirst ==
  readyEvent /\ ~closed =>
    \A d \in Deliverers : first[d] => dpc[d] = "ready" /\ wTodo[d] = {}

(* Unless two threads delivered at the same time, a watcher in place was   *)
(* last told of exactly what its key evaluates from now, once delivery is  *)
(* quiet: no update of the definition, of a segment it uses, and no        *)
(* removal was missed.  (A segment that went away under an unreadable      *)
(* definition is not announced, so segments that are gone are left out.)   *)
WatchersCurrent ==
  (\A d \in Deliverers : dpc[d] = "idle") /\ ~overlapped =>
    \A w \in watching :
      LET now == View(WatchKey[w], configs, segments)
      IN /\ seen[w].def = now.def
         /\ \A s \in Segs : now.segs[s] # None => seen[w].segs[s] = now.segs[s]

(* A definition is never evaluated against segments older than the ones it *)
(* was delivered with, neither by get_value() nor for a watcher.           *)
Coherent(view) ==
  view # None /\ view.def # None =>
    \A s \in view.def.came : view.segs[s] # None => view.segs[s] >= view.def.ver

DefinitionsMeetTheirSegments ==
  /\ \A k \in Keys : Coherent(View(k, configs, segments))
  /\ \A r \in Readers : Coherent(looked[r])
  /\ \A w \in Watchers : Coherent(seen[w])

(* A registration that was taken out (by its Subscription, off, unwatch,   *)
(* unwatch_all or close) is never scheduled to be called again; at most a  *)
(* call scheduled before that still happens.                               *)
RemovedStaysSilent ==
  [][\A d \in Deliverers :
       ((hTodo'[d] \ hTodo[d]) \cup (wTodo'[d] \ wTodo[d])) \cap removed = {}]_vars

(* The client stays ready until it is closed; a closed client stays closed *)
(* and not ready, serves the configs it had, and schedules no watcher.     *)
ClosedIsFinal ==
  [][/\ ready => ready' \/ closed'
     /\ closed => /\ closed' /\ ~ready'
                  /\ UNCHANGED <<configs, segments>>
                  /\ \A d \in Deliverers : wTodo'[d] \subseteq wTodo[d]]_vars

(* A thread blocked in initialize() is released once config state arrived  *)
(* or the client was closed, without its timeout having to elapse.         *)
InitializeReleased ==
  \A i \in Initializers :
    (ipc[i] = "waiting" /\ (loaded \/ closed)) ~> ipc[i] # "waiting"
=============================================================================
