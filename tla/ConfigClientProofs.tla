------------------------- MODULE ConfigClientProofs -------------------------
(***************************************************************************)
(* Proofs about the client of client.py, for every set of keys, segments,  *)
(* watchers, handlers and threads, and for any number of bundles: its      *)
(* types and its callbacks, then the data it serves: definitions meet      *)
(* their segments, watchers miss nothing, and the client implements the    *)
(* abstract feed of ConfigFeed.                                            *)
(***************************************************************************)
EXTENDS ConfigClientRefinement, TLAPS

(* None is no bundle number, set of segments, definition or view.          *)
LEMMA NoneDistinct ==
  /\ \A x \in 1..MaxBundles : x # None
  /\ \A x \in SUBSET Segs : x # None
  /\ \A x \in Def : x # None
  /\ \A x \in Views : x # None
BY ConfigClientAssumption

(* What View() yields is a view, for configs and segments of their types.  *)
LEMMA ViewType ==
  ASSUME NEW k \in Keys, NEW cfg \in Configs, NEW sgs \in Segments
  PROVE  View(k, cfg, sgs) \in Views /\ View(k, cfg, sgs) # None
<1>1. View(k, cfg, sgs) \in Views
  BY DEF View, Views, Configs, Segments
<1>. QED
  BY <1>1, NoneDistinct

(* The configs and segments a numbered bundle carries have their types.    *)
LEMMA BundleType ==
  ASSUME NEW b \in Shapes, NEW n \in 1..MaxBundles
  PROVE  BundleConfigs(b, n) \in Configs /\ BundleSegments(b, n) \in Segments
<1>1. b \in BundleShape
  BY ConfigClientAssumption
<1>2. BundleConfigs(b, n) \in Configs
  BY <1>1, ConfigClientAssumption DEF BundleConfigs, BundleShape, Configs, Def
<1>3. BundleSegments(b, n) \in Segments
  BY DEF BundleSegments, Segments
<1>. QED
  BY <1>2, <1>3

(* _on_bundle leaves configs and segments of their types.                  *)
LEMMA AppliedType ==
  ASSUME TypeOK, NEW b \in Shapes, NEW n \in 1..MaxBundles
  PROVE  NewConfigs(b, n) \in Configs /\ NewSegments(b, n) \in Segments
<1>1. BundleConfigs(b, n) \in Configs /\ BundleSegments(b, n) \in Segments
  BY BundleType
<1>2. configs \in Configs /\ segments \in Segments
  BY DEF TypeOK
<1>3. NewConfigs(b, n) \in Configs
  BY <1>1, <1>2 DEF NewConfigs, Overlay, Configs
<1>4. NewSegments(b, n) \in Segments
  BY <1>1, <1>2 DEF NewSegments, Overlay, Segments
<1>. QED
  BY <1>3, <1>4

-----------------------------------------------------------------------------
(* The type invariant is inductive.                                        *)
LEMMA TypeInit == Init => TypeOK
<1> SUFFICES ASSUME Init PROVE TypeOK
  OBVIOUS
<1>1. configs \in Configs /\ segments \in Segments
  BY DEF Init, Configs, Segments
<1>2. snap \in [Deliverers -> [configs: Configs, segments: Segments]]
  BY <1>1 DEF Init
<1>3. sent \in 0..MaxBundles /\ readyEmits \in Nat
  BY ConfigClientAssumption DEF Init
<1>. QED
  BY <1>1, <1>2, <1>3 DEF Init, TypeOK

LEMMA TypeStep == TypeOK /\ [Next]_vars => TypeOK'
<1> SUFFICES ASSUME TypeOK, [Next]_vars PROVE TypeOK'
  OBVIOUS
<1>1. ASSUME NEW d \in Deliverers, NEW b \in Shapes, OnBundle(d, b) PROVE TypeOK'
  <2> DEFINE n == sent + 1
  <2>1. n \in 1..MaxBundles
    BY <1>1, ConfigClientAssumption DEF OnBundle, TypeOK
  <2>2. NewConfigs(b, n) \in Configs /\ NewSegments(b, n) \in Segments
    BY <2>1, AppliedType
  <2>3. /\ configs' \in Configs
        /\ segments' \in Segments
        /\ snap' \in [Deliverers -> [configs: Configs, segments: Segments]]
        /\ sent' \in 0..MaxBundles
    BY <1>1, <2>1, <2>2 DEF OnBundle, TypeOK
  <2>4. first' \in [Deliverers -> BOOLEAN]
    BY <1>1 DEF OnBundle, TypeOK, FirstBundle
  <2>5. wTodo' \in [Deliverers -> SUBSET Watchers]
    BY <1>1 DEF OnBundle, TypeOK
  <2>6. dpc' \in [Deliverers -> {"idle", "emit", "calling", "ready"}]
    BY <1>1 DEF OnBundle, TypeOK
  <2>7. loaded' \in BOOLEAN /\ ready' \in BOOLEAN /\ overlapped' \in BOOLEAN
    BY <1>1 DEF OnBundle, TypeOK
  <2>8. UNCHANGED <<closed, readyEvent, closing, watching, handlers, removed, hTodo,
                    seen, readyEmits, looked, ipc>>
    BY <1>1 DEF OnBundle, regVars
  <2>. QED
    BY <2>3, <2>4, <2>5, <2>6, <2>7, <2>8 DEF TypeOK
<1>2. ASSUME NEW d \in Deliverers, OnBundleIgnored(d) PROVE TypeOK'
  BY <1>2, ConfigClientAssumption DEF OnBundleIgnored, TypeOK, stateVars, regVars
<1>3. ASSUME NEW d \in Deliverers, Deliver(d) PROVE TypeOK'
  <2>1. CASE EmitUpdated(d)
    BY <2>1 DEF EmitUpdated, Registered, TypeOK, stateVars, regVars
  <2>2. ASSUME NEW h \in Handlers, CallHandler(d, h) PROVE TypeOK'
    BY <2>2 DEF CallHandler, TypeOK, stateVars, regVars
  <2>3. ASSUME NEW w \in Watchers, NotifyWatcher(d, w) PROVE TypeOK'
    <3>1. View(WatchKey[w], snap[d].configs, snap[d].segments) \in Views
      BY ViewType, ConfigClientAssumption DEF TypeOK
    <3>. QED
      BY <2>3, <3>1 DEF NotifyWatcher, TypeOK, stateVars, regVars
  <2>4. CASE FinishCalls(d)
    BY <2>4 DEF FinishCalls, TypeOK, stateVars, regVars
  <2>5. CASE EmitReady(d)
    BY <2>5 DEF EmitReady, Registered, TypeOK, stateVars, regVars
  <2>. QED
    BY <1>3, <2>1, <2>2, <2>3, <2>4, <2>5 DEF Deliver
<1>4. ASSUME NEW w \in Watchers, Watch(w) PROVE TypeOK'
  <2>1. View(WatchKey[w], configs, segments) \in Views
    BY ViewType, ConfigClientAssumption DEF TypeOK
  <2>. QED
    BY <1>4, <2>1 DEF Watch, TypeOK, stateVars, deliveryVars
<1>5. ASSUME NEW gone \in SUBSET watching, Unwatch(gone) PROVE TypeOK'
  BY <1>5 DEF Unwatch, TypeOK, stateVars, deliveryVars
<1>6. ASSUME NEW h \in Handlers, On(h) PROVE TypeOK'
  BY <1>6 DEF On, TypeOK, stateVars, deliveryVars
<1>7. ASSUME NEW gone \in SUBSET handlers, Off(gone) PROVE TypeOK'
  BY <1>7 DEF Off, TypeOK, stateVars, deliveryVars
<1>8. ASSUME NEW r \in Readers, NEW k \in Keys, Lookup(r, k) \/ GetAllConfigs(r, k)
      PROVE  TypeOK'
  <2>1. View(k, configs, segments) \in Views
    BY ViewType DEF TypeOK
  <2>. QED
    BY <1>8, <2>1 DEF Lookup, GetAllConfigs, TypeOK, stateVars, deliveryVars, regVars
<1>9. ASSUME NEW r \in Readers, NEW reason, EvaluateAndReturn(r, reason) PROVE TypeOK'
  BY <1>9 DEF EvaluateAndReturn, TypeOK, stateVars, deliveryVars, regVars
<1>10. ASSUME NEW i \in Initializers, \/ Initialize(i)
                                      \/ \E raised \in BOOLEAN : ConnectEnds(i, raised)
                                      \/ WaitEnds(i)
                                      \/ WaitTimesOut(i)
       PROVE TypeOK'
  BY <1>10 DEF Initialize, ConnectEnds, WaitEnds, WaitTimesOut, TypeOK, stateVars,
               deliveryVars, regVars
<1>11. CASE Close
  BY <1>11 DEF Close, TypeOK, deliveryVars
<1>12. CASE CloseReleases
  BY <1>12 DEF CloseReleases, TypeOK, stateVars, deliveryVars, regVars
<1>13. CASE UNCHANGED vars
  BY <1>13 DEF vars, TypeOK, stateVars, deliveryVars, regVars
<1>. QED
  BY <1>1, <1>2, <1>3, <1>4, <1>5, <1>6, <1>7, <1>8, <1>9, <1>10, <1>11, <1>12,
     <1>13 DEF Next

(* The client's state, and that of every thread inside it, keeps its type. *)
THEOREM TypeCorrect == Spec => []TypeOK
BY TypeInit, TypeStep, PTL DEF Spec

-----------------------------------------------------------------------------
(* Readiness.  ReadyOnce and FirstCallbacksFirst are not inductive: they   *)
(* need to know that the deliverer of the first bundle is unique, that it  *)
(* has not announced readiness yet, and that nobody can become another     *)
(* one, because the client is ready or closed from then on.                *)
FirstUnique == \A d, e \in Deliverers : first[d] /\ first[e] => d = e
FirstPending == \A d \in Deliverers : first[d] => readyEmits = 0 /\ dpc[d] # "idle"
ReadyIsFirst == \A d \in Deliverers : dpc[d] = "ready" => first[d]
NotReadyYet ==
  ~ready /\ ~closed => readyEmits = 0 /\ \A d \in Deliverers : ~first[d]
EventMeansReady == readyEvent => ready \/ closed
ClosingMeansClosed == closing # "open" => closed
ClosedNotReady == closed => ~ready

ReadyInv ==
  /\ TypeOK
  /\ FirstUnique
  /\ FirstPending
  /\ ReadyIsFirst
  /\ NotReadyYet
  /\ EventMeansReady
  /\ ClosingMeansClosed
  /\ ClosedNotReady
  /\ ReadyOnce
  /\ FirstCallbacksFirst

(* Actions that touch nothing ReadyInv speaks of, but for types.           *)
readyVars == <<ready, closed, readyEvent, closing, dpc, first, wTodo, readyEmits>>

LEMMA ReadyUnchanged ==
  ASSUME ReadyInv, TypeOK', UNCHANGED readyVars PROVE ReadyInv'
BY DEF ReadyInv, readyVars, FirstUnique, FirstPending, ReadyIsFirst, NotReadyYet,
       EventMeansReady, ClosingMeansClosed, ClosedNotReady, ReadyOnce,
       FirstCallbacksFirst

LEMMA ReadyInit == Init => ReadyInv
<1> SUFFICES ASSUME Init PROVE ReadyInv
  OBVIOUS
<1>1. TypeOK
  BY TypeInit
<1>2. readyEmits = 0 /\ ready = FALSE /\ closed = FALSE /\ readyEvent = FALSE
      /\ closing = "open" /\ first = [d \in Deliverers |-> FALSE]
      /\ dpc = [d \in Deliverers |-> "idle"]
  BY DEF Init
<1>. QED
  BY <1>1, <1>2 DEF ReadyInv, FirstUnique, FirstPending, ReadyIsFirst, NotReadyYet,
     EventMeansReady, ClosingMeansClosed, ClosedNotReady, ReadyOnce, FirstCallbacksFirst

(* _on_bundle's critical section: a first deliverer appears only when      *)
(* there was none.                                                         *)
LEMMA ReadyOnBundle ==
  ASSUME ReadyInv, TypeOK', NEW d \in Deliverers, NEW b \in Shapes, OnBundle(d, b)
  PROVE  ReadyInv'
<1>1. /\ dpc[d] = "idle" /\ ~closed /\ ready' = TRUE
      /\ first' = [first EXCEPT ![d] = ~ready]
      /\ dpc' = [dpc EXCEPT ![d] = "emit"]
      /\ UNCHANGED <<closed, readyEvent, closing, readyEmits>>
  BY DEF OnBundle, Ignored, FirstBundle
<1>2. \A e \in Deliverers : e # d => wTodo'[e] = wTodo[e]
  BY DEF OnBundle, ReadyInv, TypeOK
<1>3. ~first[d]
  BY <1>1 DEF ReadyInv, FirstPending
<1>4. /\ \A e \in Deliverers : e # d => first'[e] = first[e] /\ dpc'[e] = dpc[e]
      /\ first'[d] = ~ready
      /\ dpc'[d] = "emit"
  BY <1>1 DEF ReadyInv, TypeOK
<1>5. ~ready => readyEmits = 0 /\ ~readyEvent /\ \A e \in Deliverers : ~first[e]
  BY <1>1 DEF ReadyInv, NotReadyYet, EventMeansReady
<1>6. FirstUnique' /\ FirstPending' /\ ReadyIsFirst'
  BY <1>1, <1>3, <1>4, <1>5 DEF ReadyInv, FirstUnique, FirstPending, ReadyIsFirst
<1>7. NotReadyYet' /\ EventMeansReady' /\ ClosingMeansClosed' /\ ClosedNotReady'
  BY <1>1 DEF ReadyInv, NotReadyYet, EventMeansReady, ClosingMeansClosed, ClosedNotReady
<1>8. ReadyOnce' /\ FirstCallbacksFirst'
  BY <1>1, <1>2, <1>3, <1>4, <1>5 DEF ReadyInv, ReadyOnce, FirstCallbacksFirst
<1>. QED
  BY <1>6, <1>7, <1>8 DEF ReadyInv

(* The steps a deliverer takes after the critical section.                 *)
LEMMA ReadyDeliver ==
  ASSUME ReadyInv, TypeOK', NEW d \in Deliverers, Deliver(d)
  PROVE  ReadyInv'
<1> USE DEF ReadyInv
<1>1. CASE EmitUpdated(d)
  <2>1. /\ dpc[d] = "emit"
        /\ dpc' = [dpc EXCEPT ![d] = "calling"]
        /\ UNCHANGED <<ready, closed, readyEvent, closing, first, wTodo, readyEmits>>
    BY <1>1 DEF EmitUpdated, stateVars
  <2>2. \A e \in Deliverers : dpc'[e] = IF e = d THEN "calling" ELSE dpc[e]
    BY <2>1 DEF TypeOK
  <2>. QED
    BY <2>1, <2>2 DEF FirstUnique, FirstPending, ReadyIsFirst, NotReadyYet,
       EventMeansReady, ClosingMeansClosed, ClosedNotReady, ReadyOnce,
       FirstCallbacksFirst
<1>2. ASSUME NEW h \in Handlers, CallHandler(d, h) PROVE ReadyInv'
  BY <1>2, ReadyUnchanged DEF CallHandler, readyVars, stateVars
<1>3. ASSUME NEW w \in Watchers, NotifyWatcher(d, w) PROVE ReadyInv'
  <2>1. /\ wTodo' = [wTodo EXCEPT ![d] = @ \ {w}]
        /\ UNCHANGED <<ready, closed, readyEvent, closing, dpc, first, readyEmits>>
    BY <1>3 DEF NotifyWatcher, stateVars
  <2>2. \A e \in Deliverers : wTodo'[e] \subseteq wTodo[e]
    BY <2>1 DEF TypeOK
  <2>. QED
    BY <2>1, <2>2 DEF FirstUnique, FirstPending, ReadyIsFirst, NotReadyYet,
       EventMeansReady, ClosingMeansClosed, ClosedNotReady, ReadyOnce,
       FirstCallbacksFirst
<1>4. CASE FinishCalls(d)
  <2>1. /\ dpc[d] = "calling" /\ wTodo[d] = {}
        /\ readyEvent' = (readyEvent \/ first[d])
        /\ dpc' = [dpc EXCEPT ![d] = IF first[d] THEN "ready" ELSE "idle"]
        /\ UNCHANGED <<ready, closed, closing, first, wTodo, readyEmits>>
    BY <1>4 DEF FinishCalls, stateVars
  <2>2. \A e \in Deliverers :
          dpc'[e] = IF e = d THEN (IF first[d] THEN "ready" ELSE "idle") ELSE dpc[e]
    BY <2>1 DEF TypeOK
  <2>3. FirstUnique' /\ FirstPending' /\ ReadyIsFirst'
    BY <2>1, <2>2 DEF FirstUnique, FirstPending, ReadyIsFirst
  <2>4. NotReadyYet' /\ EventMeansReady' /\ ClosingMeansClosed' /\ ClosedNotReady'
    BY <2>1 DEF NotReadyYet, EventMeansReady, ClosingMeansClosed, ClosedNotReady
  <2>5. ReadyOnce'
    BY <2>1 DEF ReadyOnce
  <2>6. FirstCallbacksFirst'
    BY <2>1, <2>2 DEF FirstCallbacksFirst, FirstUnique
  <2>. QED
    BY <2>3, <2>4, <2>5, <2>6
<1>5. CASE EmitReady(d)
  <2>1. /\ dpc[d] = "ready"
        /\ first' = [first EXCEPT ![d] = FALSE]
        /\ readyEmits' = readyEmits + 1
        /\ dpc' = [dpc EXCEPT ![d] = "calling"]
        /\ UNCHANGED <<ready, closed, readyEvent, closing, wTodo>>
    BY <1>5 DEF EmitReady, stateVars
  <2>2. first[d] /\ readyEmits = 0 /\ (ready \/ closed)
    BY <2>1 DEF ReadyIsFirst, FirstPending, NotReadyYet
  <2>3. \A e \in Deliverers : ~first'[e]
    BY <2>1, <2>2 DEF FirstUnique, TypeOK
  <2>4. \A e \in Deliverers : dpc'[e] = "ready" => e # d /\ dpc[e] = "ready"
    BY <2>1 DEF TypeOK
  <2>5. \A e \in Deliverers : dpc'[e] # "ready"
    BY <2>2, <2>4 DEF ReadyIsFirst, FirstUnique
  <2>6. FirstUnique' /\ FirstPending' /\ ReadyIsFirst' /\ FirstCallbacksFirst'
    BY <2>3, <2>5 DEF FirstUnique, FirstPending, ReadyIsFirst, FirstCallbacksFirst
  <2>7. NotReadyYet' /\ EventMeansReady' /\ ClosingMeansClosed' /\ ClosedNotReady'
    BY <2>1, <2>2 DEF NotReadyYet, EventMeansReady, ClosingMeansClosed, ClosedNotReady
  <2>8. ReadyOnce'
    BY <2>1, <2>2 DEF ReadyOnce
  <2>. QED
    BY <2>6, <2>7, <2>8
<1>. QED
  BY <1>1, <1>2, <1>3, <1>4, <1>5 DEF Deliver

LEMMA ReadyStep == ReadyInv /\ [Next]_vars => ReadyInv'
<1> SUFFICES ASSUME ReadyInv, [Next]_vars PROVE ReadyInv'
  OBVIOUS
<1>0. TypeOK'
  BY TypeStep DEF ReadyInv
<1>1. ASSUME NEW d \in Deliverers, NEW b \in Shapes, OnBundle(d, b) PROVE ReadyInv'
  BY <1>0, <1>1, ReadyOnBundle
<1>2. ASSUME NEW d \in Deliverers, OnBundleIgnored(d) PROVE ReadyInv'
  BY <1>0, <1>2, ReadyUnchanged DEF OnBundleIgnored, stateVars, readyVars
<1>3. ASSUME NEW d \in Deliverers, Deliver(d) PROVE ReadyInv'
  BY <1>0, <1>3, ReadyDeliver
<1>4. ASSUME \/ \E w \in Watchers : Watch(w)
             \/ \E gone \in SUBSET watching : Unwatch(gone)
             \/ \E h \in Handlers : On(h)
             \/ \E gone \in SUBSET handlers : Off(gone)
      PROVE UNCHANGED readyVars
  BY <1>4 DEF Watch, Unwatch, On, Off, stateVars, deliveryVars, readyVars
<1>5. ASSUME \E r \in Readers : \/ \E k \in Keys : Lookup(r, k) \/ GetAllConfigs(r, k)
                                \/ \E reason : EvaluateAndReturn(r, reason)
      PROVE UNCHANGED readyVars
  BY <1>5 DEF Lookup, GetAllConfigs, EvaluateAndReturn, stateVars, deliveryVars, readyVars
<1>6. ASSUME \E i \in Initializers : \/ Initialize(i)
                                     \/ \E raised \in BOOLEAN : ConnectEnds(i, raised)
                                     \/ WaitEnds(i)
                                     \/ WaitTimesOut(i)
      PROVE UNCHANGED readyVars
  BY <1>6 DEF Initialize, ConnectEnds, WaitEnds, WaitTimesOut, stateVars,
              deliveryVars, readyVars
<1>7. CASE Close
  BY <1>0, <1>7 DEF Close, deliveryVars, ReadyInv, FirstUnique, FirstPending,
     ReadyIsFirst, NotReadyYet, EventMeansReady, ClosingMeansClosed, ClosedNotReady,
     ReadyOnce, FirstCallbacksFirst
<1>8. CASE CloseReleases
  BY <1>0, <1>8 DEF CloseReleases, stateVars, deliveryVars, ReadyInv, FirstUnique,
     FirstPending, ReadyIsFirst, NotReadyYet, EventMeansReady, ClosingMeansClosed,
     ClosedNotReady, ReadyOnce, FirstCallbacksFirst
<1>9. CASE UNCHANGED vars
  BY <1>0, <1>9, ReadyUnchanged DEF vars, stateVars, deliveryVars, readyVars
<1>. QED
  BY <1>0, <1>1, <1>2, <1>3, <1>4, <1>5, <1>6, <1>7, <1>8, <1>9, ReadyUnchanged
     DEF Next

LEMMA ReadyInvariant == Spec => []ReadyInv
BY ReadyInit, ReadyStep, PTL DEF Spec

(* However many threads deliver bundles, client_ready is emitted at most   *)
(* once in the life of a client.                                           *)
THEOREM ReadyEmittedOnce == Spec => []ReadyOnce
<1>1. ReadyInv => ReadyOnce
  BY DEF ReadyInv
<1>. QED
  BY <1>1, ReadyInvariant, PTL

(* While the client is open, _ready_event is set only after every watcher  *)
(* of the first bundle was called: initialize() never returns ready ahead  *)
(* of them.                                                                *)
THEOREM ReadyAfterFirstCallbacks == Spec => []FirstCallbacksFirst
<1>1. ReadyInv => FirstCallbacksFirst
  BY DEF ReadyInv
<1>. QED
  BY <1>1, ReadyInvariant, PTL

-----------------------------------------------------------------------------
(* Registrations.  One that was taken out is not in place any more, and    *)
(* none is ever put in place twice: for watchers, because seen remembers   *)
(* every one that was registered.                                          *)
RegInv ==
  /\ TypeOK
  /\ removed \cap watching = {}
  /\ removed \cap handlers = {}
  /\ \A w \in Watchers : w \in watching \cup removed => seen[w] # None

LEMMA RegUnchanged ==
  ASSUME RegInv, TypeOK', UNCHANGED <<regVars, seen>> PROVE RegInv'
BY DEF RegInv, regVars

LEMMA RegInit == Init => RegInv
BY TypeInit DEF Init, RegInv

LEMMA RegStep == RegInv /\ [Next]_vars => RegInv'
<1> SUFFICES ASSUME RegInv, [Next]_vars PROVE RegInv'
  OBVIOUS
<1>0. TypeOK /\ TypeOK'
  BY TypeStep DEF RegInv
<1>1. ASSUME NEW d \in Deliverers, \/ \E b \in Shapes : OnBundle(d, b)
                                   \/ OnBundleIgnored(d)
                                   \/ EmitUpdated(d)
                                   \/ \E h \in Handlers : CallHandler(d, h)
                                   \/ FinishCalls(d)
                                   \/ EmitReady(d)
      PROVE UNCHANGED <<regVars, seen>>
  BY <1>1 DEF OnBundle, OnBundleIgnored, EmitUpdated, CallHandler, FinishCalls,
              EmitReady
<1>2. ASSUME NEW d \in Deliverers, NEW w \in Watchers, NotifyWatcher(d, w)
      PROVE RegInv'
  <2>1. View(WatchKey[w], snap[d].configs, snap[d].segments) # None
    BY <1>0, ViewType, ConfigClientAssumption DEF TypeOK
  <2>2. \A v \in Watchers : seen[v] # None => seen'[v] # None
    BY <1>0, <1>2, <2>1 DEF NotifyWatcher, TypeOK
  <2>3. UNCHANGED regVars
    BY <1>2 DEF NotifyWatcher
  <2>. QED
    BY <1>0, <2>2, <2>3 DEF RegInv, regVars
<1>3. ASSUME NEW w \in Watchers, Watch(w) PROVE RegInv'
  <2>1. View(WatchKey[w], configs, segments) # None
    BY <1>0, ViewType, ConfigClientAssumption DEF TypeOK
  <2>2. seen'[w] # None /\ \A v \in Watchers : seen[v] # None => seen'[v] # None
    BY <1>0, <1>3, <2>1 DEF Watch, TypeOK
  <2>3. w \notin removed /\ watching' = watching \cup {w}
        /\ handlers' = handlers /\ removed' = removed
    BY <1>3 DEF Watch, RegInv
  <2>. QED
    BY <1>0, <2>2, <2>3 DEF RegInv
<1>4. ASSUME NEW gone \in SUBSET watching, Unwatch(gone) PROVE RegInv'
  <2>1. gone \cap handlers = {}
    BY <1>0, ConfigClientAssumption DEF TypeOK
  <2>. QED
    BY <1>0, <1>4, <2>1 DEF Unwatch, RegInv
<1>5. ASSUME NEW h \in Handlers, On(h) PROVE RegInv'
  BY <1>0, <1>5 DEF On, RegInv
<1>6. ASSUME NEW gone \in SUBSET handlers, Off(gone) PROVE RegInv'
  <2>1. gone \cap Watchers = {}
    BY <1>0, ConfigClientAssumption DEF TypeOK
  <2>. QED
    BY <1>0, <1>6, <2>1 DEF Off, RegInv, TypeOK
<1>7. ASSUME \E r \in Readers : \/ \E k \in Keys : Lookup(r, k) \/ GetAllConfigs(r, k)
                                \/ \E reason : EvaluateAndReturn(r, reason)
      PROVE UNCHANGED <<regVars, seen>>
  BY <1>7 DEF Lookup, GetAllConfigs, EvaluateAndReturn
<1>8. ASSUME \E i \in Initializers : \/ Initialize(i)
                                     \/ \E raised \in BOOLEAN : ConnectEnds(i, raised)
                                     \/ WaitEnds(i)
                                     \/ WaitTimesOut(i)
      PROVE UNCHANGED <<regVars, seen>>
  BY <1>8 DEF Initialize, ConnectEnds, WaitEnds, WaitTimesOut
<1>9. CASE Close
  <2>1. handlers \cap Watchers = {} /\ watching \subseteq Watchers
    BY <1>0, ConfigClientAssumption DEF TypeOK
  <2>. QED
    BY <1>0, <1>9, <2>1 DEF Close, RegInv
<1>10. ASSUME CloseReleases \/ UNCHANGED vars PROVE UNCHANGED <<regVars, seen>>
  BY <1>10 DEF CloseReleases, vars
<1>. QED
  BY <1>0, <1>1, <1>2, <1>3, <1>4, <1>5, <1>6, <1>7, <1>8, <1>9, <1>10, RegUnchanged
     DEF Next, Deliver

(* A registration that was taken out is never scheduled again: _on_bundle  *)
(* and _emit copy only what is in place, under the lock.                   *)
THEOREM RemovedAreSilent == Spec => RemovedStaysSilent
<1>1. ASSUME RegInv, [Next]_vars
      PROVE  [\A d \in Deliverers :
                ((hTodo'[d] \ hTodo[d]) \cup (wTodo'[d] \ wTodo[d])) \cap removed = {}]_vars
  <2> SUFFICES ASSUME NEW d \in Deliverers, Next
               PROVE  ((hTodo'[d] \ hTodo[d]) \cup (wTodo'[d] \ wTodo[d])) \cap removed = {}
    BY <1>1
  <2>0. TypeOK
    BY <1>1 DEF RegInv
  <2> DEFINE H == \A e \in Deliverers : hTodo'[e] \subseteq hTodo[e] \cup handlers
             W == \A e \in Deliverers : wTodo'[e] \subseteq wTodo[e] \cup watching
  <2>1. ASSUME NEW e \in Deliverers, NEW b \in Shapes, OnBundle(e, b) PROVE H /\ W
    BY <2>0, <2>1 DEF OnBundle, TypeOK
  <2>2. ASSUME NEW e \in Deliverers, OnBundleIgnored(e) PROVE H /\ W
    BY <2>2 DEF OnBundleIgnored
  <2>3. ASSUME NEW e \in Deliverers, Deliver(e) PROVE H /\ W
    BY <2>0, <2>3, SMTT(30) DEF Deliver, EmitUpdated, CallHandler, NotifyWatcher, FinishCalls,
       EmitReady, Registered, TypeOK
  <2>4. ASSUME \/ \E w \in Watchers : Watch(w)
               \/ \E gone \in SUBSET watching : Unwatch(gone)
               \/ \E h \in Handlers : On(h)
               \/ \E gone \in SUBSET handlers : Off(gone)
               \/ \E r \in Readers : \/ \E k \in Keys : Lookup(r, k) \/ GetAllConfigs(r, k)
                                     \/ \E reason : EvaluateAndReturn(r, reason)
               \/ \E i \in Initializers : \/ Initialize(i)
                                          \/ \E raised \in BOOLEAN : ConnectEnds(i, raised)
                                          \/ WaitEnds(i)
                                          \/ WaitTimesOut(i)
               \/ Close
               \/ CloseReleases
        PROVE H /\ W
    BY <2>4 DEF Watch, Unwatch, On, Off, Lookup, GetAllConfigs, EvaluateAndReturn,
       Initialize, ConnectEnds, WaitEnds, WaitTimesOut, Close, CloseReleases, deliveryVars
  <2>5. H /\ W
    BY <2>1, <2>2, <2>3, <2>4 DEF Next
  <2>. QED
    BY <1>1, <2>5 DEF RegInv
<1>2. Spec => []RegInv
  BY RegInit, RegStep, PTL DEF Spec
<1>. QED
  BY <1>1, <1>2, PTL DEF Spec, RemovedStaysSilent

(* Readiness ends only with close(), and a closed client is final: it      *)
(* stays closed and not ready, keeps the configs it served, and schedules  *)
(* no watcher.                                                             *)
THEOREM CloseIsFinal == Spec => ClosedIsFinal
<1>1. ASSUME ReadyInv, [Next]_vars
      PROVE  [/\ ready => ready' \/ closed'
              /\ closed => /\ closed' /\ ~ready'
                           /\ UNCHANGED <<configs, segments>>
                           /\ \A d \in Deliverers : wTodo'[d] \subseteq wTodo[d]]_vars
  <2> DEFINE A == /\ ready => ready' \/ closed'
                  /\ closed => /\ closed' /\ ~ready'
                               /\ UNCHANGED <<configs, segments>>
                               /\ \A d \in Deliverers : wTodo'[d] \subseteq wTodo[d]
  <2> SUFFICES ASSUME Next PROVE A
    BY <1>1
  <2>0. TypeOK /\ (closed => ~ready)
    BY <1>1 DEF ReadyInv, ClosedNotReady
  <2>1. ASSUME NEW d \in Deliverers, NEW b \in Shapes, OnBundle(d, b) PROVE A
    BY <2>1 DEF OnBundle, Ignored
  <2>2. ASSUME NEW d \in Deliverers, OnBundleIgnored(d) PROVE A
    BY <2>0, <2>2 DEF OnBundleIgnored, stateVars
  <2>3. ASSUME NEW d \in Deliverers, Deliver(d) PROVE A
    BY <2>0, <2>3 DEF Deliver, EmitUpdated, CallHandler, NotifyWatcher, FinishCalls,
       EmitReady, TypeOK, stateVars
  <2>4. ASSUME \/ \E w \in Watchers : Watch(w)
               \/ \E gone \in SUBSET watching : Unwatch(gone)
               \/ \E h \in Handlers : On(h)
               \/ \E gone \in SUBSET handlers : Off(gone)
               \/ \E r \in Readers : \/ \E k \in Keys : Lookup(r, k) \/ GetAllConfigs(r, k)
                                     \/ \E reason : EvaluateAndReturn(r, reason)
               \/ \E i \in Initializers : \/ Initialize(i)
                                          \/ \E raised \in BOOLEAN : ConnectEnds(i, raised)
                                          \/ WaitEnds(i)
                                          \/ WaitTimesOut(i)
               \/ CloseReleases
        PROVE A
    BY <2>0, <2>4 DEF Watch, Unwatch, On, Off, Lookup, GetAllConfigs, EvaluateAndReturn,
       Initialize, ConnectEnds, WaitEnds, WaitTimesOut, CloseReleases, stateVars, deliveryVars
  <2>5. CASE Close
    BY <2>0, <2>5 DEF Close, deliveryVars
  <2>. QED
    BY <2>1, <2>2, <2>3, <2>4, <2>5 DEF Next
<1>. QED
  BY <1>1, ReadyInvariant, PTL DEF Spec, ClosedIsFinal

-----------------------------------------------------------------------------
(* The steps that touch nothing a view depends on, nor who is to be told.  *)
ViewsUntouched == UNCHANGED <<configs, segments, sent, snap, seen, looked, watching,
                              wTodo, dpc, first, ready, closed, overlapped>>

(* What the steps of Next come to, for the data: five kinds of them touch  *)
(* it, the rest only registrations of handlers, initialize() and the       *)
(* progress of a delivery.                                                 *)
LEMMA QuietSteps ==
  ASSUME \/ \E h \in Handlers : On(h)
         \/ \E gone \in SUBSET handlers : Off(gone)
         \/ \E i \in Initializers : \/ Initialize(i)
                                    \/ \E raised \in BOOLEAN : ConnectEnds(i, raised)
                                    \/ WaitEnds(i)
                                    \/ WaitTimesOut(i)
         \/ \E d \in Deliverers : \E h \in Handlers : CallHandler(d, h)
         \/ CloseReleases
         \/ UNCHANGED vars
  PROVE  ViewsUntouched
BY DEF On, Off, Initialize, ConnectEnds, WaitEnds, WaitTimesOut, CallHandler,
       CloseReleases, vars, stateVars, regVars, deliveryVars, ViewsUntouched

-----------------------------------------------------------------------------
(* Coherence.  A definition meets its segments in a whole state, not only  *)
(* in one view of it; and it is never newer than the last bundle applied,  *)
(* so that the segments of the next one are at least as new.               *)
CoherentState(cfg, sgs) ==
  \A k \in Keys : cfg[k] # None =>
    \A s \in cfg[k].came : sgs[s] # None => sgs[s] >= cfg[k].ver

VersionsSent == \A k \in Keys : configs[k] # None => configs[k].ver <= sent

CoherenceInv ==
  /\ TypeOK
  /\ VersionsSent
  /\ CoherentState(configs, segments)
  /\ \A d \in Deliverers : CoherentState(snap[d].configs, snap[d].segments)
  /\ \A r \in Readers : Coherent(looked[r])
  /\ \A w \in Watchers : Coherent(seen[w])

(* Every view of a coherent state is coherent.                             *)
LEMMA CoherentView ==
  ASSUME NEW k \in Keys, NEW cfg \in Configs, NEW sgs \in Segments,
         CoherentState(cfg, sgs)
  PROVE  Coherent(View(k, cfg, sgs))
<1> DEFINE v == View(k, cfg, sgs)
<1> SUFFICES ASSUME cfg[k] # None, NEW s \in cfg[k].came, v.segs[s] # None
             PROVE  v.segs[s] >= cfg[k].ver
  BY DEF Coherent, View
<1>1. s \in Segs
  BY DEF Configs, Def
<1>2. v.segs[s] = sgs[s]
  BY <1>1 DEF View
<1>. QED
  BY <1>2 DEF CoherentState

(* Applying bundle n to a coherent state whose definitions are older than  *)
(* n gives a coherent state.                                               *)
LEMMA CoherentApplied ==
  ASSUME TypeOK, VersionsSent, CoherentState(configs, segments),
         sent < MaxBundles, NEW b \in Shapes
  PROVE  /\ CoherentState(NewConfigs(b, sent + 1), NewSegments(b, sent + 1))
         /\ \A k \in Keys : NewConfigs(b, sent + 1)[k] # None =>
                              NewConfigs(b, sent + 1)[k].ver <= sent + 1
<1> DEFINE n == sent + 1
           cfg == NewConfigs(b, n)
           sgs == NewSegments(b, n)
<1>1. sent \in Nat /\ n \in 1..MaxBundles
  BY ConfigClientAssumption DEF TypeOK
<1>2. configs \in Configs /\ segments \in Segments /\ b \in BundleShape
  BY ConfigClientAssumption DEF TypeOK
<1>3. ASSUME NEW k \in Keys, cfg[k] # None
      PROVE  \/ cfg[k] = configs[k]
             \/ /\ cfg[k].ver = n
                /\ cfg[k].came \subseteq b.segments
  <2>1. BundleConfigs(b, n)[k] # None =>
          BundleConfigs(b, n)[k] = [ver |-> n, segs |-> b.configs[k],
                                    came |-> b.configs[k] \cap b.segments]
    BY DEF BundleConfigs
  <2>2. cfg[k] = configs[k] \/ (cfg[k] = BundleConfigs(b, n)[k])
    BY <1>2 DEF NewConfigs, Overlay, Configs
  <2>. QED
    BY <1>3, <2>1, <2>2
<1>4. ASSUME NEW s \in Segs, sgs[s] # None
      PROVE  sgs[s] = n \/ (~ReplacesState(b) /\ s \notin b.segments /\ sgs[s] = segments[s])
  BY <1>1, <1>2, <1>4, NoneDistinct DEF NewSegments, BundleSegments, Overlay, Segments
<1>5. ASSUME NEW k \in Keys, cfg[k] # None PROVE cfg[k].ver <= n
  BY <1>1, <1>2, <1>3, <1>5 DEF VersionsSent, Configs, Def
<1>6. ASSUME NEW k \in Keys, cfg[k] # None, NEW s \in cfg[k].came, sgs[s] # None
      PROVE  sgs[s] >= cfg[k].ver
  <2>1. cfg \in Configs
    BY <1>1, AppliedType
  <2>2. s \in Segs /\ cfg[k].ver \in Nat
    BY <1>6, <2>1 DEF Configs, Def
  <2>3. CASE sgs[s] = n
    BY <1>1, <1>5, <1>6, <2>2, <2>3
  <2>4. CASE s \notin b.segments /\ sgs[s] = segments[s]
    <3>1. cfg[k] = configs[k]
      BY <1>3, <1>6, <2>4
    <3>. QED
      BY <1>6, <2>4, <3>1 DEF CoherentState
  <2>. QED
    BY <1>4, <1>6, <2>2, <2>3, <2>4
<1>. QED
  BY <1>5, <1>6 DEF CoherentState

LEMMA CoherenceInit == Init => CoherenceInv
<1> SUFFICES ASSUME Init PROVE CoherenceInv
  OBVIOUS
<1>1. TypeOK
  BY TypeInit
<1>2. \A k \in Keys : configs[k] = None
  BY DEF Init
<1>3. \A d \in Deliverers : snap[d].configs = configs
  BY DEF Init
<1>. QED
  BY <1>1, <1>2, <1>3 DEF CoherenceInv, VersionsSent, CoherentState, Coherent, Init

LEMMA CoherenceStep == CoherenceInv /\ [Next]_vars => CoherenceInv'
<1> SUFFICES ASSUME CoherenceInv, [Next]_vars PROVE CoherenceInv'
  OBVIOUS
<1>0. TypeOK /\ TypeOK'
  BY TypeStep DEF CoherenceInv
<1>1. ASSUME NEW d \in Deliverers, NEW b \in Shapes, OnBundle(d, b)
      PROVE  CoherenceInv'
  <2> DEFINE n == sent + 1
  <2>1. /\ sent < MaxBundles /\ sent' = n
        /\ configs' = NewConfigs(b, n)
        /\ segments' = NewSegments(b, n)
        /\ snap' = [snap EXCEPT ![d] = [configs |-> NewConfigs(b, n),
                                        segments |-> NewSegments(b, n)]]
        /\ UNCHANGED <<seen, looked>>
    BY <1>1 DEF OnBundle
  <2>2. CoherentState(configs', segments') /\ VersionsSent'
    BY <2>1, CoherentApplied DEF CoherenceInv, VersionsSent
  <2>3. \A e \in Deliverers : CoherentState(snap'[e].configs, snap'[e].segments)
    <3> SUFFICES ASSUME NEW e \in Deliverers
                 PROVE  CoherentState(snap'[e].configs, snap'[e].segments)
      OBVIOUS
    <3>1. CASE e = d
      BY <1>0, <2>1, <2>2, <3>1 DEF TypeOK
    <3>2. CASE e # d
      BY <1>0, <2>1, <3>2 DEF TypeOK, CoherenceInv
    <3>. QED
      BY <3>1, <3>2
  <2>4. CoherentState(configs, segments)'
    BY <2>2 DEF CoherentState
  <2>5. (\A e \in Deliverers : CoherentState(snap[e].configs, snap[e].segments))'
    BY <2>3 DEF CoherentState
  <2>. QED
    BY <1>0, <2>1, <2>2, <2>4, <2>5 DEF CoherenceInv, Coherent
<1>2. ASSUME NEW d \in Deliverers, NEW w \in Watchers, NotifyWatcher(d, w)
      PROVE  CoherenceInv'
  <2> DEFINE v == View(WatchKey[w], snap[d].configs, snap[d].segments)
  <2>1. Coherent(v)
    BY <1>0, CoherentView, ConfigClientAssumption DEF TypeOK, CoherenceInv
  <2>2. \A x \in Watchers : seen'[x] = IF x = w THEN v ELSE seen[x]
    BY <1>0, <1>2 DEF NotifyWatcher, TypeOK
  <2>3. \A x \in Watchers : Coherent(seen'[x])
    BY <2>1, <2>2 DEF CoherenceInv
  <2>4. UNCHANGED <<configs, segments, sent, snap, looked>>
    BY <1>2 DEF NotifyWatcher, stateVars
  <2>. QED
    BY <1>0, <2>3, <2>4 DEF CoherenceInv, CoherentState, VersionsSent, Coherent
<1>3. ASSUME NEW w \in Watchers, Watch(w) PROVE CoherenceInv'
  <2> DEFINE v == View(WatchKey[w], configs, segments)
  <2>1. Coherent(v)
    BY <1>0, CoherentView, ConfigClientAssumption DEF TypeOK, CoherenceInv
  <2>2. \A x \in Watchers : seen'[x] = IF x = w THEN v ELSE seen[x]
    BY <1>0, <1>3 DEF Watch, TypeOK
  <2>3. \A x \in Watchers : Coherent(seen'[x])
    BY <2>1, <2>2 DEF CoherenceInv
  <2>4. UNCHANGED <<configs, segments, sent, snap, looked>>
    BY <1>3 DEF Watch, stateVars, deliveryVars
  <2>. QED
    BY <1>0, <2>3, <2>4 DEF CoherenceInv, CoherentState, VersionsSent, Coherent
<1>4. ASSUME NEW r \in Readers, NEW k \in Keys, Lookup(r, k) PROVE CoherenceInv'
  <2> DEFINE v == View(k, configs, segments)
  <2>1. Coherent(v)
    BY <1>0, CoherentView DEF TypeOK, CoherenceInv
  <2>2. \A x \in Readers : looked'[x] = IF x = r THEN v ELSE looked[x]
    BY <1>0, <1>4 DEF Lookup, TypeOK
  <2>3. \A x \in Readers : Coherent(looked'[x])
    BY <2>1, <2>2 DEF CoherenceInv
  <2>4. UNCHANGED <<configs, segments, sent, snap, seen>>
    BY <1>4 DEF Lookup, stateVars, deliveryVars
  <2>. QED
    BY <1>0, <2>3, <2>4 DEF CoherenceInv, CoherentState, VersionsSent, Coherent
<1>5. ASSUME NEW r \in Readers, NEW reason, EvaluateAndReturn(r, reason)
      PROVE  CoherenceInv'
  <2>1. \A x \in Readers : looked'[x] \in {None, looked[x]}
    BY <1>0, <1>5 DEF EvaluateAndReturn, TypeOK
  <2>2. \A x \in Readers : Coherent(looked'[x])
    BY <2>1 DEF CoherenceInv, Coherent
  <2>3. UNCHANGED <<configs, segments, sent, snap, seen>>
    BY <1>5 DEF EvaluateAndReturn, stateVars, deliveryVars
  <2>. QED
    BY <1>0, <2>2, <2>3 DEF CoherenceInv, CoherentState, VersionsSent, Coherent
<1>6. ASSUME NEW d \in Deliverers, OnBundleIgnored(d) PROVE CoherenceInv'
  <2>1. sent' = sent + 1 /\ UNCHANGED <<configs, segments, snap, seen, looked>>
    BY <1>6 DEF OnBundleIgnored, stateVars
  <2>2. VersionsSent'
    BY <1>0, <2>1 DEF CoherenceInv, VersionsSent, TypeOK, Configs, Def
  <2>. QED
    BY <1>0, <2>1, <2>2 DEF CoherenceInv, CoherentState, Coherent
<1>7. ASSUME \/ ViewsUntouched
             \/ \E gone \in SUBSET watching : Unwatch(gone)
             \/ Close
             \/ \E d \in Deliverers : EmitUpdated(d) \/ FinishCalls(d) \/ EmitReady(d)
      PROVE  CoherenceInv'
  <2>1. UNCHANGED <<configs, segments, sent, snap, seen, looked>>
    BY <1>7 DEF ViewsUntouched, Unwatch, Close, EmitUpdated, FinishCalls, EmitReady,
       stateVars, deliveryVars
  <2>. QED
    BY <1>0, <2>1 DEF CoherenceInv, CoherentState, VersionsSent, Coherent
<1>. QED
  BY <1>1, <1>2, <1>3, <1>4, <1>5, <1>6, <1>7, QuietSteps DEF Next, Deliver, GetAllConfigs

(* Nobody, neither a reader nor a watcher, ever gets a definition with     *)
(* segments older than the ones it was delivered with.                     *)
THEOREM DefinitionsAndSegments == Spec => []DefinitionsMeetTheirSegments
<1>1. CoherenceInv => DefinitionsMeetTheirSegments
  BY CoherentView DEF CoherenceInv, TypeOK, DefinitionsMeetTheirSegments
<1>. QED
  BY <1>1, CoherenceInit, CoherenceStep, PTL DEF Spec

-----------------------------------------------------------------------------
(* What a bundle leaves unannounced.  A key that is neither among the      *)
(* updated nor among the removed ones keeps its definition, and each       *)
(* segment it uses is the one it had or is gone.                           *)
SameUnlessGone(new, old) ==
  /\ new.def = old.def
  /\ \A s \in Segs : new.segs[s] \in {None, old.segs[s]}

LEMMA UnannouncedIsSame ==
  ASSUME TypeOK, sent < MaxBundles, NEW b \in Shapes, NEW k \in Keys,
         k \notin UpdatedKeys(b, sent + 1) \cup RemovedKeys(b, sent + 1)
  PROVE  SameUnlessGone(View(k, NewConfigs(b, sent + 1), NewSegments(b, sent + 1)),
                        View(k, configs, segments))
<1> DEFINE n == sent + 1
           cfg == NewConfigs(b, n)
           sgs == NewSegments(b, n)
<1>1. n \in 1..MaxBundles
  BY ConfigClientAssumption DEF TypeOK
<1>2. configs \in Configs /\ segments \in Segments /\ b \in BundleShape
  BY ConfigClientAssumption DEF TypeOK
<1>3. cfg \in Configs /\ sgs \in Segments
  BY <1>1, AppliedType
<1>4. /\ b.configs[k] = None
      /\ ~UsesAnySegment(cfg[k], b.segments)
      /\ configs[k] # None => cfg[k] # None
  BY DEF UpdatedKeys, RemovedKeys
<1>5. cfg[k] = configs[k]
  <2>1. BundleConfigs(b, n)[k] = None
    BY <1>4 DEF BundleConfigs
  <2>2. cfg[k] \in {configs[k], None}
    BY <1>2, <2>1 DEF NewConfigs, Overlay, Configs
  <2>. QED
    BY <1>4, <2>2
<1>6. ASSUME NEW s \in Segs, cfg[k] # None, s \in cfg[k].segs
      PROVE  sgs[s] \in {None, segments[s]}
  <2>1. s \notin b.segments
    BY <1>4, <1>6 DEF UsesAnySegment
  <2>2. BundleSegments(b, n)[s] = None
    BY <2>1 DEF BundleSegments
  <2>. QED
    BY <1>2, <2>2 DEF NewSegments, Overlay, Segments
<1>. QED
  BY <1>5, <1>6 DEF View, SameUnlessGone

-----------------------------------------------------------------------------
(* A deliverer that is not in the middle of its callbacks owes none.       *)
IdleOwesNothing ==
  \A d \in Deliverers : dpc[d] \in {"idle", "ready"} => wTodo[d] = {}

OwesInv == TypeOK /\ IdleOwesNothing

LEMMA OwesInit == Init => OwesInv
BY TypeInit DEF Init, OwesInv, IdleOwesNothing

LEMMA OwesStep == OwesInv /\ [Next]_vars => OwesInv'
<1> SUFFICES ASSUME OwesInv, [Next]_vars PROVE IdleOwesNothing'
  BY TypeStep DEF OwesInv
<1>0. TypeOK /\ IdleOwesNothing
  BY DEF OwesInv
<1>1. ASSUME NEW d \in Deliverers, NEW b \in Shapes, OnBundle(d, b)
      PROVE  IdleOwesNothing'
  <2>1. \A e \in Deliverers : /\ dpc'[e] = IF e = d THEN "emit" ELSE dpc[e]
                              /\ e # d => wTodo'[e] = wTodo[e]
    BY <1>0, <1>1 DEF OnBundle, TypeOK
  <2>. QED
    BY <1>0, <2>1 DEF IdleOwesNothing
<1>2. ASSUME NEW d \in Deliverers, Deliver(d) PROVE IdleOwesNothing'
  <2>1. CASE EmitUpdated(d) \/ EmitReady(d)
    BY <1>0, <2>1 DEF EmitUpdated, EmitReady, TypeOK, IdleOwesNothing
  <2>2. ASSUME NEW h \in Handlers, CallHandler(d, h) PROVE IdleOwesNothing'
    BY <1>0, <2>2 DEF CallHandler, IdleOwesNothing
  <2>3. ASSUME NEW w \in Watchers, NotifyWatcher(d, w) PROVE IdleOwesNothing'
    BY <1>0, <2>3 DEF NotifyWatcher, TypeOK, IdleOwesNothing
  <2>4. CASE FinishCalls(d)
    BY <1>0, <2>4 DEF FinishCalls, TypeOK, IdleOwesNothing
  <2>. QED
    BY <1>2, <2>1, <2>2, <2>3, <2>4 DEF Deliver
<1>3. ASSUME \/ ViewsUntouched
             \/ \E d \in Deliverers : OnBundleIgnored(d)
             \/ \E w \in Watchers : Watch(w)
             \/ \E gone \in SUBSET watching : Unwatch(gone)
             \/ \E r \in Readers : \/ \E k \in Keys : Lookup(r, k)
                                   \/ \E reason : EvaluateAndReturn(r, reason)
             \/ Close
      PROVE  IdleOwesNothing'
  BY <1>0, <1>3 DEF ViewsUntouched, OnBundleIgnored, Watch, Unwatch, Lookup,
     EvaluateAndReturn, Close, deliveryVars, IdleOwesNothing
<1>. QED
  BY <1>1, <1>2, <1>3, QuietSteps DEF Next, GetAllConfigs

-----------------------------------------------------------------------------
(* Watchers, while threads deliver one at a time: the snapshot of the one  *)
(* that is delivering is the state in place; and a watcher in place either *)
(* was last told of what its key evaluates from now, or is still to be     *)
(* told of it.                                                             *)
OneAtATime == \A d, e \in Deliverers : dpc[d] # "idle" /\ dpc[e] # "idle" => d = e

SnapshotIsCurrent ==
  \A d \in Deliverers : dpc[d] # "idle" =>
    snap[d].configs = configs /\ snap[d].segments = segments

ToldOrOwed ==
  \A w \in watching :
    \/ \E d \in Deliverers : w \in wTodo[d]
    \/ /\ seen[w] # None
       /\ SameUnlessGone(View(WatchKey[w], configs, segments), seen[w])

InTurn == OneAtATime /\ SnapshotIsCurrent /\ ToldOrOwed

CurrentInv == OwesInv /\ (~overlapped => InTurn)

LEMMA SameTransitive ==
  ASSUME NEW u, NEW v, NEW x, SameUnlessGone(u, v), SameUnlessGone(v, x)
  PROVE  SameUnlessGone(u, x)
BY DEF SameUnlessGone

LEMMA CurrentInit == Init => CurrentInv
BY OwesInit DEF Init, CurrentInv, InTurn, OneAtATime, SnapshotIsCurrent, ToldOrOwed

(* Nothing makes deliveries that have overlapped forget it.                *)
LEMMA OverlapStays == [Next]_vars => (overlapped => overlapped')
<1>1. ASSUME NEW d \in Deliverers, NEW b \in Shapes, OnBundle(d, b)
      PROVE  overlapped => overlapped'
  BY <1>1 DEF OnBundle
<1>2. ASSUME \/ \E d \in Deliverers : OnBundleIgnored(d) \/ Deliver(d)
             \/ \E w \in Watchers : Watch(w)
             \/ \E gone \in SUBSET watching : Unwatch(gone)
             \/ \E r \in Readers : \/ \E k \in Keys : Lookup(r, k)
                                   \/ \E reason : EvaluateAndReturn(r, reason)
             \/ Close
      PROVE  overlapped' = overlapped
  BY <1>2 DEF OnBundleIgnored, Deliver, EmitUpdated, CallHandler, NotifyWatcher, FinishCalls,
     EmitReady, Watch, Unwatch, Lookup, EvaluateAndReturn, Close, stateVars
<1>3. ViewsUntouched => overlapped' = overlapped
  BY DEF ViewsUntouched
<1>. QED
  BY <1>1, <1>2, <1>3, QuietSteps DEF Next, GetAllConfigs

LEMMA CurrentStep == CurrentInv /\ [Next]_vars => CurrentInv'
<1> SUFFICES ASSUME CurrentInv, [Next]_vars, ~overlapped' PROVE InTurn'
  BY OwesStep DEF CurrentInv
<1> USE DEF InTurn
<1>0. /\ TypeOK /\ TypeOK' /\ IdleOwesNothing
      /\ OneAtATime /\ SnapshotIsCurrent /\ ToldOrOwed
  BY TypeStep, OverlapStays DEF CurrentInv, OwesInv
<1>1. ASSUME NEW d \in Deliverers, NEW b \in Shapes, OnBundle(d, b)
      PROVE  InTurn'
  <2> DEFINE n == sent + 1
             changed == UpdatedKeys(b, n) \cup RemovedKeys(b, n)
  <2>1. /\ dpc[d] = "idle" /\ sent < MaxBundles
        /\ configs' = NewConfigs(b, n)
        /\ segments' = NewSegments(b, n)
        /\ snap' = [snap EXCEPT ![d] = [configs |-> NewConfigs(b, n),
                                        segments |-> NewSegments(b, n)]]
        /\ wTodo' = [wTodo EXCEPT ![d] = {w \in watching : WatchKey[w] \in changed}]
        /\ watching' = watching /\ seen' = seen
    BY <1>1 DEF OnBundle, regVars
  <2>0. \A e \in Deliverers : dpc[e] = "idle"
    BY <1>1, <2>1 DEF OnBundle
  <2>2. OneAtATime' /\ SnapshotIsCurrent'
    BY <1>0, <1>1, <2>0, <2>1 DEF OnBundle, OneAtATime, SnapshotIsCurrent, TypeOK
  <2>3. \A e \in Deliverers : wTodo[e] = {}
    BY <1>0, <2>0 DEF IdleOwesNothing
  <2>4. ASSUME NEW w \in watching, WatchKey[w] \notin changed
        PROVE  /\ seen[w] # None
               /\ SameUnlessGone(View(WatchKey[w], configs', segments'), seen[w])
    <3>1. WatchKey[w] \in Keys
      BY <1>0, ConfigClientAssumption DEF TypeOK
    <3>2. SameUnlessGone(View(WatchKey[w], configs', segments'),
                         View(WatchKey[w], configs, segments))
      BY <1>0, <2>1, <2>4, <3>1, UnannouncedIsSame
    <3>3. seen[w] # None /\ SameUnlessGone(View(WatchKey[w], configs, segments), seen[w])
      BY <1>0, <2>3 DEF ToldOrOwed
    <3>. QED
      BY <3>2, <3>3, SameTransitive
  <2>5. \A w \in watching : WatchKey[w] \in changed => w \in wTodo'[d]
    BY <1>0, <2>1 DEF TypeOK
  <2>. QED
    BY <2>1, <2>2, <2>4, <2>5 DEF ToldOrOwed, View, SameUnlessGone
<1>2. ASSUME NEW d \in Deliverers, NEW w \in Watchers, NotifyWatcher(d, w)
      PROVE  InTurn'
  <2> DEFINE v == View(WatchKey[w], configs, segments)
  <2>1. /\ dpc[d] = "calling"
        /\ seen' = [seen EXCEPT
                      ![w] = View(WatchKey[w], snap[d].configs, snap[d].segments)]
        /\ wTodo' = [wTodo EXCEPT ![d] = @ \ {w}]
        /\ UNCHANGED <<configs, segments, snap, dpc, watching>>
    BY <1>2 DEF NotifyWatcher, stateVars, regVars
  <2>2. View(WatchKey[w], snap[d].configs, snap[d].segments) = v
    BY <1>0, <2>1 DEF SnapshotIsCurrent
  <2>3. v # None /\ SameUnlessGone(v, v)
    BY <1>0, ViewType, ConfigClientAssumption DEF TypeOK, SameUnlessGone
  <2>4. \A x \in Watchers : seen'[x] = IF x = w THEN v ELSE seen[x]
    BY <1>0, <2>1, <2>2 DEF TypeOK
  <2>5. \A x \in Watchers, e \in Deliverers : x # w /\ x \in wTodo[e] => x \in wTodo'[e]
    BY <1>0, <2>1 DEF TypeOK
  <2>6. OneAtATime' /\ SnapshotIsCurrent'
    BY <1>0, <2>1 DEF OneAtATime, SnapshotIsCurrent
  <2>7. watching \subseteq Watchers
    BY <1>0 DEF TypeOK
  <2>8. ASSUME NEW x \in watching'
        PROVE  \/ \E e \in Deliverers : x \in wTodo'[e]
               \/ /\ seen'[x] # None
                  /\ SameUnlessGone(View(WatchKey[x], configs', segments'), seen'[x])
    <3>1. CASE x = w
      BY <2>1, <2>3, <2>4, <3>1
    <3>2. CASE x # w
      BY <1>0, <2>1, <2>4, <2>5, <2>7, <3>2 DEF ToldOrOwed
    <3>. QED
      BY <3>1, <3>2
  <2>. QED
    BY <2>6, <2>8 DEF ToldOrOwed, View, SameUnlessGone
<1>3. ASSUME NEW w \in Watchers, Watch(w) PROVE InTurn'
  <2> DEFINE v == View(WatchKey[w], configs, segments)
  <2>1. /\ seen' = [seen EXCEPT ![w] = v]
        /\ watching' = watching \cup {w}
        /\ UNCHANGED <<configs, segments, snap, dpc, wTodo>>
    BY <1>3 DEF Watch, stateVars, deliveryVars
  <2>2. v # None /\ SameUnlessGone(v, v)
    BY <1>0, ViewType, ConfigClientAssumption DEF TypeOK, SameUnlessGone
  <2>3. \A x \in Watchers : seen'[x] = IF x = w THEN v ELSE seen[x]
    BY <1>0, <2>1 DEF TypeOK
  <2>4. watching \subseteq Watchers
    BY <1>0 DEF TypeOK
  <2>5. OneAtATime' /\ SnapshotIsCurrent'
    BY <1>0, <2>1 DEF OneAtATime, SnapshotIsCurrent
  <2>6. ASSUME NEW x \in watching'
        PROVE  \/ \E e \in Deliverers : x \in wTodo'[e]
               \/ /\ seen'[x] # None
                  /\ SameUnlessGone(View(WatchKey[x], configs', segments'), seen'[x])
    <3>1. CASE x = w
      BY <2>1, <2>2, <2>3, <3>1
    <3>2. CASE x # w
      BY <1>0, <2>1, <2>3, <2>4, <3>2 DEF ToldOrOwed
    <3>. QED
      BY <3>1, <3>2
  <2>. QED
    BY <2>5, <2>6 DEF ToldOrOwed, View, SameUnlessGone
<1>4. ASSUME NEW d \in Deliverers, EmitUpdated(d) \/ FinishCalls(d) \/ EmitReady(d)
      PROVE  InTurn'
  <2>1. /\ UNCHANGED <<configs, segments, snap, wTodo, seen, watching>>
        /\ dpc[d] # "idle"
        /\ \A e \in Deliverers : e # d => dpc'[e] = dpc[e]
    BY <1>0, <1>4 DEF EmitUpdated, FinishCalls, EmitReady, stateVars, regVars, TypeOK
  <2>. QED
    BY <1>0, <2>1 DEF OneAtATime, SnapshotIsCurrent, ToldOrOwed, View, SameUnlessGone
<1>5. ASSUME \/ ViewsUntouched
             \/ \E d \in Deliverers : OnBundleIgnored(d)
             \/ \E gone \in SUBSET watching : Unwatch(gone)
             \/ \E r \in Readers : \/ \E k \in Keys : Lookup(r, k)
                                   \/ \E reason : EvaluateAndReturn(r, reason)
             \/ Close
      PROVE  InTurn'
  <2>1. /\ UNCHANGED <<configs, segments, snap, dpc, wTodo, seen>>
        /\ watching' \subseteq watching
    BY <1>5 DEF ViewsUntouched, OnBundleIgnored, Unwatch, Lookup, EvaluateAndReturn,
       Close, stateVars, regVars, deliveryVars
  <2>. QED
    BY <1>0, <2>1 DEF OneAtATime, SnapshotIsCurrent, ToldOrOwed, View, SameUnlessGone
<1>. QED
  BY <1>1, <1>2, <1>3, <1>4, <1>5, QuietSteps DEF Next, Deliver, GetAllConfigs

(* As long as no two threads have delivered at the same time, no watcher   *)
(* misses a change: once delivery is quiet, a watcher in place was last    *)
(* told of the definition its key has now and of every segment it uses     *)
(* now.                                                                    *)
THEOREM WatchersMissNothing == Spec => []WatchersCurrent
<1>1. CurrentInv => WatchersCurrent
  BY DEF CurrentInv, InTurn, OwesInv, IdleOwesNothing, ToldOrOwed, WatchersCurrent,
         SameUnlessGone
<1>2. CurrentInv /\ [Next]_vars => CurrentInv'
  BY CurrentStep
<1>. QED
  BY <1>1, <1>2, CurrentInit, PTL DEF Spec

-----------------------------------------------------------------------------
(* The refinement, step by step.  Every step of the client is a step of    *)
(* the feed, or leaves the feed as it is.                                  *)
FeedView == [k \in Keys |-> View(k, configs, segments)]

(* What one deliverer owes: the state it snapshotted, to each watcher it   *)
(* has still to call.                                                      *)
OwedBy(d) == {<<w, View(WatchKey[w], snap[d].configs, snap[d].segments)>> : w \in wTodo[d]}

LEMMA OwedIsUnion == Owed = UNION {OwedBy(d) : d \in Deliverers}
BY DEF Owed, OwedBy

(* _on_bundle's critical section publishes the new state.                  *)
LEMMA OnBundlePublishes ==
  ASSUME OwesInv, NEW d \in Deliverers, NEW b \in Shapes, OnBundle(d, b)
  PROVE  Feed!Publish
<1> DEFINE n == sent + 1
           changed == UpdatedKeys(b, n) \cup RemovedKeys(b, n)
           ws == {w \in watching : WatchKey[w] \in changed}
<1>0. TypeOK /\ IdleOwesNothing
  BY DEF OwesInv
<1>1. /\ dpc[d] = "idle" /\ sent < MaxBundles /\ ~closed
      /\ configs' = NewConfigs(b, n)
      /\ segments' = NewSegments(b, n)
      /\ snap' = [snap EXCEPT ![d] = [configs |-> NewConfigs(b, n),
                                      segments |-> NewSegments(b, n)]]
      /\ wTodo' = [wTodo EXCEPT ![d] = ws]
      /\ ready' = TRUE /\ UNCHANGED <<closed, watching, seen, looked>>
  BY DEF OnBundle, Ignored, regVars
<1>2. Phase # "closed" /\ Phase' = "ready"
  BY <1>1 DEF Phase
<1>3. ASSUME NEW w \in watching \ ws
      PROVE  ~Feed!Differs(FeedView[WatchKey[w]], FeedView'[WatchKey[w]])
  <2>1. WatchKey[w] \in Keys
    BY <1>0, ConfigClientAssumption DEF TypeOK
  <2>2. SameUnlessGone(View(WatchKey[w], configs', segments'),
                       View(WatchKey[w], configs, segments))
    BY <1>0, <1>1, <2>1, UnannouncedIsSame
  <2>3. FeedView[WatchKey[w]] = View(WatchKey[w], configs, segments)
        /\ FeedView'[WatchKey[w]] = View(WatchKey[w], configs', segments')
    BY <2>1 DEF FeedView, View
  <2>4. DOMAIN View(WatchKey[w], configs', segments').segs = Segs
    BY DEF View
  <2>. QED
    BY <2>2, <2>3, <2>4 DEF Feed!Differs, SameUnlessGone
<1>4. Owed' = Owed \cup {<<w, FeedView'[WatchKey[w]]>> : w \in ws}
  <2>1. OwedBy(d) = {}
    BY <1>0, <1>1 DEF IdleOwesNothing, OwedBy
  <2>2. \A e \in Deliverers : e # d => OwedBy(e)' = OwedBy(e)
    BY <1>0, <1>1 DEF OwedBy, TypeOK, View
  <2>3. \A w \in ws : FeedView'[WatchKey[w]] = View(WatchKey[w], configs', segments')
    BY <1>0, ConfigClientAssumption DEF TypeOK, FeedView, View
  <2>4. snap'[d].configs = configs' /\ snap'[d].segments = segments' /\ wTodo'[d] = ws
    BY <1>0, <1>1 DEF TypeOK
  <2>5. OwedBy(d)' = {<<w, FeedView'[WatchKey[w]]>> : w \in ws}
    <3>1. OwedBy(d)' = {<<w, View(WatchKey[w], snap'[d].configs, snap'[d].segments)>> :
                          w \in wTodo'[d]}
      BY DEF OwedBy, View
    <3>2. OwedBy(d)' = {<<w, View(WatchKey[w], configs', segments')>> : w \in ws}
      BY <2>4, <3>1
    <3>. QED
      BY <2>3, <3>2
  <2>6. Owed' = UNION {OwedBy(e)' : e \in Deliverers}
    BY DEF Owed, OwedBy
  <2>. QED
    BY <2>1, <2>2, <2>5, <2>6, OwedIsUnion
<1>5. ws \in SUBSET watching
  OBVIOUS
<1>. QED
  BY <1>1, <1>2, <1>3, <1>4, <1>5 DEF Feed!Publish, FeedView

(* _notify_watchers tells one watcher of the state that was snapshotted.   *)
LEMMA NotifyTells ==
  ASSUME TypeOK, NEW d \in Deliverers, NEW w \in Watchers, NotifyWatcher(d, w)
  PROVE  LET v == View(WatchKey[w], snap[d].configs, snap[d].segments)
         IN  <<w, v>> \in Owed /\ Feed!Tell(w, v)
<1> DEFINE v == View(WatchKey[w], snap[d].configs, snap[d].segments)
<1>1. /\ w \in wTodo[d]
      /\ seen' = [seen EXCEPT ![w] = v]
      /\ wTodo' = [wTodo EXCEPT ![d] = @ \ {w}]
      /\ UNCHANGED <<configs, segments, ready, closed, snap, watching, looked>>
  BY DEF NotifyWatcher, stateVars, regVars
<1>2. <<w, v>> \in Owed
  BY <1>1 DEF Owed
<1>3. OwedBy(d)' = OwedBy(d) \ {<<w, v>>}
  <2>1. wTodo'[d] = wTodo[d] \ {w}
    BY <1>1 DEF TypeOK
  <2>. QED
    BY <1>1, <2>1 DEF OwedBy, View
<1>4. \A e \in Deliverers : e # d => OwedBy(e)' = OwedBy(e)
  BY <1>1 DEF OwedBy, View, TypeOK
<1>5. Owed' \in {Owed, Owed \ {<<w, v>>}}
  <2>1. Owed' = UNION {OwedBy(e)' : e \in Deliverers}
    BY DEF Owed, OwedBy
  <2>2. CASE \E e \in Deliverers : e # d /\ <<w, v>> \in OwedBy(e)
    <3>1. Owed' = Owed
      BY <1>3, <1>4, <2>1, <2>2, OwedIsUnion
    <3>. QED
      BY <3>1
  <2>3. CASE \A e \in Deliverers : e # d => <<w, v>> \notin OwedBy(e)
    <3>1. Owed' = Owed \ {<<w, v>>}
      BY <1>3, <1>4, <2>1, <2>3, OwedIsUnion
    <3>. QED
      BY <3>1
  <2>. QED
    BY <2>2, <2>3
<1>6. UNCHANGED <<Phase, FeedView, watching, looked>>
  BY <1>1 DEF Phase, FeedView, View
<1>. QED
  BY <1>1, <1>2, <1>5, <1>6 DEF Feed!Tell, FeedView

LEMMA FeedInit == Init => Feed!Init
<1> SUFFICES ASSUME Init PROVE Feed!Init
  OBVIOUS
<1>1. Phase = "starting"
  BY DEF Init, Phase
<1>2. \A k \in Keys : FeedView[k].def = None
  BY DEF Init, FeedView, View
<1>3. Owed = {}
  BY DEF Init, Owed
<1>. QED
  BY <1>1, <1>2, <1>3 DEF Init, Feed!Init, FeedView

LEMMA FeedStep == OwesInv /\ [Next]_vars => [Feed!Next]_(Feed!feed)
<1> SUFFICES ASSUME OwesInv, [Next]_vars PROVE Feed!Next \/ UNCHANGED Feed!feed
  OBVIOUS
<1>0. TypeOK
  BY DEF OwesInv
<1> DEFINE Same == UNCHANGED <<configs, segments, snap, wTodo>>
<1>1. Same => Owed' = Owed /\ FeedView' = FeedView
  BY DEF Owed, FeedView, View
<1>2. UNCHANGED <<ready, closed>> => Phase' = Phase
  BY DEF Phase
<1>3. ASSUME NEW d \in Deliverers, NEW b \in Shapes, OnBundle(d, b) PROVE Feed!Next
  BY <1>3, OnBundlePublishes DEF Feed!Next
<1>4. ASSUME NEW d \in Deliverers, NEW w \in Watchers, NotifyWatcher(d, w)
      PROVE  Feed!Next
  <2> DEFINE v == View(WatchKey[w], snap[d].configs, snap[d].segments)
  <2>1. <<w, v>> \in Owed /\ Feed!Tell(w, v)
    BY <1>0, <1>4, NotifyTells
  <2>2. \E p \in Owed : p[1] = w /\ Feed!Tell(w, p[2])
    BY <2>1
  <2>. QED
    BY <2>2 DEF Feed!Next
<1>5. ASSUME NEW w \in Watchers, Watch(w) PROVE Feed!Next
  <2>1. /\ watching' = watching \cup {w}
        /\ seen' = [seen EXCEPT ![w] = View(WatchKey[w], configs, segments)]
        /\ Same /\ UNCHANGED <<ready, closed, looked>>
    BY <1>5 DEF Watch, stateVars, deliveryVars
  <2>2. FeedView[WatchKey[w]] = View(WatchKey[w], configs, segments)
    BY ConfigClientAssumption DEF FeedView
  <2>3. Feed!Watch(w)
    BY <1>1, <1>2, <2>1, <2>2 DEF Feed!Watch, FeedView
  <2>. QED
    BY <2>3 DEF Feed!Next
<1>6. ASSUME NEW gone \in SUBSET watching, Unwatch(gone) PROVE Feed!Next
  <2>1. watching' \subseteq watching /\ Same /\ UNCHANGED <<ready, closed, seen, looked>>
    BY <1>6 DEF Unwatch, stateVars, deliveryVars
  <2>2. Feed!Unwatch
    BY <1>1, <1>2, <2>1 DEF Feed!Unwatch, FeedView
  <2>. QED
    BY <2>2 DEF Feed!Next
<1>7. ASSUME NEW r \in Readers, NEW k \in Keys, Lookup(r, k) PROVE Feed!Next
  <2>1. /\ looked[r] = None
        /\ looked' = [looked EXCEPT ![r] = View(k, configs, segments)]
        /\ Same /\ UNCHANGED <<ready, closed, watching, seen>>
    BY <1>7 DEF Lookup, stateVars, regVars, deliveryVars
  <2>2. FeedView[k] = View(k, configs, segments)
    BY DEF FeedView
  <2>3. Feed!Read(r, k)
    BY <1>1, <1>2, <2>1, <2>2 DEF Feed!Read, FeedView
  <2>. QED
    BY <2>3 DEF Feed!Next
<1>8. ASSUME NEW r \in Readers, NEW reason, EvaluateAndReturn(r, reason)
      PROVE  Feed!Next
  <2>1. /\ looked' = [looked EXCEPT ![r] = None]
        /\ Same /\ UNCHANGED <<ready, closed, watching, seen>>
    BY <1>8 DEF EvaluateAndReturn, stateVars, regVars, deliveryVars
  <2>2. Feed!Return(r)
    BY <1>1, <1>2, <2>1 DEF Feed!Return, FeedView
  <2>. QED
    BY <2>2 DEF Feed!Next
<1>9. ASSUME Close PROVE Feed!Next
  <2>1. /\ ~closed /\ closed' /\ watching' = {}
        /\ Same /\ UNCHANGED <<seen, looked>>
    BY <1>9 DEF Close, deliveryVars
  <2>2. Phase # "closed" /\ Phase' = "closed"
    BY <2>1 DEF Phase
  <2>3. Feed!Close
    BY <1>1, <2>1, <2>2 DEF Feed!Close, FeedView
  <2>. QED
    BY <2>3 DEF Feed!Next
<1>10. ASSUME \/ ViewsUntouched
              \/ \E d \in Deliverers : \/ OnBundleIgnored(d) \/ EmitUpdated(d)
                                       \/ FinishCalls(d) \/ EmitReady(d)
       PROVE  UNCHANGED Feed!feed
  <2>1. Same /\ UNCHANGED <<ready, closed, watching, seen, looked>>
    BY <1>10 DEF ViewsUntouched, OnBundleIgnored, EmitUpdated, FinishCalls, EmitReady,
       stateVars, regVars
  <2>. QED
    BY <1>1, <1>2, <2>1 DEF Feed!feed, FeedView
<1>. QED
  BY <1>3, <1>4, <1>5, <1>6, <1>7, <1>8, <1>9, <1>10, QuietSteps
     DEF Next, Deliver, GetAllConfigs

(* The client of client.py is a ConfigFeed, with any number of threads     *)
(* delivering, reading, registering and closing at the same time.          *)
THEOREM ClientIsAFeed == Spec => ImplementsFeed
<1>1. Spec => []OwesInv
  BY OwesInit, OwesStep, PTL DEF Spec
<1>. QED
  BY <1>1, FeedInit, FeedStep, PTL DEF Spec, ImplementsFeed, Feed!Spec
=============================================================================
