------------------------------ MODULE Telemetry ------------------------------
(***************************************************************************)
(* Telemetry: the collector, its queues and the reporter, in               *)
(* configdirector/_telemetry (collector.py, queue.py, reporter.py).        *)
(* Threads that evaluate configs record evaluations and invalid contexts;  *)
(* the flush thread reports them at intervals; close() reports what is     *)
(* left.                                                                   *)
(*                                                                         *)
(* Every action is one critical section of a queue's lock or of the        *)
(* collector's, or one step between two of them.  An evaluation is its     *)
(* number, in the order of push(), and its context; an invalid context is  *)
(* counted, whatever its kind sample.  Times, aggregation and the wire     *)
(* format are left out, but for a report that cannot be written in it.     *)
(***************************************************************************)
EXTENDS Naturals, Sequences, FiniteSets, Functions

CONSTANTS
  Recorders,     \* threads that evaluate configs
  Contexts,      \* contexts that are recorded
  None,          \* no context, or an anonymous one
  EventLimit,    \* EventQueue's limit
  ContextLimit,  \* ContextRegistry's limit
  MaxEvents,     \* bound: evaluations pushed
  MaxInvalid     \* bound: invalid contexts recorded

Thread == "thread"   \* the flush thread
Closer == "closer"   \* the thread that calls close()
Flushers == {Thread, Closer}

ASSUME TelemetryAssumption ==
  /\ EventLimit \in Nat
  /\ ContextLimit \in Nat
  /\ MaxEvents \in Nat
  /\ MaxInvalid \in Nat
  /\ None \notin Contexts \cup Flushers

Events == [n: 1..MaxEvents, ctx: Contexts \cup {None}]

VARIABLES
  queue,         \* EventQueue._events
  dropped,       \* EventQueue._dropped_count
  registry,      \* ContextRegistry._contexts, in the order of insertion
  droppedCtx,    \* ContextRegistry._dropped_count
  invalid,       \* InvalidContextSubmissions: how many it holds
  collecting,    \* _collecting
  wasCollecting, \* was_collecting in close()
  stop,          \* _stop
  sendRequests,  \* the reporter's _send_requests
  rpc,           \* per recorder: where in record_evaluation it is
  rctx,          \* per recorder: the context of the evaluation
  pc,            \* per flusher: where it is
  flushLock,     \* who holds _flush_lock
  batch,         \* per flusher: the report being put together or sent
  pushed,        \* history: evaluations pushed
  evicted,       \* history: evaluations a full queue discarded
  lostCtx,       \* history: contexts a full registry or a clear() discarded
  told,          \* history: what the reports the server accepted carried
  failed,        \* history: what the other reports carried
  rejected,      \* history: invalid contexts recorded while collecting
  cleared,       \* history: a clear() discarded evaluations or their count
  before         \* history: pushed when close() was called

queueVars == <<queue, dropped>>
registryVars == <<registry, droppedCtx>>
stateVars == <<collecting, wasCollecting, stop, sendRequests>>
recorderVars == <<rpc, rctx>>
pushVars == <<pushed, evicted, lostCtx, rejected>>
toldVars == <<told, failed>>
vars == <<queueVars, registryVars, invalid, stateVars, recorderVars, pc, flushLock,
          batch, pushVars, toldVars, cleared, before>>

Numbers(es) == {e.n : e \in es}
Reports == [events: SUBSET Events, dropped: Nat, contexts: SUBSET Contexts,
            droppedCtx: Nat, invalid: Nat]
EmptyReport == [events |-> {}, dropped |-> 0, contexts |-> {}, droppedCtx |-> 0,
                invalid |-> 0]
Merged(a, b) == [events |-> a.events \cup b.events, dropped |-> a.dropped + b.dropped,
                 contexts |-> a.contexts \cup b.contexts,
                 droppedCtx |-> a.droppedCtx + b.droppedCtx,
                 invalid |-> a.invalid + b.invalid]
Goto(f, l) == pc' = [pc EXCEPT ![f] = l]

-----------------------------------------------------------------------------
(* record_evaluation and record_invalid_context                            *)

RecordEvaluation(r, ctx) ==
  /\ rpc[r] = "idle"
  /\ pushed + Cardinality({q \in Recorders : rpc[q] # "idle"}) < MaxEvents
  /\ collecting
  /\ rctx' = [rctx EXCEPT ![r] = ctx]
  /\ rpc' = [rpc EXCEPT ![r] = IF ctx = None THEN "push" ELSE "add"]
  /\ UNCHANGED <<queueVars, registryVars, invalid, stateVars, pc, flushLock,
                 batch, pushVars, toldVars, cleared, before>>

(* The registry with ctx in it: one that is there keeps its place.         *)
Added(ctx) == IF ctx \in Range(registry) THEN registry ELSE Append(registry, ctx)

(* ContextRegistry.add evicts the oldest while there are too many.         *)
AddContext(r) ==
  LET full == Len(Added(rctx[r])) > ContextLimit
  IN /\ rpc[r] = "add"
     /\ registry' = IF full THEN Tail(Added(rctx[r])) ELSE Added(rctx[r])
     /\ droppedCtx' = IF full THEN droppedCtx + 1 ELSE droppedCtx
     /\ lostCtx' = IF full THEN lostCtx \cup {Head(Added(rctx[r]))}
                              ELSE lostCtx
     /\ rpc' = [rpc EXCEPT ![r] = "push"]
     /\ UNCHANGED <<queueVars, invalid, stateVars, rctx, pc, flushLock, batch,
                    pushed, evicted, rejected, toldVars, cleared, before>>

\* Mutant of NewlyDropped: what a full queue discards is not counted.
NewlyDropped_Uncounted == 0

(* Whether the bounded deque discards its oldest entry on the next push.   *)
NewlyDropped == IF Len(queue) = EventLimit THEN 1 ELSE 0

QueuedWith(e) ==
  IF Len(queue) = EventLimit THEN Tail(Append(queue, e)) ELSE Append(queue, e)

(* EventQueue.push.                                                        *)
Push(r) ==
  LET e == [n |-> pushed + 1, ctx |-> rctx[r]]
  IN /\ rpc[r] = "push"
     /\ pushed < MaxEvents
     /\ pushed' = pushed + 1
     /\ queue' = QueuedWith(e)
     /\ dropped' = dropped + NewlyDropped
     /\ evicted' = IF Len(queue) = EventLimit
                     THEN evicted \cup {Head(Append(queue, e)).n} ELSE evicted
     /\ rpc' = [rpc EXCEPT ![r] = "idle"]
     /\ rctx' = [rctx EXCEPT ![r] = None]
     /\ UNCHANGED <<registryVars, invalid, stateVars, pc, flushLock, batch,
                    lostCtx, rejected, toldVars, cleared, before>>

(* Under the collector's lock.  A record made after collecting stopped is  *)
(* kept apart and never reported.                                          *)
RecordInvalidContext ==
  /\ collecting
  /\ rejected < MaxInvalid
  /\ invalid' = invalid + 1
  /\ rejected' = rejected + 1
  /\ UNCHANGED <<queueVars, registryVars, stateVars, recorderVars, pc, flushLock,
                 batch, pushed, evicted, lostCtx, toldVars, cleared, before>>

-----------------------------------------------------------------------------
(* flush() by f                                                            *)

\* Mutant of MayFlush: a flush does not wait for the one in progress.
MayFlush_Unlocked == TRUE

MayFlush == flushLock = None

TakesEvents(f) ==
  /\ batch' = [batch EXCEPT ![f].events = Range(queue), ![f].dropped = dropped]
  /\ queue' = <<>>
  /\ dropped' = 0
  /\ UNCHANGED registryVars

TakesContexts(f) ==
  /\ batch' = [batch EXCEPT ![f].contexts = Range(registry),
                            ![f].droppedCtx = droppedCtx]
  /\ registry' = <<>>
  /\ droppedCtx' = 0
  /\ UNCHANGED queueVars

\* Mutant of TakesSnapshot: the contexts are taken first.
TakesSnapshot_Swapped(f, step) == IF step = 2 THEN TakesEvents(f) ELSE TakesContexts(f)

(* The order of the first two snapshots.                                   *)
TakesSnapshot(f, step) == IF step = 1 THEN TakesEvents(f) ELSE TakesContexts(f)

FlushBegins(f) ==
  /\ pc[f] = "flush"
  /\ MayFlush
  /\ flushLock' = f
  /\ TakesSnapshot(f, 1)
  /\ Goto(f, "second")
  /\ UNCHANGED <<invalid, stateVars, recorderVars, pushVars, toldVars, cleared,
                 before>>

FlushContinues(f) ==
  /\ pc[f] = "second"
  /\ TakesSnapshot(f, 2)
  /\ Goto(f, "third")
  /\ UNCHANGED <<invalid, stateVars, recorderVars, flushLock, pushVars, toldVars,
                 cleared, before>>

(* Where a flusher goes when its flush is over.                            *)
AfterFlush(f) == IF f = Thread THEN "flushed" ELSE "clear"

(* InvalidContextSubmissions.take_snapshot: every count, and a reset.      *)
TakesInvalid(f) ==
  /\ batch' = [batch EXCEPT ![f].invalid = invalid]
  /\ invalid' = 0

(* The last snapshot.  Nothing is sent when there is nothing to report.    *)
FlushCompletes(f) ==
  /\ pc[f] = "third"
  /\ TakesInvalid(f)
  /\ flushLock' = IF batch'[f] = EmptyReport THEN None ELSE flushLock
  /\ Goto(f, IF batch'[f] = EmptyReport THEN AfterFlush(f) ELSE "report")
  /\ UNCHANGED <<queueVars, registryVars, stateVars, recorderVars, pushVars,
                 toldVars, cleared, before>>

(* The report of f is over, and the flush lock is released.  Nothing of a  *)
(* report that was not accepted is kept for another one.                   *)
Settles(f, accepted) ==
  /\ told' = IF accepted THEN Merged(told, batch[f]) ELSE told
  /\ failed' = IF accepted THEN failed ELSE Merged(failed, batch[f])
  /\ batch' = [batch EXCEPT ![f] = EmptyReport]
  /\ flushLock' = None

(* HttpEventReporter.report makes a request ...                            *)
Report(f) ==
  /\ pc[f] = "report"
  /\ sendRequests
  /\ Goto(f, "sent")
  /\ UNCHANGED <<queueVars, registryVars, invalid, stateVars, recorderVars, flushLock,
                 batch, pushVars, toldVars, cleared, before>>

(* ... unless json.dumps refuses what a trait of a context holds.  flush() *)
(* logs whatever report() raises.                                          *)
ReportRaises(f) ==
  /\ pc[f] = "report"
  /\ sendRequests
  /\ Settles(f, FALSE)
  /\ Goto(f, AfterFlush(f))
  /\ UNCHANGED <<queueVars, registryVars, invalid, stateVars, recorderVars, pushVars,
                 cleared, before>>

(* After a fatal answer nothing is sent.                                   *)
ReportWithheld(f) ==
  /\ pc[f] = "report"
  /\ ~sendRequests
  /\ Settles(f, FALSE)
  /\ Goto(f, "fatal")
  /\ UNCHANGED <<queueVars, registryVars, invalid, stateVars, recorderVars, pushVars,
                 cleared, before>>

\* Mutant of Answered: a fatal answer is taken for a failed report.
Answered_NeverFatal(f, outcome) ==
  /\ pc[f] = "sent"
  /\ sendRequests' = (outcome # "fatal")
  /\ Settles(f, outcome = "ok")
  /\ Goto(f, AfterFlush(f))
  /\ UNCHANGED <<queueVars, registryVars, invalid, collecting, wasCollecting, stop,
                 recorderVars, pushVars, cleared, before>>

(* The request succeeds; fails, or its answer cannot be read, and the      *)
(* events are discarded; or is refused for good, by a 4xx other than 429   *)
(* or an unusable URL.                                                     *)
Answered(f, outcome) ==
  /\ pc[f] = "sent"
  /\ sendRequests' = (outcome # "fatal")
  /\ Settles(f, outcome = "ok")
  /\ Goto(f, IF outcome = "fatal" THEN "fatal" ELSE AfterFlush(f))
  /\ UNCHANGED <<queueVars, registryVars, invalid, collecting, wasCollecting, stop,
                 recorderVars, pushVars, cleared, before>>

(* _stop_collecting, outside the flush lock.                               *)
StopCollecting(f) ==
  /\ pc[f] = "fatal"
  /\ collecting' = FALSE
  /\ stop' = (stop \/ collecting)
  /\ Goto(f, IF collecting THEN "clear" ELSE AfterFlush(f))
  /\ UNCHANGED <<queueVars, registryVars, invalid, wasCollecting, sendRequests,
                 recorderVars, flushLock, batch, pushVars, toldVars, cleared, before>>

-----------------------------------------------------------------------------
(* The clear() calls that end _stop_collecting and close()                 *)

ClearEvents(f) ==
  /\ pc[f] = "clear"
  /\ cleared' = (cleared \/ queue # <<>> \/ dropped > 0)
  /\ queue' = <<>>
  /\ dropped' = 0
  /\ Goto(f, "clear contexts")
  /\ UNCHANGED <<registryVars, invalid, stateVars, recorderVars, flushLock, batch,
                 pushVars, toldVars, before>>

ClearContexts(f) ==
  /\ pc[f] = "clear contexts"
  /\ lostCtx' = lostCtx \cup Range(registry)
  /\ registry' = <<>>
  /\ droppedCtx' = 0
  /\ Goto(f, "clear invalid")
  /\ UNCHANGED <<queueVars, invalid, stateVars, recorderVars, flushLock, batch,
                 pushed, evicted, rejected, toldVars, cleared, before>>

ClearInvalid(f) ==
  /\ pc[f] = "clear invalid"
  /\ invalid' = 0
  /\ Goto(f, IF f = Thread THEN "flushed" ELSE "done")
  /\ UNCHANGED <<queueVars, registryVars, stateVars, recorderVars, flushLock,
                 batch, pushVars, toldVars, cleared, before>>

-----------------------------------------------------------------------------
(* The flush thread's loop, and close()                                    *)

(* _run: the wait ends because the event is set or the interval is over.   *)
Wait ==
  /\ pc[Thread] = "waiting"
  /\ Goto(Thread, IF stop THEN "done" ELSE "flush")
  /\ UNCHANGED <<queueVars, registryVars, invalid, stateVars, recorderVars,
                 flushLock, batch, pushVars, toldVars, cleared, before>>

Flushed ==
  /\ pc[Thread] = "flushed"
  /\ Goto(Thread, IF collecting THEN "waiting" ELSE "done")
  /\ UNCHANGED <<queueVars, registryVars, invalid, stateVars, recorderVars,
                 flushLock, batch, pushVars, toldVars, cleared, before>>

(* close(), which a second call leaves at once.                            *)
Close ==
  /\ pc[Closer] = "idle"
  /\ wasCollecting' = collecting
  /\ collecting' = FALSE
  /\ before' = pushed
  /\ Goto(Closer, "stop")
  /\ UNCHANGED <<queueVars, registryVars, invalid, stop, sendRequests, recorderVars,
                 flushLock, batch, pushVars, toldVars, cleared>>

CloseSetsStop ==
  /\ pc[Closer] = "stop"
  /\ stop' = TRUE
  /\ Goto(Closer, "join")
  /\ UNCHANGED <<queueVars, registryVars, invalid, collecting, wasCollecting,
                 sendRequests, recorderVars, flushLock, batch, pushVars, toldVars,
                 cleared, before>>

\* Mutant of AfterJoin: what is left is not reported.
AfterJoin_Discards == "clear"

(* Nothing left to say to a server that already rejected us.               *)
AfterJoin == IF wasCollecting THEN "flush" ELSE "clear"

(* The join ends with the thread, or after its timeout.                    *)
CloseJoined ==
  /\ pc[Closer] = "join"
  /\ pc[Thread] = "done"
  /\ Goto(Closer, AfterJoin)
  /\ UNCHANGED <<queueVars, registryVars, invalid, stateVars, recorderVars,
                 flushLock, batch, pushVars, toldVars, cleared, before>>

CloseJoinTimesOut ==
  /\ pc[Closer] = "join"
  /\ pc[Thread] # "done"
  /\ Goto(Closer, AfterJoin)
  /\ UNCHANGED <<queueVars, registryVars, invalid, stateVars, recorderVars,
                 flushLock, batch, pushVars, toldVars, cleared, before>>

-----------------------------------------------------------------------------
Init ==
  /\ queue = <<>>
  /\ dropped = 0
  /\ registry = <<>>
  /\ droppedCtx = 0
  /\ invalid = 0
  /\ collecting = TRUE
  /\ wasCollecting = FALSE
  /\ stop = FALSE
  /\ sendRequests = TRUE
  /\ rpc = [r \in Recorders |-> "idle"]
  /\ rctx = [r \in Recorders |-> None]
  /\ pc = [f \in Flushers |-> IF f = Thread THEN "waiting" ELSE "idle"]
  /\ flushLock = None
  /\ batch = [f \in Flushers |-> EmptyReport]
  /\ pushed = 0
  /\ evicted = {}
  /\ lostCtx = {}
  /\ told = EmptyReport
  /\ failed = EmptyReport
  /\ rejected = 0
  /\ cleared = FALSE
  /\ before = 0

Outcomes == {"ok", "failed", "fatal"}

Flushes(f) ==
  \/ FlushBegins(f) \/ FlushContinues(f) \/ FlushCompletes(f)
  \/ Report(f) \/ ReportRaises(f) \/ ReportWithheld(f)
  \/ \E outcome \in Outcomes : Answered(f, outcome)
  \/ StopCollecting(f)
  \/ ClearEvents(f) \/ ClearContexts(f) \/ ClearInvalid(f)

ThreadStep == Flushes(Thread) \/ Wait \/ Flushed
CloserStep == Flushes(Closer) \/ CloseSetsStop \/ CloseJoined

Next ==
  \/ \E r \in Recorders : \/ \E ctx \in Contexts \cup {None} : RecordEvaluation(r, ctx)
                          \/ AddContext(r)
                          \/ Push(r)
  \/ RecordInvalidContext
  \/ ThreadStep
  \/ Close
  \/ CloserStep
  \/ CloseJoinTimesOut

(* Both threads run, and a request ends: each has a timeout.               *)
Fairness == WF_vars(ThreadStep) /\ WF_vars(CloserStep)

Spec == Init /\ [][Next]_vars /\ Fairness

-----------------------------------------------------------------------------
(* Properties                                                              *)

(* The shape of the state; the queue and the registry keep their limits.   *)
TypeOK ==
  /\ queue \in Seq(Events) /\ Len(queue) <= EventLimit
  /\ dropped \in Nat
  /\ registry \in Seq(Contexts) /\ Len(registry) <= ContextLimit
  /\ droppedCtx \in Nat
  /\ invalid \in Nat
  /\ collecting \in BOOLEAN
  /\ wasCollecting \in BOOLEAN
  /\ stop \in BOOLEAN
  /\ sendRequests \in BOOLEAN
  /\ rpc \in [Recorders -> {"idle", "add", "push"}]
  /\ rctx \in [Recorders -> Contexts \cup {None}]
  /\ pc \in [Flushers -> {"waiting", "flush", "second", "third", "report", "sent",
                          "fatal", "clear", "clear contexts", "clear invalid",
                          "flushed", "idle", "stop", "join", "done"}]
  /\ flushLock \in Flushers \cup {None}
  /\ batch \in [Flushers -> Reports]
  /\ pushed \in 0..MaxEvents
  /\ told \in Reports
  /\ failed \in Reports

(* Until the queues are cleared, every evaluation recorded is queued, in a *)
(* report under way, in one the server accepted, in one that failed, or    *)
(* was discarded by a full queue, and the discarded ones are counted       *)
(* exactly once in all reports.  What failed is gone: flush() takes it out *)
(* of the queues first, and no later flush carries it.                     *)
EverythingAccounted ==
  ~cleared =>
    /\ 1..pushed = Numbers(Range(queue) \cup batch[Thread].events \cup batch[Closer].events
                             \cup told.events \cup failed.events) \cup evicted
    /\ Cardinality(evicted) = dropped + batch[Thread].dropped + batch[Closer].dropped
                                + told.dropped + failed.dropped

(* An evaluation is never reported ahead of its context: the context is in *)
(* the same report or an earlier one, unless a full registry dropped it,   *)
(* close() cleared it or that earlier report failed.                       *)
(* record_evaluation adds the context before it pushes the event, so flush *)
(* must take the events before the contexts.                               *)
ContextsReported ==
  \A e \in told.events :
    e.ctx # None => e.ctx \in told.contexts \cup failed.contexts \cup lostCtx

(* The evaluations of the reports that are over.                           *)
Settled == told.events \cup failed.events

(* A report never overtakes an earlier one: reports succeed or fail in the *)
(* order their evaluations were recorded, though close() flushes too.      *)
ReportsInOrder ==
  [][\A e \in Settled' \ Settled : \A earlier \in Settled : earlier.n < e.n]_vars

(* Once close() has returned, everything recorded before it was called was *)
(* in a report, and each report was accepted or failed for a reason of its *)
(* own; a full queue may have discarded some.  No count of invalid         *)
(* contexts is left behind either.  Nothing is promised once the server    *)
(* has refused telemetry for good.                                         *)
CloseReportsAll ==
  pc[Closer] = "done" /\ sendRequests =>
    /\ 1..before \subseteq Numbers(Settled) \cup evicted
    /\ told.invalid + failed.invalid = rejected

(* The flush thread ends once close() is called or the server refused      *)
(* telemetry for good, and close() returns.                                *)
Shutdown ==
  /\ (pc[Closer] # "idle" \/ ~sendRequests) ~> pc[Thread] = "done"
  /\ pc[Closer] # "idle" ~> pc[Closer] = "done"
=============================================================================
