--------------------------- MODULE TelemetryProofs ---------------------------
(***************************************************************************)
(* Proofs about Telemetry, for any number of recording threads, limits of  *)
(* the queue and the registry, and any number of evaluations.              *)
(***************************************************************************)
EXTENDS Telemetry, FiniteSetTheorems, TLAPS

(* What the histories hold; a thread that registers a context has one.     *)
HistoryType ==
  /\ \A r \in Recorders : rpc[r] = "add" => rctx[r] \in Contexts
  /\ evicted \subseteq 1..MaxEvents
  /\ lostCtx \subseteq Contexts
  /\ rejected \in Nat
  /\ cleared \in BOOLEAN
  /\ before \in 0..MaxEvents

Typed == TypeOK /\ HistoryType

(* The report of f is over.                                                *)
Settling(f) ==
  \/ ReportRaises(f) \/ ReportWithheld(f)
  \/ \E outcome \in Outcomes : Answered(f, outcome)

(* What the reports that are over carried, with Settled.                   *)
SettledDropped == told.dropped + failed.dropped
SettledCtx == told.contexts \cup failed.contexts
SettledInvalid == told.invalid + failed.invalid

-----------------------------------------------------------------------------
(* The deque and the registry, as sequences.                               *)

(* Appending adds one entry at the end.                                    *)
LEMMA AppendFacts ==
  ASSUME NEW S, NEW q \in Seq(S), NEW e \in S
  PROVE  /\ Append(q, e) \in Seq(S)
         /\ Len(Append(q, e)) = Len(q) + 1
         /\ Append(q, e)[Len(q) + 1] = e
         /\ \A i \in 1..Len(q) : Append(q, e)[i] = q[i]
         /\ Range(Append(q, e)) = Range(q) \cup {e}
<1>1. /\ Append(q, e) \in Seq(S)
      /\ Len(Append(q, e)) = Len(q) + 1
      /\ Append(q, e)[Len(q) + 1] = e
      /\ \A i \in 1..Len(q) : Append(q, e)[i] = q[i]
  OBVIOUS
<1>2. Len(q) \in Nat /\ DOMAIN q = 1..Len(q) /\ DOMAIN Append(q, e) = 1..(Len(q) + 1)
  BY <1>1
<1>3. Range(Append(q, e)) = Range(q) \cup {e}
  BY <1>1, <1>2 DEF Range
<1>. QED
  BY <1>1, <1>3

(* Dropping the oldest entry keeps the others, in their order.             *)
LEMMA TailFacts ==
  ASSUME NEW S, NEW q \in Seq(S), q # <<>>
  PROVE  /\ Tail(q) \in Seq(S)
         /\ Len(Tail(q)) = Len(q) - 1
         /\ Len(q) \in Nat \ {0}
         /\ Head(q) = q[1] /\ q[1] \in S
         /\ \A i \in 1..Len(Tail(q)) : Tail(q)[i] = q[i + 1]
         /\ Range(q) = Range(Tail(q)) \cup {Head(q)}
<1>1. /\ Tail(q) \in Seq(S)
      /\ Len(Tail(q)) = Len(q) - 1
      /\ Len(q) \in Nat \ {0}
      /\ Head(q) = q[1] /\ q[1] \in S
      /\ \A i \in 1..Len(Tail(q)) : Tail(q)[i] = q[i + 1]
  OBVIOUS
<1>2. DOMAIN q = 1..Len(q) /\ DOMAIN Tail(q) = 1..(Len(q) - 1)
  BY <1>1
<1>3. \A i \in 2..Len(q) : i - 1 \in 1..(Len(q) - 1) /\ q[i] = Tail(q)[i - 1]
  BY <1>1
<1>4. \A i \in 1..Len(q) : i = 1 \/ i \in 2..Len(q)
  BY <1>1
<1>5. Range(q) \subseteq Range(Tail(q)) \cup {Head(q)}
  <2> SUFFICES ASSUME NEW i \in 1..Len(q)
               PROVE  q[i] \in Range(Tail(q)) \cup {Head(q)}
    BY <1>2 DEF Range
  <2>1. CASE i = 1
    BY <1>1, <2>1
  <2>2. CASE i \in 2..Len(q)
    BY <1>2, <1>3, <2>2 DEF Range
  <2>. QED
    BY <1>4, <2>1, <2>2
<1>6. Range(Tail(q)) \cup {Head(q)} \subseteq Range(q)
  <2>1. \A i \in 1..(Len(q) - 1) : i + 1 \in 1..Len(q)
    BY <1>1
  <2>2. 1 \in 1..Len(q)
    BY <1>1
  <2>. QED
    BY <1>1, <1>2, <2>1, <2>2 DEF Range
<1>. QED
  BY <1>1, <1>5, <1>6

LEMMA EmptyRange == Range(<<>>) = {}
BY DEF Range

-----------------------------------------------------------------------------
(* push() and add(), under their limits.                                   *)

(* The queue after a push: within its limit, the new entry last unless     *)
(* nothing is kept, and all but the entries queued before are new.         *)
LEMMA QueuedFacts ==
  ASSUME queue \in Seq(Events), Len(queue) <= EventLimit, NEW e \in Events
  PROVE  /\ QueuedWith(e) \in Seq(Events)
         /\ Len(QueuedWith(e)) <= EventLimit
         /\ Len(queue) # EventLimit => Range(QueuedWith(e)) = Range(queue) \cup {e}
         /\ Len(queue) = EventLimit =>
              /\ Head(Append(queue, e)) \in Events
              /\ Range(queue) \cup {e} = Range(QueuedWith(e)) \cup {Head(Append(queue, e))}
<1> DEFINE q == Append(queue, e)
<1>1. /\ q \in Seq(Events) /\ Len(q) = Len(queue) + 1 /\ Len(queue) \in Nat
      /\ Range(q) = Range(queue) \cup {e}
  BY AppendFacts
<1>2. q # <<>>
  BY <1>1
<1>3. /\ Tail(q) \in Seq(Events) /\ Len(Tail(q)) = Len(q) - 1
      /\ Head(q) \in Events
      /\ Range(q) = Range(Tail(q)) \cup {Head(q)}
  BY <1>1, <1>2, TailFacts
<1>. QED
  BY <1>1, <1>3, TelemetryAssumption DEF QueuedWith

(* The registry after add(): within its limit, with the new context, and   *)
(* with those that were there, but for the one it evicted.                 *)
LEMMA AddedFacts ==
  ASSUME registry \in Seq(Contexts), Len(registry) <= ContextLimit, NEW c \in Contexts
  PROVE  /\ Added(c) \in Seq(Contexts)
         /\ Range(Added(c)) = Range(registry) \cup {c}
         /\ Len(Added(c)) > ContextLimit =>
              /\ Tail(Added(c)) \in Seq(Contexts)
              /\ Len(Tail(Added(c))) <= ContextLimit
              /\ Head(Added(c)) \in Contexts
              /\ Range(Added(c)) = Range(Tail(Added(c))) \cup {Head(Added(c))}
<1>1. /\ Added(c) \in Seq(Contexts)
      /\ Len(Added(c)) \in Nat /\ Len(Added(c)) <= ContextLimit + 1
      /\ Range(Added(c)) = Range(registry) \cup {c}
  BY AppendFacts, TelemetryAssumption DEF Added
<1>2. ASSUME Len(Added(c)) > ContextLimit
      PROVE  /\ Tail(Added(c)) \in Seq(Contexts)
             /\ Len(Tail(Added(c))) <= ContextLimit
             /\ Head(Added(c)) \in Contexts
             /\ Range(Added(c)) = Range(Tail(Added(c))) \cup {Head(Added(c))}
  <2>1. Added(c) # <<>>
    BY <1>1, <1>2, TelemetryAssumption
  <2>. QED
    BY <1>1, <2>1, TailFacts, TelemetryAssumption
<1>. QED
  BY <1>1, <1>2

(* What is queued, or registered, is of its type as a set too.             *)
LEMMA RangeType ==
  ASSUME NEW S, NEW q \in Seq(S) PROVE Range(q) \subseteq S
BY DEF Range

-----------------------------------------------------------------------------
(* Types.                                                                  *)
LEMMA TypedInit == Init => Typed
<1> SUFFICES ASSUME Init PROVE Typed
  OBVIOUS
<1>1. EmptyReport \in Reports
  BY DEF EmptyReport, Reports
<1>2. queue \in Seq(Events) /\ Len(queue) <= EventLimit
      /\ registry \in Seq(Contexts) /\ Len(registry) <= ContextLimit
  BY TelemetryAssumption DEF Init
<1>3. pushed \in 0..MaxEvents /\ before \in 0..MaxEvents
  BY TelemetryAssumption DEF Init
<1>. QED
  BY <1>1, <1>2, <1>3 DEF Init, Typed, TypeOK, HistoryType

LEMMA TypedStep == Typed /\ [Next]_vars => Typed'
<1> SUFFICES ASSUME Typed, [Next]_vars PROVE Typed'
  OBVIOUS
<1>0. EmptyReport \in Reports /\ Thread \in Flushers /\ Closer \in Flushers
  BY DEF EmptyReport, Reports, Flushers
<1>1. ASSUME NEW r \in Recorders, NEW ctx \in Contexts \cup {None}, RecordEvaluation(r, ctx)
      PROVE  Typed'
  BY <1>1 DEF RecordEvaluation, queueVars, registryVars, stateVars, pushVars, toldVars,
     Typed, TypeOK, HistoryType
<1>2. ASSUME NEW r \in Recorders, AddContext(r) PROVE Typed'
  <2>1. /\ rctx[r] \in Contexts /\ registry \in Seq(Contexts)
        /\ Len(registry) <= ContextLimit /\ lostCtx \subseteq Contexts /\ droppedCtx \in Nat
    BY <1>2 DEF AddContext, Typed, TypeOK, HistoryType
  <2>2. Added(rctx[r]) \in Seq(Contexts)
    BY <2>1, AddedFacts
  <2>3. Len(Added(rctx[r])) \in Nat
    BY <2>2
  <2>4. registry' \in Seq(Contexts) /\ Len(registry') <= ContextLimit
        /\ lostCtx' \subseteq Contexts
    <3>1. CASE Len(Added(rctx[r])) > ContextLimit
      <4>1. /\ registry' = Tail(Added(rctx[r]))
            /\ lostCtx' = lostCtx \cup {Head(Added(rctx[r]))}
        BY <1>2, <3>1 DEF AddContext
      <4>. QED
        BY <2>1, <3>1, <4>1, AddedFacts
    <3>2. CASE ~(Len(Added(rctx[r])) > ContextLimit)
      <4>1. registry' = Added(rctx[r]) /\ lostCtx' = lostCtx
        BY <1>2, <3>2 DEF AddContext
      <4>. QED
        BY <2>1, <2>2, <2>3, <3>2, <4>1, TelemetryAssumption
    <3>. QED
      BY <3>1, <3>2
  <2>5. droppedCtx' \in Nat
    BY <1>2, <2>1 DEF AddContext
  <2>6. rpc' \in [Recorders -> {"idle", "add", "push"}]
        /\ (\A x \in Recorders : rpc'[x] = "add" => rpc[x] = "add")
    BY <1>2 DEF AddContext, Typed, TypeOK
  <2>7. UNCHANGED <<queueVars, invalid, stateVars, rctx, pc, flushLock, batch,
                    pushed, evicted, rejected, toldVars, cleared, before>>
    BY <1>2 DEF AddContext
  <2>. QED
    BY <2>4, <2>5, <2>6, <2>7 DEF queueVars, stateVars, toldVars, Typed, TypeOK, HistoryType
<1>3. ASSUME NEW r \in Recorders, Push(r) PROVE Typed'
  <2> DEFINE e == [n |-> pushed + 1, ctx |-> rctx[r]]
  <2>1. /\ queue \in Seq(Events) /\ Len(queue) <= EventLimit /\ dropped \in Nat
        /\ pushed \in 0..MaxEvents /\ rctx[r] \in Contexts \cup {None}
        /\ evicted \subseteq 1..MaxEvents
    BY DEF Typed, TypeOK, HistoryType
  <2>2. e \in Events
    BY <1>3, <2>1, TelemetryAssumption DEF Push, Events
  <2>3. queue' \in Seq(Events) /\ Len(queue') <= EventLimit
    BY <1>3, <2>1, <2>2, QueuedFacts DEF Push
  <2>4. dropped' \in Nat /\ pushed' \in 0..MaxEvents
    BY <1>3, <2>1, TelemetryAssumption DEF Push, NewlyDropped
  <2>5. Len(queue) = EventLimit => Head(Append(queue, e)) \in Events
    BY <2>1, <2>2, QueuedFacts
  <2>6. evicted' \subseteq 1..MaxEvents
    BY <1>3, <2>1, <2>5 DEF Push, Events
  <2>7. /\ rpc' \in [Recorders -> {"idle", "add", "push"}]
        /\ rctx' \in [Recorders -> Contexts \cup {None}]
        /\ \A x \in Recorders : rpc'[x] = "add" => rpc[x] = "add" /\ rctx'[x] = rctx[x]
    BY <1>3 DEF Push, Typed, TypeOK
  <2>8. UNCHANGED <<registryVars, invalid, stateVars, pc, flushLock, batch,
                    lostCtx, rejected, toldVars, cleared, before>>
    BY <1>3 DEF Push
  <2>. QED
    BY <2>3, <2>4, <2>6, <2>7, <2>8 DEF registryVars, stateVars, toldVars, Typed, TypeOK,
       HistoryType
<1>4. CASE RecordInvalidContext
  <2>1. invalid' \in Nat /\ rejected' \in Nat
    <3>1. invalid \in Nat /\ rejected \in Nat
      BY DEF Typed, TypeOK, HistoryType
    <3>2. invalid' = invalid + 1 /\ rejected' = rejected + 1
      BY <1>4 DEF RecordInvalidContext
    <3>. QED
      BY <3>1, <3>2
  <2>2. UNCHANGED <<queueVars, registryVars, stateVars, recorderVars, pc, flushLock, batch,
                    pushed, evicted, lostCtx, toldVars, cleared, before>>
    BY <1>4 DEF RecordInvalidContext
  <2>. QED
    BY <2>1, <2>2 DEF queueVars, registryVars, stateVars, recorderVars, toldVars, Typed,
       TypeOK, HistoryType
<1>5. ASSUME NEW f \in Flushers, FlushBegins(f) PROVE Typed'
  <2>1. Range(queue) \subseteq Events
    BY RangeType DEF Typed, TypeOK
  <2>2. batch' \in [Flushers -> Reports]
    <3>1. batch \in [Flushers -> Reports] /\ dropped \in Nat
      BY DEF Typed, TypeOK
    <3>2. batch' = [batch EXCEPT ![f] = [batch[f] EXCEPT !.events = Range(queue),
                                                         !.dropped = dropped]]
      BY <1>5, <3>1 DEF FlushBegins, TakesSnapshot, TakesEvents
    <3>3. [batch[f] EXCEPT !.events = Range(queue), !.dropped = dropped] \in Reports
      BY <2>1, <3>1 DEF Reports
    <3>. QED
      BY <3>1, <3>2, <3>3
  <2>3. queue' \in Seq(Events) /\ Len(queue') <= EventLimit /\ dropped' \in Nat
    BY <1>5, TelemetryAssumption DEF FlushBegins, TakesSnapshot, TakesEvents
  <2>. QED
    BY <1>5, <2>2, <2>3 DEF FlushBegins, TakesSnapshot, TakesEvents, Goto, registryVars,
       stateVars, recorderVars, pushVars, toldVars, Typed, TypeOK, HistoryType
<1>6. ASSUME NEW f \in Flushers, FlushContinues(f) PROVE Typed'
  <2>1. Range(registry) \subseteq Contexts
    BY RangeType DEF Typed, TypeOK
  <2>2. batch' \in [Flushers -> Reports]
    <3>1. batch \in [Flushers -> Reports] /\ droppedCtx \in Nat
      BY DEF Typed, TypeOK
    <3>2. batch' = [batch EXCEPT ![f] = [batch[f] EXCEPT !.contexts = Range(registry),
                                                         !.droppedCtx = droppedCtx]]
      <4>1. TakesContexts(f)
        BY <1>6 DEF FlushContinues, TakesSnapshot
      <4>. QED
        BY <3>1, <4>1 DEF TakesContexts
    <3>3. [batch[f] EXCEPT !.contexts = Range(registry), !.droppedCtx = droppedCtx] \in Reports
      BY <2>1, <3>1 DEF Reports
    <3>. QED
      BY <3>1, <3>2, <3>3
  <2>3. registry' \in Seq(Contexts) /\ Len(registry') <= ContextLimit /\ droppedCtx' \in Nat
    BY <1>6, TelemetryAssumption DEF FlushContinues, TakesSnapshot, TakesContexts
  <2>4. /\ pc' = [pc EXCEPT ![f] = "third"]
        /\ UNCHANGED <<queueVars, invalid, stateVars, recorderVars, flushLock, pushVars,
                       toldVars, cleared, before>>
    BY <1>6 DEF FlushContinues, TakesSnapshot, TakesContexts, Goto
  <2>. QED
    BY <2>2, <2>3, <2>4 DEF queueVars, stateVars, recorderVars, pushVars, toldVars, Typed,
       TypeOK, HistoryType
<1>7. ASSUME NEW f \in Flushers, FlushCompletes(f) PROVE Typed'
  <2>1. batch' \in [Flushers -> Reports] /\ invalid' \in Nat
    BY <1>7, ZenonT(60) DEF FlushCompletes, TakesInvalid, Reports, Typed, TypeOK
  <2>. QED
    BY <1>7, <2>1 DEF FlushCompletes, Goto, AfterFlush, queueVars, registryVars, stateVars,
       recorderVars, pushVars, toldVars, Typed, TypeOK, HistoryType
<1>8. ASSUME NEW f \in Flushers, NEW ok \in BOOLEAN, Settles(f, ok)
      PROVE  /\ told' \in Reports /\ failed' \in Reports
             /\ batch' \in [Flushers -> Reports] /\ flushLock' = None
  <2>1. told \in Reports /\ failed \in Reports /\ batch \in [Flushers -> Reports]
    BY DEF Typed, TypeOK
  <2>2. Merged(told, batch[f]) \in Reports /\ Merged(failed, batch[f]) \in Reports
    BY <2>1 DEF Merged, Reports
  <2>. QED
    BY <1>0, <1>8, <2>1, <2>2 DEF Settles
<1>9. ASSUME NEW f \in Flushers, StopCollecting(f) \/ Report(f) PROVE Typed'
  BY <1>9 DEF Report, StopCollecting, Goto, AfterFlush, queueVars, registryVars, stateVars,
     recorderVars, pushVars, toldVars, Typed, TypeOK, HistoryType
<1>15. ASSUME NEW f \in Flushers, Settling(f) PROVE Typed'
  <2>1. PICK ok \in BOOLEAN : Settles(f, ok)
    BY <1>15 DEF Settling, ReportRaises, ReportWithheld, Answered
  <2>2. PICK l \in {"fatal", AfterFlush(f)} : pc' = [pc EXCEPT ![f] = l]
    BY <1>15 DEF Settling, ReportRaises, ReportWithheld, Answered, Goto
  <2>3. sendRequests' \in BOOLEAN
    BY <1>15 DEF Settling, ReportRaises, ReportWithheld, Answered, stateVars, Typed, TypeOK
  <2>4. UNCHANGED <<queueVars, registryVars, invalid, collecting, wasCollecting, stop,
                    recorderVars, pushVars, cleared, before>>
    BY <1>15 DEF Settling, ReportRaises, ReportWithheld, Answered, stateVars
  <2>. QED
    BY <1>8, <2>1, <2>2, <2>3, <2>4 DEF AfterFlush, queueVars, registryVars, recorderVars,
       pushVars, Typed, TypeOK, HistoryType
<1>10. ASSUME NEW f \in Flushers, ClearEvents(f) PROVE Typed'
  <2>1. queue' \in Seq(Events) /\ Len(queue') <= EventLimit /\ dropped' \in Nat
    <3>1. queue' = <<>> /\ dropped' = 0
      BY <1>10 DEF ClearEvents
    <3>. QED
      BY <3>1, TelemetryAssumption
  <2>2. /\ cleared' \in BOOLEAN
        /\ pc' = [pc EXCEPT ![f] = "clear contexts"]
        /\ UNCHANGED <<registryVars, invalid, stateVars, recorderVars, flushLock, batch,
                       pushVars, toldVars, before>>
    BY <1>10 DEF ClearEvents, Goto
  <2>. QED
    BY <2>1, <2>2 DEF registryVars, stateVars, recorderVars, pushVars, toldVars, Typed,
       TypeOK, HistoryType
<1>11. ASSUME NEW f \in Flushers, ClearContexts(f) PROVE Typed'
  <2>1. Range(registry) \subseteq Contexts
    BY RangeType DEF Typed, TypeOK
  <2>2. registry' \in Seq(Contexts) /\ Len(registry') <= ContextLimit /\ droppedCtx' \in Nat
    <3>1. registry' = <<>> /\ droppedCtx' = 0
      BY <1>11 DEF ClearContexts
    <3>. QED
      BY <3>1, TelemetryAssumption
  <2>3. /\ lostCtx' = lostCtx \cup Range(registry)
        /\ pc' = [pc EXCEPT ![f] = "clear invalid"]
        /\ UNCHANGED <<queueVars, invalid, stateVars, recorderVars, flushLock, batch,
                       pushed, evicted, rejected, toldVars, cleared, before>>
    BY <1>11 DEF ClearContexts, Goto
  <2>. QED
    BY <2>1, <2>2, <2>3 DEF queueVars, stateVars, recorderVars, toldVars, Typed, TypeOK,
       HistoryType
<1>12. ASSUME NEW f \in Flushers, ClearInvalid(f) PROVE Typed'
  BY <1>12 DEF ClearInvalid, Goto, queueVars, registryVars, stateVars, recorderVars,
     pushVars, toldVars, Typed, TypeOK, HistoryType
<1>13. CASE Wait \/ Flushed \/ Close \/ CloseSetsStop \/ CloseJoined \/ CloseJoinTimesOut
  BY <1>0, <1>13, ZenonT(60) DEF Wait, Flushed, Close, CloseSetsStop, CloseJoined, CloseJoinTimesOut,
     AfterJoin, Goto, queueVars, registryVars, stateVars, recorderVars, pushVars, toldVars,
     Typed, TypeOK, HistoryType
<1>14. CASE UNCHANGED vars
  BY <1>14 DEF vars, queueVars, registryVars, stateVars, recorderVars, pushVars, toldVars,
     Typed, TypeOK, HistoryType
<1>. QED
  BY <1>0, <1>1, <1>2, <1>3, <1>4, <1>5, <1>6, <1>7, <1>8, <1>9, <1>10, <1>11, <1>12,
     <1>13, <1>14, <1>15 DEF Next, ThreadStep, CloserStep, Flushes, Settling

(* The queue and the registry keep their limits, and everything its type.  *)
THEOREM TypeCorrect == Spec => []TypeOK
<1>1. Typed => TypeOK
  BY DEF Typed
<1>. QED
  BY <1>1, TypedInit, TypedStep, PTL DEF Spec

-----------------------------------------------------------------------------
(* What the steps of a flush do, spelled out.                              *)
LEMMA SettledKept ==
  UNCHANGED toldVars => UNCHANGED <<Settled, SettledDropped, SettledCtx, SettledInvalid>>
BY DEF toldVars, Settled, SettledDropped, SettledCtx, SettledInvalid

LEMMA SettledTyped ==
  Typed => SettledDropped \in Nat /\ SettledInvalid \in Nat
<1>1. Typed => /\ told.dropped \in Nat /\ failed.dropped \in Nat
               /\ told.invalid \in Nat /\ failed.invalid \in Nat
  BY DEF Typed, TypeOK, Reports
<1>. QED
  BY <1>1 DEF SettledDropped, SettledInvalid

LEMMA BeginsFacts ==
  ASSUME Typed, NEW f \in Flushers, FlushBegins(f)
  PROVE  /\ pc[f] = "flush" /\ flushLock = None /\ flushLock' = f
         /\ \A g \in Flushers : pc'[g] = IF g = f THEN "second" ELSE pc[g]
         /\ batch'[f] = [batch[f] EXCEPT !.events = Range(queue), !.dropped = dropped]
         /\ \A g \in Flushers : g # f => batch'[g] = batch[g]
         /\ queue' = <<>> /\ dropped' = 0
         /\ UNCHANGED <<registry, droppedCtx, invalid, collecting, wasCollecting, stop,
                        sendRequests, rpc, rctx, pushed, evicted, lostCtx, Settled,
                        SettledDropped, SettledCtx, rejected, SettledInvalid, cleared, before>>
<1>1. pc = [g \in Flushers |-> pc[g]] /\ batch \in [Flushers -> Reports]
  BY DEF Typed, TypeOK
<1>2. TakesEvents(f)
  BY DEF FlushBegins, TakesSnapshot
<1>. QED
  BY <1>1, <1>2, SettledKept DEF FlushBegins, MayFlush, TakesEvents, Goto, registryVars, stateVars,
     recorderVars, pushVars

LEMMA ContinuesFacts ==
  ASSUME Typed, NEW f \in Flushers, FlushContinues(f)
  PROVE  /\ pc[f] = "second"
         /\ \A g \in Flushers : pc'[g] = IF g = f THEN "third" ELSE pc[g]
         /\ batch'[f] = [batch[f] EXCEPT !.contexts = Range(registry),
                                         !.droppedCtx = droppedCtx]
         /\ \A g \in Flushers : g # f => batch'[g] = batch[g]
         /\ registry' = <<>> /\ droppedCtx' = 0
         /\ UNCHANGED <<queue, dropped, invalid, collecting, wasCollecting, stop,
                        sendRequests, rpc, rctx, flushLock, pushed, evicted, lostCtx, Settled,
                        SettledDropped, SettledCtx, rejected, SettledInvalid, cleared, before>>
<1>1. pc = [g \in Flushers |-> pc[g]] /\ batch \in [Flushers -> Reports]
  BY DEF Typed, TypeOK
<1>2. TakesContexts(f)
  BY DEF FlushContinues, TakesSnapshot
<1>. QED
  BY <1>1, <1>2, SettledKept DEF FlushContinues, TakesContexts, Goto, queueVars, stateVars,
     recorderVars, pushVars

LEMMA CompletesFacts ==
  ASSUME Typed, NEW f \in Flushers, FlushCompletes(f)
  PROVE  /\ pc[f] = "third"
         /\ \A g \in Flushers : g # f => batch'[g] = batch[g] /\ pc'[g] = pc[g]
         /\ batch'[f] = [batch[f] EXCEPT !.invalid = invalid]
         /\ \/ pc'[f] = "report" /\ flushLock' = flushLock
            \/ /\ pc'[f] = AfterFlush(f) /\ flushLock' = None
               /\ batch'[f] = EmptyReport
         /\ invalid' = 0
         /\ UNCHANGED <<queue, dropped, registry, droppedCtx, collecting, wasCollecting,
                        stop, sendRequests, rpc, rctx, pushed, evicted, lostCtx, Settled,
                        SettledDropped, SettledCtx, rejected, SettledInvalid, cleared, before>>
<1>1. pc = [g \in Flushers |-> pc[g]] /\ batch \in [Flushers -> Reports]
  BY DEF Typed, TypeOK
<1>. QED
  BY <1>1, SettledKept DEF FlushCompletes, TakesInvalid, Goto, queueVars, registryVars, stateVars,
     recorderVars, pushVars

LEMMA ReportFacts ==
  ASSUME Typed, NEW f \in Flushers, Report(f)
  PROVE  /\ pc[f] = "report" /\ sendRequests
         /\ \A g \in Flushers : pc'[g] = IF g = f THEN "sent" ELSE pc[g]
         /\ UNCHANGED <<queue, dropped, registry, droppedCtx, invalid, collecting,
                        wasCollecting, stop, sendRequests, rpc, rctx, flushLock, batch,
                        pushed, evicted, lostCtx, Settled, SettledDropped, SettledCtx,
                        rejected, SettledInvalid, cleared, before>>
<1>1. pc = [g \in Flushers |-> pc[g]]
  BY DEF Typed, TypeOK
<1>. QED
  BY <1>1, SettledKept DEF Report, Goto, queueVars, registryVars, stateVars, recorderVars,
     pushVars

(* What a report carried is settled, whether it was accepted or not.       *)
LEMMA SettlesFacts ==
  ASSUME Typed, NEW f \in Flushers, NEW ok \in BOOLEAN, Settles(f, ok)
  PROVE  /\ Settled' = Settled \cup batch[f].events
         /\ SettledDropped' = SettledDropped + batch[f].dropped
         /\ SettledCtx' = SettledCtx \cup batch[f].contexts
         /\ SettledInvalid' = SettledInvalid + batch[f].invalid
<1>1. /\ told \in Reports /\ failed \in Reports /\ batch[f] \in Reports
  BY DEF Typed, TypeOK
<1>2. /\ told.dropped \in Nat /\ failed.dropped \in Nat /\ batch[f].dropped \in Nat
      /\ told.invalid \in Nat /\ failed.invalid \in Nat /\ batch[f].invalid \in Nat
  BY <1>1 DEF Reports
<1>3. \/ told' = Merged(told, batch[f]) /\ failed' = failed
      \/ told' = told /\ failed' = Merged(failed, batch[f])
  BY DEF Settles
<1>4. /\ \/ told'.events = told.events \cup batch[f].events /\ failed' = failed
         \/ told' = told /\ failed'.events = failed.events \cup batch[f].events
      /\ \/ told'.contexts = told.contexts \cup batch[f].contexts /\ failed' = failed
         \/ told' = told /\ failed'.contexts = failed.contexts \cup batch[f].contexts
  BY <1>3 DEF Merged
<1>5. /\ \/ told'.dropped = told.dropped + batch[f].dropped /\ failed' = failed
         \/ told' = told /\ failed'.dropped = failed.dropped + batch[f].dropped
      /\ \/ told'.invalid = told.invalid + batch[f].invalid /\ failed' = failed
         \/ told' = told /\ failed'.invalid = failed.invalid + batch[f].invalid
  BY <1>3 DEF Merged
<1>6. Settled' = Settled \cup batch[f].events /\ SettledCtx' = SettledCtx \cup batch[f].contexts
  BY <1>4 DEF Settled, SettledCtx
<1>7. SettledDropped' = SettledDropped + batch[f].dropped
  BY <1>2, <1>5 DEF SettledDropped
<1>8. SettledInvalid' = SettledInvalid + batch[f].invalid
  BY <1>2, <1>5 DEF SettledInvalid
<1>. QED
  BY <1>6, <1>7, <1>8

LEMMA SettlingFacts ==
  ASSUME Typed, NEW f \in Flushers, Settling(f)
  PROVE  /\ pc[f] \in {"report", "sent"}
         /\ \A g \in Flushers : g # f => batch'[g] = batch[g] /\ pc'[g] = pc[g]
         /\ batch'[f] = EmptyReport
         /\ flushLock' = None
         /\ \/ pc'[f] = AfterFlush(f) /\ (pc[f] = "report" => sendRequests)
            \/ pc'[f] = "fatal" /\ ~sendRequests'
         /\ pc[f] = "report" => (sendRequests' => sendRequests)
         /\ Settled' = Settled \cup batch[f].events
         /\ SettledDropped' = SettledDropped + batch[f].dropped
         /\ SettledCtx' = SettledCtx \cup batch[f].contexts
         /\ SettledInvalid' = SettledInvalid + batch[f].invalid
         /\ UNCHANGED <<queue, dropped, registry, droppedCtx, invalid, collecting,
                        wasCollecting, stop, rpc, rctx, pushed, evicted,
                        lostCtx, rejected, cleared, before>>
<1>1. pc = [g \in Flushers |-> pc[g]] /\ batch \in [Flushers -> Reports]
  BY DEF Typed, TypeOK
<1>2. PICK ok \in BOOLEAN : Settles(f, ok)
  BY DEF Settling, ReportRaises, ReportWithheld, Answered
<1>3. /\ batch'[f] = EmptyReport /\ flushLock' = None
      /\ \A g \in Flushers : g # f => batch'[g] = batch[g]
  BY <1>1, <1>2 DEF Settles
<1>4. /\ pc[f] \in {"report", "sent"}
      /\ \A g \in Flushers : g # f => pc'[g] = pc[g]
      /\ \/ pc'[f] = AfterFlush(f) /\ (pc[f] = "report" => sendRequests)
         \/ pc'[f] = "fatal" /\ ~sendRequests'
      /\ pc[f] = "report" => (sendRequests' => sendRequests)
  <2>1. CASE ReportRaises(f)
    BY <1>1, <2>1 DEF ReportRaises, Goto, stateVars
  <2>2. CASE ReportWithheld(f)
    BY <1>1, <2>2 DEF ReportWithheld, Goto, stateVars
  <2>3. ASSUME NEW outcome \in Outcomes, Answered(f, outcome)
        PROVE  /\ pc[f] = "sent"
               /\ \A g \in Flushers : g # f => pc'[g] = pc[g]
               /\ pc'[f] = AfterFlush(f) \/ (pc'[f] = "fatal" /\ ~sendRequests')
    BY <1>1, <2>3 DEF Answered, Goto
  <2>. QED
    BY <2>1, <2>2, <2>3 DEF Settling
<1>5. UNCHANGED <<queue, dropped, registry, droppedCtx, invalid, collecting,
                  wasCollecting, stop, rpc, rctx, pushed, evicted, lostCtx, rejected,
                  cleared, before>>
  BY DEF Settling, ReportRaises, ReportWithheld, Answered, queueVars, registryVars,
     stateVars, recorderVars, pushVars
<1>6. /\ Settled' = Settled \cup batch[f].events
      /\ SettledDropped' = SettledDropped + batch[f].dropped
      /\ SettledCtx' = SettledCtx \cup batch[f].contexts
      /\ SettledInvalid' = SettledInvalid + batch[f].invalid
  BY <1>2, SettlesFacts
<1>. QED
  BY <1>3, <1>4, <1>5, <1>6

-----------------------------------------------------------------------------
(* The flush lock, and what follows from where the two flushers are.       *)

(* From its first snapshot to the answer a flush holds the lock.           *)
LockHeld ==
  \A f \in Flushers :
    pc[f] \in {"second", "third", "report", "sent"} => flushLock = f

(* A report exists only until it is answered, and is filled in the order   *)
(* of the snapshots.                                                       *)
FilledInOrder ==
  \A f \in Flushers :
    /\ pc[f] \notin {"second", "third", "report", "sent"} => batch[f] = EmptyReport
    /\ pc[f] = "second" => batch[f].contexts = {}
    /\ pc[f] \in {"second", "third"} => batch[f].invalid = 0

(* A request is only made, and only answered, while requests are made;     *)
(* the flush thread clears the queues only after a fatal answer.           *)
AnsweredWhileSending ==
  /\ \A f \in Flushers : /\ pc[f] = "sent" => sendRequests
                         /\ pc[f] = "fatal" => ~sendRequests
  /\ pc[Thread] \in {"clear", "clear contexts", "clear invalid"} => ~sendRequests

(* Unless the server refused, only close() ends collecting, so that it     *)
(* finds it on; and nothing is cleared before close() has flushed.         *)
BeforeFlush == {"idle", "stop", "join", "flush"}

OnlyCloseEnds ==
  sendRequests => /\ collecting = (pc[Closer] = "idle")
                  /\ pc[Closer] # "idle" => wasCollecting
                  /\ pc[Closer] \in BeforeFlush => ~cleared

LockInv == Typed /\ LockHeld /\ FilledInOrder /\ AnsweredWhileSending /\ OnlyCloseEnds

LEMMA LockInit == Init => LockInv
<1> SUFFICES ASSUME Init PROVE LockInv
  OBVIOUS
<1>1. pc[Thread] = "waiting" /\ pc[Closer] = "idle"
      /\ \A f \in Flushers : batch[f] = EmptyReport
  BY DEF Init, Flushers, Thread, Closer
<1>2. \A f \in Flushers : pc[f] \in {"waiting", "idle"}
  BY DEF Init, Flushers
<1>. QED
  BY <1>1, <1>2, TypedInit DEF Init, LockInv, LockHeld, FilledInOrder,
     AnsweredWhileSending, OnlyCloseEnds

LEMMA LockStep == LockInv /\ [Next]_vars => LockInv'
<1> SUFFICES ASSUME LockInv, [Next]_vars
             PROVE  LockHeld' /\ FilledInOrder' /\ AnsweredWhileSending' /\ OnlyCloseEnds'
  BY TypedStep DEF LockInv
<1>0. Typed /\ LockHeld /\ FilledInOrder /\ AnsweredWhileSending /\ OnlyCloseEnds
  BY DEF LockInv
<1>a. /\ Thread \in Flushers /\ Closer \in Flushers /\ Thread # Closer
      /\ None \notin Flushers /\ \A f \in Flushers : f = Thread \/ f = Closer
  BY TelemetryAssumption DEF Flushers, Thread, Closer
<1>b. pc = [g \in Flushers |-> pc[g]] /\ batch \in [Flushers -> Reports]
  BY <1>0 DEF Typed, TypeOK
<1> DEFINE Goal == LockHeld' /\ FilledInOrder' /\ AnsweredWhileSending' /\ OnlyCloseEnds'
<1> USE DEF LockHeld, FilledInOrder, AnsweredWhileSending, OnlyCloseEnds, BeforeFlush
<1>1. ASSUME UNCHANGED <<pc, flushLock, batch, sendRequests, collecting, wasCollecting,
                         cleared>>
      PROVE  Goal
  BY <1>0, <1>1
<1>2. ASSUME NEW f \in Flushers, FlushBegins(f) PROVE Goal
  <2>1. /\ pc[f] = "flush" /\ flushLock = None /\ flushLock' = f
        /\ \A g \in Flushers : pc'[g] = IF g = f THEN "second" ELSE pc[g]
        /\ \A g \in Flushers : g # f => batch'[g] = batch[g]
        /\ UNCHANGED <<sendRequests, collecting, wasCollecting, cleared>>
    BY <1>0, <1>2, BeginsFacts
  <2>2. batch[f] = EmptyReport
    BY <1>0, <2>1
  <2>3. batch'[f].contexts = {} /\ batch'[f].invalid = 0
    <3>1. batch[f] \in Reports /\ batch[f].contexts = {} /\ batch[f].invalid = 0
      BY <1>b, <2>2 DEF EmptyReport
    <3>2. batch'[f] = [batch[f] EXCEPT !.events = Range(queue), !.dropped = dropped]
      BY <1>0, <1>2, BeginsFacts
    <3>. QED
      BY <3>1, <3>2 DEF Reports
  <2>4. LockHeld' /\ FilledInOrder'
    BY <1>0, <1>a, <2>1, <2>3, ZenonT(60)
  <2>5. AnsweredWhileSending' /\ OnlyCloseEnds'
    BY <1>0, <1>a, <2>1
  <2>. QED
    BY <2>4, <2>5
<1>3. ASSUME NEW f \in Flushers, FlushContinues(f) PROVE Goal
  <2>1. /\ pc[f] = "second" /\ flushLock' = flushLock
        /\ \A g \in Flushers : pc'[g] = IF g = f THEN "third" ELSE pc[g]
        /\ batch'[f] = [batch[f] EXCEPT !.contexts = Range(registry),
                                        !.droppedCtx = droppedCtx]
        /\ \A g \in Flushers : g # f => batch'[g] = batch[g]
        /\ UNCHANGED <<sendRequests, collecting, wasCollecting, cleared>>
    BY <1>0, <1>3, ContinuesFacts
  <2>2. batch[f] \in Reports /\ batch[f].invalid = 0
    BY <1>0, <1>b, <2>1
  <2>3. batch'[f].invalid = 0
    BY <2>1, <2>2 DEF Reports
  <2>4. LockHeld' /\ FilledInOrder'
    BY <1>0, <1>a, <2>1, <2>3
  <2>5. AnsweredWhileSending' /\ OnlyCloseEnds'
    BY <1>0, <1>a, <2>1, ZenonT(60)
  <2>. QED
    BY <2>4, <2>5
<1>4. ASSUME NEW f \in Flushers, FlushCompletes(f) PROVE Goal
  <2>1. /\ pc[f] = "third"
        /\ \A g \in Flushers : g # f => batch'[g] = batch[g] /\ pc'[g] = pc[g]
        /\ \/ pc'[f] = "report" /\ flushLock' = flushLock
           \/ /\ pc'[f] = AfterFlush(f) /\ flushLock' = None
              /\ batch'[f] = EmptyReport
        /\ UNCHANGED <<sendRequests, collecting, wasCollecting, cleared>>
    BY <1>0, <1>4, CompletesFacts
  <2>2. flushLock = f
    BY <1>0, <2>1
  <2>3. LockHeld' /\ FilledInOrder'
    BY <1>0, <1>a, <2>1, <2>2 DEF AfterFlush
  <2>4. AnsweredWhileSending' /\ OnlyCloseEnds'
    BY <1>0, <1>a, <2>1 DEF AfterFlush
  <2>. QED
    BY <2>3, <2>4
<1>5. ASSUME NEW f \in Flushers, Report(f) PROVE Goal
  <2>1. /\ pc[f] = "report" /\ sendRequests
        /\ \A g \in Flushers : pc'[g] = IF g = f THEN "sent" ELSE pc[g]
        /\ UNCHANGED <<sendRequests, collecting, wasCollecting, cleared, flushLock, batch>>
    BY <1>0, <1>5, ReportFacts
  <2>3. LockHeld' /\ FilledInOrder'
    BY <1>0, <1>a, <2>1, ZenonT(60)
  <2>4. AnsweredWhileSending' /\ OnlyCloseEnds'
    BY <1>0, <1>a, <2>1
  <2>. QED
    BY <2>3, <2>4
<1>6. ASSUME NEW f \in Flushers, Settling(f) PROVE Goal
  <2>1. /\ pc[f] \in {"report", "sent"} /\ flushLock' = None
        /\ \A g \in Flushers : g # f => batch'[g] = batch[g] /\ pc'[g] = pc[g]
        /\ batch'[f] = EmptyReport
        /\ pc'[f] = AfterFlush(f) \/ (pc'[f] = "fatal" /\ ~sendRequests')
        /\ pc[f] = "report" => (sendRequests' => sendRequests)
        /\ UNCHANGED <<collecting, wasCollecting, cleared>>
    BY <1>0, <1>6, SettlingFacts
  <2>2. flushLock = f /\ (sendRequests' => sendRequests)
    BY <1>0, <2>1
  <2>3. \A g \in Flushers : g # f => pc'[g] \notin {"second", "third", "report", "sent"}
    BY <1>0, <2>1, <2>2
  <2>4. pc'[f] \in {"fatal", "flushed", "clear"} /\ (f = Thread => pc'[f] # "clear")
    BY <1>a, <2>1 DEF AfterFlush
  <2>5. LockHeld' /\ FilledInOrder'
    BY <1>0, <2>1, <2>3, <2>4
  <2>6. AnsweredWhileSending'
    <3>1. \A g \in Flushers : pc'[g] # "sent" /\ (pc'[g] = "fatal" => ~sendRequests')
      BY <1>0, <2>1, <2>2, <2>3, <2>4 DEF AfterFlush
    <3>2. pc'[Thread] \in {"clear", "clear contexts", "clear invalid"} => ~sendRequests'
      <4>1. CASE f = Thread
        BY <2>4, <4>1
      <4>2. CASE f # Thread
        BY <1>0, <1>a, <2>1, <2>2, <4>2
      <4>. QED
        BY <4>1, <4>2
    <3>. QED
      BY <3>1, <3>2
  <2>7. OnlyCloseEnds'
    BY <1>0, <1>a, <2>1, <2>2, <2>4
  <2>. QED
    BY <2>5, <2>6, <2>7
<1>7. ASSUME NEW f \in Flushers, StopCollecting(f) PROVE Goal
  <2>1. /\ pc[f] = "fatal" /\ ~sendRequests
        /\ pc'[f] \in {"clear", AfterFlush(f)}
        /\ \A g \in Flushers : g # f => pc'[g] = pc[g]
        /\ UNCHANGED <<flushLock, batch, sendRequests>>
    BY <1>0, <1>7, <1>b DEF StopCollecting, Goto
  <2>. QED
    BY <1>0, <1>a, <2>1 DEF AfterFlush
<1>8. ASSUME NEW f \in Flushers, ClearEvents(f) \/ ClearContexts(f) \/ ClearInvalid(f)
      PROVE  Goal
  <2>1. /\ pc[f] \in {"clear", "clear contexts", "clear invalid"}
        /\ pc'[f] \in {"clear contexts", "clear invalid", "done"}
             \cup (IF f = Thread THEN {"flushed"} ELSE {})
        /\ \A g \in Flushers : g # f => pc'[g] = pc[g]
        /\ UNCHANGED <<flushLock, batch, sendRequests, collecting, wasCollecting>>
        /\ f = Closer \/ cleared' = cleared \/ pc[f] = "clear"
    BY <1>8, <1>b DEF ClearEvents, ClearContexts, ClearInvalid, Goto, stateVars
  <2>2. CASE f = Thread
    BY <1>0, <1>a, <2>1, <2>2
  <2>3. CASE f = Closer
    BY <1>0, <1>a, <2>1, <2>3
  <2>. QED
    BY <1>a, <2>2, <2>3
<1>9. CASE Wait \/ Flushed
  <2>1. /\ pc[Thread] \in {"waiting", "flushed"}
        /\ pc'[Thread] \in {"done", "flush", "waiting"}
        /\ pc'[Closer] = pc[Closer]
        /\ UNCHANGED <<flushLock, batch, sendRequests, collecting, wasCollecting, cleared>>
    BY <1>9, <1>a, <1>b DEF Wait, Flushed, Goto, stateVars
  <2>. QED
    BY <1>0, <1>a, <2>1
<1>10. CASE Close
  <2>1. /\ pc[Closer] = "idle" /\ wasCollecting' = collecting /\ collecting' = FALSE
        /\ pc'[Closer] = "stop" /\ pc'[Thread] = pc[Thread]
        /\ UNCHANGED <<flushLock, batch, sendRequests, cleared>>
    BY <1>10, <1>a, <1>b DEF Close, Goto
  <2>. QED
    BY <1>0, <1>a, <2>1
<1>11. CASE CloseSetsStop \/ CloseJoined \/ CloseJoinTimesOut
  <2>1. /\ pc[Closer] \in {"stop", "join"}
        /\ pc'[Closer] \in {"join", AfterJoin}
        /\ pc'[Thread] = pc[Thread]
        /\ UNCHANGED <<flushLock, batch, sendRequests, collecting, wasCollecting, cleared>>
    BY <1>11, <1>a, <1>b DEF CloseSetsStop, CloseJoined, CloseJoinTimesOut, Goto, stateVars
  <2>2. sendRequests => pc'[Closer] \in {"join", "flush"}
    BY <1>0, <2>1 DEF AfterJoin
  <2>3. pc'[Closer] \in {"join", "flush", "clear"}
    BY <2>1 DEF AfterJoin
  <2>. QED
    BY <1>0, <1>a, <2>1, <2>2, <2>3
<1>12. CASE UNCHANGED vars
  BY <1>1, <1>12 DEF vars, stateVars
<1>13. ASSUME NEW r \in Recorders, \/ \E ctx \in Contexts \cup {None} : RecordEvaluation(r, ctx)
                                   \/ AddContext(r) \/ Push(r)
       PROVE  Goal
  BY <1>1, <1>13 DEF RecordEvaluation, AddContext, Push, stateVars
<1>14. CASE RecordInvalidContext
  BY <1>1, <1>14 DEF RecordInvalidContext, stateVars
<1>. QED
  BY <1>2, <1>3, <1>4, <1>5, <1>6, <1>7, <1>8, <1>9, <1>10, <1>11, <1>12, <1>13, <1>14,
     <1>a DEF Next, ThreadStep, CloserStep, Flushes, Settling

(* Each flusher sends what it took before the other takes anything.        *)
LEMMA OneReportAtATime ==
  ASSUME LockInv, NEW f \in Flushers, flushLock = None \/ flushLock = f
  PROVE  \A g \in Flushers : g # f => batch[g] = EmptyReport
<1>1. None \notin Flushers
  BY TelemetryAssumption
<1>2. \A g \in Flushers : g # f => pc[g] \notin {"second", "third", "report", "sent"}
  BY <1>1 DEF LockInv, LockHeld
<1>. QED
  BY <1>2 DEF LockInv, FilledInOrder

-----------------------------------------------------------------------------
(* What a step does to the evaluations and to the count of those dropped.  *)
Batched == batch[Thread].events \cup batch[Closer].events
BatchedDropped == batch[Thread].dropped + batch[Closer].dropped

(* The queue is moved to a report, when no other report is outstanding.    *)
Taken ==
  /\ Batched = {} /\ Batched' = Range(queue) /\ queue' = <<>>
  /\ BatchedDropped = 0 /\ BatchedDropped' = dropped /\ dropped' = 0
  /\ UNCHANGED <<Settled, SettledDropped, pushed, evicted, sendRequests, cleared>>

(* The only report outstanding succeeds or fails.                          *)
Sent ==
  /\ Batched' = {} /\ BatchedDropped' = 0
  /\ Settled' = Settled \cup Batched /\ SettledDropped' = SettledDropped + BatchedDropped
  /\ UNCHANGED <<queue, dropped, pushed, evicted, cleared>>

(* The queue is left alone or cleared.                                     *)
Kept ==
  /\ UNCHANGED <<Batched, BatchedDropped, Settled, SettledDropped, pushed, evicted>>
  /\ \/ UNCHANGED <<queue, dropped, cleared>>
     \/ queue' = <<>> /\ cleared'

LEMMA TakenStep ==
  ASSUME LockInv, NEW f \in Flushers, FlushBegins(f) PROVE Taken
<1>0. Typed /\ batch \in [Flushers -> Reports]
      /\ \A g \in Flushers : g = Thread \/ g = Closer
  BY DEF LockInv, Typed, TypeOK, Flushers
<1>1. /\ pc[f] = "flush" /\ flushLock = None
      /\ batch'[f] = [batch[f] EXCEPT !.events = Range(queue), !.dropped = dropped]
      /\ \A g \in Flushers : g # f => batch'[g] = batch[g]
      /\ queue' = <<>> /\ dropped' = 0
      /\ UNCHANGED <<sendRequests, pushed, evicted, Settled, SettledDropped, cleared>>
  BY <1>0, BeginsFacts
<1>2. \A g \in Flushers : batch[g] = EmptyReport
  <2>1. batch[f] = EmptyReport
    BY <1>1 DEF LockInv, FilledInOrder
  <2>. QED
    BY <1>1, <2>1, OneReportAtATime
<1>3. batch'[f].events = Range(queue) /\ batch'[f].dropped = dropped
  BY <1>0, <1>1 DEF Reports
<1>4. \A g \in Flushers : /\ batch[g].events = {} /\ batch[g].dropped = 0
                          /\ g # f => batch'[g].events = {} /\ batch'[g].dropped = 0
  BY <1>1, <1>2 DEF EmptyReport
<1>5. dropped \in Nat /\ Thread \in Flushers /\ Closer \in Flushers /\ Thread # Closer
  BY DEF LockInv, Typed, TypeOK, Flushers, Thread, Closer
<1>6. Batched = {} /\ BatchedDropped = 0
  BY <1>4, <1>5 DEF Batched, BatchedDropped
<1>7. Batched' = Range(queue) /\ BatchedDropped' = dropped
  BY <1>0, <1>3, <1>4, <1>5 DEF Batched, BatchedDropped
<1>. QED
  BY <1>1, <1>6, <1>7 DEF Taken

LEMMA SentStep ==
  ASSUME LockInv, NEW f \in Flushers, Settling(f) PROVE Sent
<1>0. Typed /\ batch \in [Flushers -> Reports]
      /\ \A g \in Flushers : g = Thread \/ g = Closer
  BY DEF LockInv, Typed, TypeOK, Flushers
<1>1. /\ pc[f] \in {"report", "sent"}
      /\ \A g \in Flushers : g # f => batch'[g] = batch[g]
      /\ batch'[f] = EmptyReport
      /\ Settled' = Settled \cup batch[f].events
      /\ SettledDropped' = SettledDropped + batch[f].dropped
      /\ UNCHANGED <<queue, dropped, pushed, evicted, cleared>>
  BY <1>0, SettlingFacts
<1>2. \A g \in Flushers : g # f => batch[g] = EmptyReport
  <2>1. flushLock = f
    BY <1>1 DEF LockInv, LockHeld
  <2>. QED
    BY <2>1, OneReportAtATime
<1>3. \A g \in Flushers : /\ batch'[g].events = {} /\ batch'[g].dropped = 0
                          /\ g # f => batch[g].events = {} /\ batch[g].dropped = 0
  BY <1>1, <1>2 DEF EmptyReport
<1>4. batch[f].dropped \in Nat
  BY <1>0 DEF Reports
<1>5. Thread \in Flushers /\ Closer \in Flushers /\ Thread # Closer
  BY DEF Flushers, Thread, Closer
<1>6. Batched' = {} /\ BatchedDropped' = 0
  BY <1>3, <1>5 DEF Batched, BatchedDropped
<1>7. Batched = batch[f].events /\ BatchedDropped = batch[f].dropped
  BY <1>0, <1>3, <1>4, <1>5 DEF Batched, BatchedDropped
<1>. QED
  BY <1>1, <1>6, <1>7 DEF Sent

(* Every step pushes an evaluation, or is one of the three.                *)
LEMMA StepKinds ==
  ASSUME LockInv, [Next]_vars
  PROVE  (\E r \in Recorders : Push(r)) \/ Taken \/ Sent \/ Kept
<1>0. Typed /\ batch \in [Flushers -> Reports] /\ Thread \in Flushers /\ Closer \in Flushers
  BY DEF LockInv, Typed, TypeOK, Flushers
<1>1. ASSUME UNCHANGED <<batch, queue, dropped, Settled, SettledDropped, pushed, evicted, cleared>>
      PROVE  Kept
  BY <1>1 DEF Kept, Batched, BatchedDropped
<1>2. ASSUME NEW f \in Flushers, FlushContinues(f) \/ FlushCompletes(f) PROVE Kept
  <2>1. /\ \A g \in Flushers : g # f => batch'[g] = batch[g]
        /\ \/ \E cs, d : batch'[f] = [batch[f] EXCEPT !.contexts = cs, !.droppedCtx = d]
           \/ batch'[f] = [batch[f] EXCEPT !.invalid = invalid]
        /\ UNCHANGED <<queue, dropped, sendRequests, pushed, evicted, Settled, SettledDropped,
                       cleared>>
    BY <1>0, <1>2, ContinuesFacts, CompletesFacts
  <2>2. \A g \in Flushers : /\ batch'[g].events = batch[g].events
                            /\ batch'[g].dropped = batch[g].dropped
    BY <1>0, <2>1, ZenonT(60) DEF Reports
  <2>. QED
    BY <1>0, <2>1, <2>2 DEF Kept, Batched, BatchedDropped
<1>3. ASSUME NEW f \in Flushers, Report(f) PROVE Kept
  BY <1>0, <1>1, <1>3, ReportFacts
<1>4. ASSUME NEW f \in Flushers, StopCollecting(f) \/ ClearContexts(f) \/ ClearInvalid(f)
      PROVE  Kept
  BY <1>1, <1>4, SettledKept DEF StopCollecting, ClearContexts, ClearInvalid, queueVars, stateVars,
     pushVars
<1>5. ASSUME NEW f \in Flushers, ClearEvents(f) PROVE Kept
  <2>1. /\ cleared' = (cleared \/ queue # <<>> \/ dropped > 0) /\ queue' = <<>> /\ dropped' = 0
        /\ UNCHANGED <<batch, pushed, evicted, Settled, SettledDropped, sendRequests>>
    BY <1>5, SettledKept DEF ClearEvents, stateVars, pushVars
  <2>2. dropped \in Nat /\ cleared \in BOOLEAN
    BY <1>0 DEF Typed, TypeOK, HistoryType
  <2>3. CASE queue = <<>> /\ dropped = 0 /\ ~cleared
    <3>1. ~(dropped > 0)
      BY <2>3
    <3>2. queue' = queue /\ dropped' = dropped /\ ~cleared'
      BY <2>1, <2>3, <3>1
    <3>3. cleared' = cleared
      BY <2>1, <2>2, <2>3, <3>1
    <3>. QED
      BY <1>1, <2>1, <3>2, <3>3
  <2>4. CASE queue # <<>> \/ dropped > 0 \/ cleared
    BY <2>1, <2>4 DEF Kept, Batched, BatchedDropped
  <2>. QED
    BY <2>2, <2>3, <2>4
<1>6. ASSUME NEW r \in Recorders, \/ \E ctx \in Contexts \cup {None} : RecordEvaluation(r, ctx)
                                  \/ AddContext(r)
      PROVE  Kept
  BY <1>1, <1>6, SettledKept DEF RecordEvaluation, AddContext, queueVars, stateVars, pushVars
<1>7. CASE RecordInvalidContext \/ Wait \/ Flushed
  BY <1>1, <1>7, SettledKept DEF RecordInvalidContext, Wait, Flushed, queueVars, stateVars, pushVars
<1>8. CASE Close \/ CloseSetsStop \/ CloseJoined \/ CloseJoinTimesOut
  BY <1>1, <1>8, SettledKept DEF Close, CloseSetsStop, CloseJoined, CloseJoinTimesOut, queueVars,
     stateVars, pushVars
<1>9. CASE UNCHANGED vars
  BY <1>1, <1>9, SettledKept DEF vars, queueVars, stateVars, pushVars
<1>. QED
  BY <1>0, <1>2, <1>3, <1>4, <1>5, <1>6, <1>7, <1>8, <1>9, TakenStep, SentStep
     DEF Next, ThreadStep, CloserStep, Flushes, Settling

-----------------------------------------------------------------------------
(* The order of the evaluations: every one reported was recorded before    *)
(* every one in a report, and those before every one in the queue.         *)

QueueInOrder == \A i, j \in DOMAIN queue : i < j => queue[i].n < queue[j].n

EvictedGone ==
  /\ evicted \subseteq 1..pushed
  /\ \A e \in Range(queue) : e.n \notin evicted

Numbered ==
  /\ \A e \in Range(queue) \cup Batched \cup Settled : e.n <= pushed
  /\ \A e \in Settled : \A x \in Batched \cup Range(queue) : e.n < x.n
  /\ \A e \in Batched : \A x \in Range(queue) : e.n < x.n

OrderInv == LockInv /\ QueueInOrder /\ EvictedGone /\ Numbered

(* The evaluations that are anywhere are numbered.                         *)
LEMMA EventsNumbered ==
  ASSUME Typed
  PROVE  /\ Range(queue) \cup Batched \cup Settled \subseteq Events
         /\ \A e \in Range(queue) \cup Batched \cup Settled : e.n \in Nat
         /\ pushed \in Nat
<1>0. /\ queue \in Seq(Events) /\ batch \in [Flushers -> Reports] /\ Settled \subseteq Events
      /\ pushed \in 0..MaxEvents
  BY DEF Typed, TypeOK, Settled, Reports
<1>1. pushed \in Nat
  BY <1>0, TelemetryAssumption
<1>2. Batched \subseteq Events
  BY <1>0 DEF Batched, Reports, Flushers
<1>3. Range(queue) \subseteq Events
  BY <1>0, RangeType
<1>4. \A e \in Events : e.n \in Nat
  BY TelemetryAssumption DEF Events
<1>. QED
  BY <1>0, <1>1, <1>2, <1>3, <1>4

(* push() on a queue in order: the newest entry goes last, the one that    *)
(* makes room for it is the oldest and was never discarded before.         *)
LEMMA PushFacts ==
  ASSUME OrderInv, NEW r \in Recorders, Push(r)
  PROVE  \E e \in Events :
           /\ e = [n |-> pushed + 1, ctx |-> rctx[r]]
           /\ e.n = pushed + 1 /\ pushed' = pushed + 1
           /\ QueueInOrder'
           /\ \/ /\ Range(queue') = Range(queue) \cup {e}
                 /\ UNCHANGED <<evicted, dropped>>
              \/ \E h \in Range(queue) \cup {e} :
                   /\ Range(queue) \cup {e} = Range(queue') \cup {h}
                   /\ \A x \in Range(queue') : h.n < x.n
                   /\ h.n \in Nat /\ h.n \notin evicted
                   /\ evicted' = evicted \cup {h.n} /\ dropped' = dropped + 1
           /\ UNCHANGED <<batch, Settled, SettledDropped, sendRequests, cleared>>
<1> DEFINE e == [n |-> pushed + 1, ctx |-> rctx[r]]
           q == Append(queue, e)
<1>0. Typed /\ QueueInOrder /\ EvictedGone /\ Numbered
  BY DEF OrderInv, LockInv
<1>1. /\ queue \in Seq(Events) /\ Len(queue) <= EventLimit /\ pushed \in 0..MaxEvents
      /\ rctx[r] \in Contexts \cup {None} /\ Len(queue) \in Nat
  <2>1. /\ queue \in Seq(Events) /\ Len(queue) <= EventLimit /\ pushed \in 0..MaxEvents
        /\ rctx[r] \in Contexts \cup {None}
    BY <1>0 DEF Typed, TypeOK
  <2>. QED
    BY <2>1
<1>2. e \in Events /\ e.n = pushed + 1
  BY <1>1, TelemetryAssumption DEF Push, Events
<1>3. /\ pushed' = pushed + 1 /\ queue' = QueuedWith(e)
      /\ evicted' = IF Len(queue) = EventLimit THEN evicted \cup {Head(q).n} ELSE evicted
      /\ dropped' = dropped + NewlyDropped
      /\ UNCHANGED <<batch, Settled, SettledDropped, sendRequests, cleared>>
  BY SettledKept DEF Push, stateVars
<1>4. /\ q \in Seq(Events) /\ Len(q) = Len(queue) + 1 /\ q[Len(q)] = e
      /\ \A i \in 1..Len(queue) : q[i] = queue[i]
      /\ Range(q) = Range(queue) \cup {e}
  BY <1>1, <1>2, AppendFacts
<1>5. q # <<>>
  BY <1>1, <1>4
<1>6. /\ Tail(q) \in Seq(Events) /\ Len(Tail(q)) = Len(queue)
      /\ Head(q) = q[1] /\ q[1] \in Events
      /\ \A i \in 1..Len(queue) : Tail(q)[i] = q[i + 1]
      /\ Range(q) = Range(Tail(q)) \cup {Head(q)}
  <2>1. /\ Tail(q) \in Seq(Events) /\ Len(Tail(q)) = Len(q) - 1
        /\ Head(q) = q[1] /\ q[1] \in Events
        /\ \A i \in 1..Len(Tail(q)) : Tail(q)[i] = q[i + 1]
        /\ Range(q) = Range(Tail(q)) \cup {Head(q)}
    <3> HIDE DEF q
    <3>. QED
      BY <1>4, <1>5, TailFacts
  <2>2. Len(q) - 1 = Len(queue)
    BY <1>1, <1>4
  <2> HIDE DEF q
  <2>. QED
    BY <2>1, <2>2
<1>7. \A x \in Range(queue) : x.n \in Nat /\ x.n <= pushed
  BY <1>0, EventsNumbered DEF Numbered
<1>8. \A i, j \in 1..Len(q) : i < j => q[i].n < q[j].n
  <2> SUFFICES ASSUME NEW i \in 1..Len(q), NEW j \in 1..Len(q), i < j
               PROVE  q[i].n < q[j].n
    OBVIOUS
  <2>1. i \in 1..Len(queue) /\ DOMAIN queue = 1..Len(queue)
    BY <1>1, <1>4
  <2>2. queue[i] \in Range(queue)
    BY <2>1 DEF Range
  <2>3. CASE j \in 1..Len(queue)
    BY <1>0, <1>4, <2>1, <2>3 DEF QueueInOrder
  <2>4. CASE j = Len(q)
    <3>1. q[i] = queue[i] /\ q[j] = e
      BY <1>4, <2>1, <2>4
    <3>2. queue[i].n \in Nat /\ queue[i].n <= pushed /\ pushed \in Nat
      BY <1>1, <1>7, <2>2, TelemetryAssumption
    <3>. QED
      BY <1>2, <3>1, <3>2
  <2>. QED
    BY <1>1, <1>4, <2>3, <2>4, SMTT(30)
<1>9. CASE Len(queue) # EventLimit
  <2>1. queue' = q /\ evicted' = evicted /\ dropped' = dropped
    <3>1. dropped \in Nat
      BY <1>0 DEF Typed, TypeOK
    <3>. QED
      BY <1>3, <1>9, <3>1 DEF QueuedWith, NewlyDropped
  <2>2. QueueInOrder'
    <3>1. DOMAIN q = 1..Len(q)
      BY <1>4
    <3>. QED
      BY <1>8, <2>1, <3>1 DEF QueueInOrder
  <2>. QED
    BY <1>2, <1>3, <1>4, <2>1, <2>2
<1>10. CASE Len(queue) = EventLimit
  <2> DEFINE h == Head(q)
  <2>1. queue' = Tail(q) /\ evicted' = evicted \cup {h.n} /\ dropped' = dropped + 1
    BY <1>3, <1>10 DEF QueuedWith, NewlyDropped
  <2>2. DOMAIN Tail(q) = 1..Len(queue)
    BY <1>6
  <2>3. QueueInOrder'
    <3> SUFFICES ASSUME NEW i \in 1..Len(queue), NEW j \in 1..Len(queue), i < j
                 PROVE  Tail(q)[i].n < Tail(q)[j].n
      BY <2>1, <2>2 DEF QueueInOrder
    <3>1. i + 1 \in 1..Len(q) /\ j + 1 \in 1..Len(q) /\ i + 1 < j + 1
      BY <1>1, <1>4
    <3>. QED
      BY <1>6, <1>8, <3>1
  <2>4. \A x \in Range(queue') : h.n < x.n
    <3> SUFFICES ASSUME NEW i \in 1..Len(queue) PROVE h.n < Tail(q)[i].n
      BY <2>1, <2>2 DEF Range
    <3>1. 1 \in 1..Len(q) /\ i + 1 \in 1..Len(q) /\ 1 < i + 1
      BY <1>1, <1>4
    <3>. QED
      BY <1>6, <1>8, <3>1
  <2>5. h \in Range(queue) \cup {e} /\ Range(queue) \cup {e} = Range(queue') \cup {h}
    BY <1>4, <1>6, <2>1
  <2>6. h.n \in Nat /\ h.n \notin evicted
    <3>1. CASE h = e
      <4>1. pushed \in Nat /\ evicted \subseteq 1..pushed
        BY <1>0, <1>1, TelemetryAssumption DEF EvictedGone
      <4>2. h.n = pushed + 1
        BY <1>2, <3>1
      <4>. QED
        BY <4>1, <4>2
    <3>2. CASE h \in Range(queue)
      BY <1>0, <1>7, <3>2 DEF EvictedGone
    <3>. QED
      BY <2>5, <3>1, <3>2
  <2>. QED
    BY <1>2, <1>3, <2>1, <2>3, <2>4, <2>5, <2>6
<1>. QED
  BY <1>9, <1>10

LEMMA OrderInit == Init => OrderInv
<1> SUFFICES ASSUME Init PROVE OrderInv
  OBVIOUS
<1>1. queue = <<>> /\ Settled = {} /\ evicted = {} /\ Batched = {}
  BY DEF Init, Batched, Settled, EmptyReport, Flushers
<1>2. Range(queue) = {}
  BY <1>1, EmptyRange
<1>3. QueueInOrder
  BY <1>1 DEF QueueInOrder
<1>. QED
  BY <1>1, <1>2, <1>3, LockInit DEF OrderInv, EvictedGone, Numbered

LEMMA OrderStep == OrderInv /\ [Next]_vars => OrderInv'
<1> SUFFICES ASSUME OrderInv, [Next]_vars
             PROVE  QueueInOrder' /\ EvictedGone' /\ Numbered'
  BY LockStep DEF OrderInv
<1>0. LockInv /\ Typed /\ QueueInOrder /\ EvictedGone /\ Numbered
  BY DEF OrderInv, LockInv
<1>1. /\ \A e \in Range(queue) \cup Batched \cup Settled : e.n \in Nat
      /\ pushed \in Nat
  BY <1>0, EventsNumbered
<1>2. ASSUME NEW r \in Recorders, Push(r)
      PROVE  QueueInOrder' /\ EvictedGone' /\ Numbered'
  <2>1. PICK e \in Events :
           /\ e.n = pushed + 1 /\ pushed' = pushed + 1
           /\ QueueInOrder'
           /\ \/ Range(queue') = Range(queue) \cup {e} /\ evicted' = evicted
              \/ \E h \in Range(queue) \cup {e} :
                   /\ Range(queue) \cup {e} = Range(queue') \cup {h}
                   /\ \A x \in Range(queue') : h.n < x.n
                   /\ h.n \in Nat
                   /\ evicted' = evicted \cup {h.n}
           /\ UNCHANGED <<batch, Settled>>
    BY <1>2, PushFacts
  <2>2. Range(queue') \subseteq Range(queue) \cup {e} /\ Batched' = Batched /\ Settled' = Settled
    BY <2>1 DEF Batched
  <2>3. Numbered'
    <3>1. \A x \in Range(queue') : /\ x.n \in Nat /\ x.n <= pushed + 1
                                   /\ x.n = pushed + 1 \/ x \in Range(queue)
      BY <1>0, <1>1, <2>1, <2>2 DEF Numbered
    <3>2. \A x \in Batched \cup Settled : x.n \in Nat /\ x.n <= pushed /\ x.n < pushed + 1
      BY <1>0, <1>1 DEF Numbered
    <3>. QED
      BY <1>0, <1>1, <2>1, <2>2, <3>1, <3>2 DEF Numbered
  <2>4. EvictedGone'
    <3>1. CASE Range(queue') = Range(queue) \cup {e} /\ evicted' = evicted
      BY <1>0, <1>1, <2>1, <3>1 DEF EvictedGone
    <3>2. CASE \E h \in Range(queue) \cup {e} :
                   /\ Range(queue) \cup {e} = Range(queue') \cup {h}
                   /\ \A x \in Range(queue') : h.n < x.n
                   /\ h.n \in Nat
                   /\ evicted' = evicted \cup {h.n}
      <4>1. PICK h \in Range(queue) \cup {e} :
                   /\ Range(queue) \cup {e} = Range(queue') \cup {h}
                   /\ \A x \in Range(queue') : h.n < x.n
                   /\ h.n \in Nat
                   /\ evicted' = evicted \cup {h.n}
        BY <3>2
      <4>2. h.n <= pushed + 1 /\ h.n # 0
        <5>1. h \in Events
          BY <1>0, EventsNumbered
        <5>2. h.n <= pushed + 1
          BY <1>0, <1>1, <2>1, <4>1 DEF Numbered
        <5>. QED
          BY <5>1, <5>2 DEF Events
      <4>3. evicted' \subseteq 1..pushed'
        <5>1. evicted \subseteq 1..pushed /\ 1..pushed \subseteq 1..(pushed + 1)
          BY <1>0, <1>1 DEF EvictedGone
        <5>2. h.n \in 1..(pushed + 1)
          BY <1>1, <4>1, <4>2
        <5>. QED
          BY <2>1, <4>1, <5>1, <5>2
      <4>4. \A x \in Range(queue') : x.n \notin evicted'
        <5> SUFFICES ASSUME NEW x \in Range(queue') PROVE x.n \notin evicted'
          OBVIOUS
        <5>1. x.n # h.n
          BY <4>1
        <5>2. x.n \notin evicted
          BY <1>0, <1>1, <2>1, <2>2 DEF EvictedGone
        <5>. QED
          BY <4>1, <5>1, <5>2
      <4>. QED
        BY <4>3, <4>4 DEF EvictedGone
    <3>. QED
      BY <2>1, <3>1, <3>2
  <2>. QED
    BY <2>1, <2>3, <2>4
<1>3. CASE Taken
  <2>1. Range(queue') = {} /\ QueueInOrder'
    BY <1>3, EmptyRange DEF Taken, QueueInOrder
  <2>. QED
    BY <1>0, <1>3, <2>1 DEF Taken, EvictedGone, Numbered
<1>4. CASE Sent
  BY <1>0, <1>4 DEF Sent, EvictedGone, Numbered, QueueInOrder
<1>5. CASE Kept
  <2>1. CASE queue' = queue
    BY <1>0, <1>5, <2>1 DEF Kept, EvictedGone, Numbered, QueueInOrder
  <2>2. CASE queue' = <<>>
    <3>1. Range(queue') = {} /\ QueueInOrder'
      BY <2>2, EmptyRange DEF QueueInOrder
    <3>. QED
      BY <1>0, <1>5, <3>1 DEF Kept, EvictedGone, Numbered
  <2>. QED
    BY <1>5, <2>1, <2>2 DEF Kept
<1>. QED
  BY <1>0, <1>2, <1>3, <1>4, <1>5, StepKinds

(* A report never overtakes an earlier one, whoever sends it and whenever  *)
(* close() flushes: only one report is outstanding, and all it carries is  *)
(* younger than what earlier reports carried.                              *)
THEOREM ReportsNeverOvertake == Spec => ReportsInOrder
<1>1. OrderInv /\ [Next]_vars =>
        [\A e \in Settled' \ Settled : \A earlier \in Settled : earlier.n < e.n]_vars
  <2> SUFFICES ASSUME OrderInv, [Next]_vars
               PROVE  \A e \in Settled' \ Settled : \A earlier \in Settled : earlier.n < e.n
    OBVIOUS
  <2>1. Numbered /\ LockInv
    BY DEF OrderInv
  <2>2. Settled' = Settled \/ Settled' = Settled \cup Batched
    <3>1. ASSUME NEW r \in Recorders, Push(r) PROVE Settled' = Settled
      BY <3>1, SettledKept DEF Push
    <3>. QED
      BY <2>1, <3>1, StepKinds DEF Taken, Sent, Kept
  <2>. QED
    BY <2>1, <2>2 DEF Numbered
<1>. QED
  BY <1>1, OrderInit, OrderStep, PTL DEF Spec, ReportsInOrder

-----------------------------------------------------------------------------
(* What is counted.                                                        *)

AccountInv == OrderInv /\ EverythingAccounted

(* The accounts in terms of what is in reports.                            *)
Accounted ==
  /\ 1..pushed = Numbers(Range(queue) \cup Batched \cup Settled) \cup evicted
  /\ Cardinality(evicted) = dropped + BatchedDropped + SettledDropped

LEMMA SameAccounts ==
  Typed => (EverythingAccounted <=> (~cleared => Accounted))
<1> SUFFICES ASSUME Typed
             PROVE  EverythingAccounted <=> (~cleared => Accounted)
  OBVIOUS
<1>1. Range(queue) \cup Batched \cup Settled
        = Range(queue) \cup batch[Thread].events \cup batch[Closer].events
            \cup told.events \cup failed.events
  BY DEF Batched, Settled
<1>2. /\ batch \in [Flushers -> Reports] /\ dropped \in Nat
      /\ told.dropped \in Nat /\ failed.dropped \in Nat
  BY DEF Typed, TypeOK, Reports
<1>3. batch[Thread].dropped \in Nat /\ batch[Closer].dropped \in Nat
  BY <1>2 DEF Flushers, Reports
<1>4. dropped + BatchedDropped + SettledDropped
        = dropped + batch[Thread].dropped + batch[Closer].dropped
            + told.dropped + failed.dropped
  BY <1>2, <1>3 DEF BatchedDropped, SettledDropped
<1>. QED
  BY <1>1, <1>4 DEF EverythingAccounted, Accounted

(* Discarding one more evaluation raises their number by one.              *)
LEMMA EvictionCounts ==
  ASSUME NEW S, NEW b \in Nat, S \subseteq 1..b, NEW x, x \notin S
  PROVE  Cardinality(S \cup {x}) = Cardinality(S) + 1 /\ Cardinality(S) \in Nat
<1>1. IsFiniteSet(1..b)
  BY FS_Interval
<1>2. IsFiniteSet(S)
  BY <1>1, FS_Subset
<1>. QED
  BY <1>2, FS_AddElement, FS_CardinalityType

LEMMA NumbersUnion ==
  ASSUME NEW A, NEW B PROVE Numbers(A \cup B) = Numbers(A) \cup Numbers(B)
BY DEF Numbers

LEMMA AccountInit == Init => AccountInv
<1> SUFFICES ASSUME Init PROVE AccountInv
  OBVIOUS
<1>1. /\ queue = <<>> /\ Settled = {} /\ evicted = {} /\ Batched = {} /\ pushed = 0
      /\ BatchedDropped = 0 /\ dropped = 0 /\ SettledDropped = 0
  BY DEF Init, Batched, BatchedDropped, Settled, SettledDropped, EmptyReport, Flushers
<1>2. Range(queue) = {} /\ 1..pushed = {} /\ Cardinality(evicted) = 0
  BY <1>1, EmptyRange, FS_EmptySet
<1>3. Accounted
  BY <1>1, <1>2 DEF Accounted, Numbers
<1>. QED
  BY <1>3, OrderInit, SameAccounts DEF AccountInv, OrderInv, LockInv

LEMMA AccountStep == AccountInv /\ [Next]_vars => AccountInv'
<1> SUFFICES ASSUME AccountInv, [Next]_vars PROVE AccountInv'
  OBVIOUS
<1>a. OrderInv' /\ Typed'
  BY OrderStep DEF AccountInv, OrderInv, LockInv
<1>b. (Typed => (EverythingAccounted <=> (~cleared => Accounted)))'
  BY SameAccounts, PTL
<1> SUFFICES ASSUME ~cleared' PROVE Accounted'
  BY <1>a, <1>b DEF AccountInv
<1>0. OrderInv /\ LockInv /\ Typed /\ EverythingAccounted
  BY DEF AccountInv, OrderInv, LockInv
<1>1. ~cleared => Accounted
  BY <1>0, SameAccounts
<1>2. /\ dropped \in Nat /\ SettledDropped \in Nat /\ BatchedDropped \in Nat /\ pushed \in Nat
  <2>1. /\ dropped \in Nat /\ SettledDropped \in Nat /\ batch \in [Flushers -> Reports]
        /\ pushed \in 0..MaxEvents
    BY <1>0, SettledTyped DEF Typed, TypeOK
  <2>2. batch[Thread].dropped \in Nat /\ batch[Closer].dropped \in Nat
    BY <2>1 DEF Flushers, Reports
  <2>. QED
    BY <2>1, <2>2, TelemetryAssumption DEF BatchedDropped
<1>3. ASSUME NEW r \in Recorders, Push(r) PROVE Accounted'
  <2>1. PICK e \in Events :
           /\ e.n = pushed + 1 /\ pushed' = pushed + 1
           /\ \/ /\ Range(queue') = Range(queue) \cup {e}
                 /\ UNCHANGED <<evicted, dropped>>
              \/ \E h \in Range(queue) \cup {e} :
                   /\ Range(queue) \cup {e} = Range(queue') \cup {h}
                   /\ h.n \in Nat /\ h.n \notin evicted
                   /\ evicted' = evicted \cup {h.n} /\ dropped' = dropped + 1
           /\ UNCHANGED <<batch, Settled, SettledDropped, sendRequests, cleared>>
    BY <1>0, <1>3, PushFacts
  <2>2. Accounted /\ Batched' = Batched /\ BatchedDropped' = BatchedDropped
    BY <1>1, <2>1 DEF Batched, BatchedDropped
  <2>3. 1..(pushed + 1) = (1..pushed) \cup {pushed + 1}
    BY <1>2
  <2>4. Numbers({e}) = {pushed + 1}
    BY <2>1 DEF Numbers
  <2> DEFINE rest == Batched \cup Settled
  <2>5. /\ Numbers(Range(queue) \cup Batched \cup Settled) = Numbers(Range(queue)) \cup Numbers(rest)
        /\ Numbers(Range(queue') \cup Batched \cup Settled) = Numbers(Range(queue')) \cup Numbers(rest)
    BY NumbersUnion DEF Numbers
  <2>6. 1..pushed' = Numbers(Range(queue) \cup {e}) \cup Numbers(rest) \cup evicted
    <3>1. Numbers(Range(queue) \cup {e}) = Numbers(Range(queue)) \cup {pushed + 1}
      BY <2>4, NumbersUnion
    <3>2. 1..pushed = Numbers(Range(queue)) \cup Numbers(rest) \cup evicted
      BY <2>2, <2>5 DEF Accounted
    <3> HIDE DEF rest
    <3>. QED
      BY <2>1, <2>3, <3>1, <3>2
  <2>7. CASE Range(queue') = Range(queue) \cup {e} /\ UNCHANGED <<evicted, dropped>>
    BY <2>1, <2>2, <2>5, <2>6, <2>7 DEF Accounted
  <2>8. CASE \E h \in Range(queue) \cup {e} :
                   /\ Range(queue) \cup {e} = Range(queue') \cup {h}
                   /\ h.n \in Nat /\ h.n \notin evicted
                   /\ evicted' = evicted \cup {h.n} /\ dropped' = dropped + 1
    <3>1. PICK h \in Range(queue) \cup {e} :
                   /\ Range(queue) \cup {e} = Range(queue') \cup {h}
                   /\ h.n \in Nat /\ h.n \notin evicted
                   /\ evicted' = evicted \cup {h.n} /\ dropped' = dropped + 1
      BY <2>8
    <3>2. Numbers(Range(queue) \cup {e}) = Numbers(Range(queue')) \cup {h.n}
      BY <3>1, NumbersUnion DEF Numbers
    <3>3. Cardinality(evicted') = Cardinality(evicted) + 1 /\ Cardinality(evicted) \in Nat
      <4>1. evicted \subseteq 1..pushed
        BY <1>0 DEF OrderInv, EvictedGone
      <4>. QED
        BY <1>2, <3>1, <4>1, EvictionCounts
    <3>4. Cardinality(evicted') = dropped' + BatchedDropped' + SettledDropped'
      <4>1. Cardinality(evicted) = dropped + BatchedDropped + SettledDropped
        BY <2>2 DEF Accounted
      <4>2. dropped' = dropped + 1 /\ BatchedDropped' = BatchedDropped
            /\ SettledDropped' = SettledDropped
        BY <2>1, <2>2, <3>1
      <4>. QED
        BY <1>2, <3>3, <4>1, <4>2
    <3>5. 1..pushed' = Numbers(Range(queue') \cup Batched' \cup Settled') \cup evicted'
      <4>1. Numbers(Range(queue') \cup Batched' \cup Settled')
              = Numbers(Range(queue')) \cup Numbers(rest)
        BY <2>1, <2>2, <2>5
      <4> HIDE DEF rest
      <4>. QED
        BY <2>6, <3>1, <3>2, <4>1
    <3>. QED
      BY <3>4, <3>5 DEF Accounted
  <2>. QED
    BY <2>1, <2>7, <2>8
<1>4. CASE Taken
  <2>1. Range(queue') = {}
    BY <1>4, EmptyRange DEF Taken
  <2>2. Range(queue') \cup Batched' \cup Settled' = Range(queue) \cup Batched \cup Settled
    BY <1>4, <2>1 DEF Taken
  <2>3. Accounted
    BY <1>1, <1>4 DEF Taken
  <2>4. dropped' + BatchedDropped' + SettledDropped' = dropped + BatchedDropped + SettledDropped
    BY <1>2, <1>4 DEF Taken
  <2>. QED
    BY <1>4, <2>2, <2>3, <2>4 DEF Taken, Accounted
<1>5. CASE Sent
  <2>1. Accounted
    BY <1>1, <1>5 DEF Sent
  <2>2. Range(queue') \cup Batched' \cup Settled' = Range(queue) \cup Batched \cup Settled
    BY <1>5, <2>1 DEF Sent
  <2>3. dropped' + BatchedDropped' + SettledDropped' = dropped + BatchedDropped + SettledDropped
    BY <1>2, <1>5, <2>1 DEF Sent
  <2>. QED
    BY <1>5, <2>1, <2>2, <2>3 DEF Sent, Accounted
<1>6. CASE Kept
  <2>1. UNCHANGED <<queue, dropped, cleared, Batched, BatchedDropped, Settled, SettledDropped,
                    pushed, evicted>>
    BY <1>6 DEF Kept
  <2>3. Accounted
    BY <1>1, <2>1
  <2>. QED
    BY <2>1, <2>3 DEF Accounted
<1>. QED
  BY <1>0, <1>3, <1>4, <1>5, <1>6, StepKinds

(* For as many threads, evaluations and whatever limit: until the queues   *)
(* are cleared, every evaluation is queued, in the report under way, in    *)
(* one that was accepted, in one that failed, or discarded by a full       *)
(* queue, and the discarded ones are counted exactly once.                 *)
THEOREM NothingUnaccounted == Spec => []EverythingAccounted
<1>1. AccountInv => EverythingAccounted
  BY DEF AccountInv
<1>. QED
  BY <1>1, AccountInit, AccountStep, PTL DEF Spec

-----------------------------------------------------------------------------
(* Contexts.                                                               *)

(* The contexts registered, in a report, settled or lost.                  *)
Secured == SettledCtx \cup lostCtx
KnownCtx == Range(registry) \cup batch[Thread].contexts \cup batch[Closer].contexts
              \cup Secured

(* record_evaluation has registered the context of what it pushes.         *)
PushedKnown ==
  \A r \in Recorders : rpc[r] = "push" /\ rctx[r] # None => rctx[r] \in KnownCtx

(* So has it of everything queued or in a report.                          *)
QueuedKnown ==
  \A e \in Range(queue) \cup Batched : e.ctx # None => e.ctx \in KnownCtx

(* Once a report has its contexts, those of its evaluations are among      *)
(* them, unless an earlier one had them or they are lost.                  *)
BatchKnown ==
  \A f \in Flushers : pc[f] \in {"third", "report", "sent"} =>
    \A e \in batch[f].events : e.ctx # None => e.ctx \in batch[f].contexts \cup Secured

(* Those of what earlier reports carried are secured.                      *)
SettledKnown == \A e \in Settled : e.ctx # None => e.ctx \in Secured

ContextInv == OrderInv /\ PushedKnown /\ QueuedKnown /\ BatchKnown /\ SettledKnown

(* A context that is known stays known, and one secured stays secured.     *)
LEMMA KnownGrows ==
  ASSUME LockInv, [Next]_vars
  PROVE  /\ sendRequests' => sendRequests
         /\ Secured \subseteq Secured'
         /\ KnownCtx \subseteq KnownCtx'
<1>0. /\ Typed /\ batch \in [Flushers -> Reports] /\ Thread \in Flushers /\ Closer \in Flushers
      /\ registry \in Seq(Contexts) /\ Len(registry) <= ContextLimit
      /\ \A f \in Flushers : f = Thread \/ f = Closer
  BY DEF LockInv, Typed, TypeOK, Flushers
<1> DEFINE Goal == /\ sendRequests' => sendRequests
                   /\ Secured \subseteq Secured'
                   /\ KnownCtx \subseteq KnownCtx'
<1>1. ASSUME UNCHANGED <<registry, batch, SettledCtx, lostCtx>>, sendRequests' => sendRequests
      PROVE  Goal
  BY <1>1 DEF KnownCtx, Secured
<1>2. ASSUME NEW r \in Recorders, AddContext(r) PROVE Goal
  <2>1. rctx[r] \in Contexts
    BY <1>0, <1>2 DEF AddContext, Typed, HistoryType
  <2>2. Range(registry) \subseteq Range(registry') \cup lostCtx' /\ lostCtx \subseteq lostCtx'
    <3>1. CASE Len(Added(rctx[r])) > ContextLimit
      <4>1. /\ registry' = Tail(Added(rctx[r]))
            /\ lostCtx' = lostCtx \cup {Head(Added(rctx[r]))}
        BY <1>2, <3>1 DEF AddContext
      <4>. QED
        BY <1>0, <2>1, <3>1, <4>1, AddedFacts
    <3>2. CASE ~(Len(Added(rctx[r])) > ContextLimit)
      <4>1. registry' = Added(rctx[r]) /\ lostCtx' = lostCtx
        BY <1>2, <3>2 DEF AddContext
      <4>. QED
        BY <1>0, <2>1, <4>1, AddedFacts
    <3>. QED
      BY <3>1, <3>2
  <2>3. UNCHANGED <<batch, SettledCtx, sendRequests>>
    BY <1>2, SettledKept DEF AddContext, stateVars
  <2>. QED
    BY <2>2, <2>3 DEF KnownCtx, Secured
<1>3. ASSUME NEW f \in Flushers, FlushBegins(f) PROVE Goal
  <2>1. /\ batch'[f] = [batch[f] EXCEPT !.events = Range(queue), !.dropped = dropped]
        /\ \A g \in Flushers : g # f => batch'[g] = batch[g]
        /\ UNCHANGED <<registry, SettledCtx, lostCtx, sendRequests>>
    BY <1>0, <1>3, BeginsFacts
  <2>2. \A g \in Flushers : batch'[g].contexts = batch[g].contexts
    BY <1>0, <2>1, ZenonT(60) DEF Reports
  <2>3. UNCHANGED <<registry, SettledCtx, lostCtx, sendRequests>>
    BY <2>1
  <2>. QED
    BY <1>0, <2>2, <2>3 DEF KnownCtx, Secured
<1>4. ASSUME NEW f \in Flushers, FlushContinues(f) PROVE Goal
  <2>1. /\ pc[f] = "second"
        /\ \A g \in Flushers : g # f => batch'[g] = batch[g]
        /\ UNCHANGED <<SettledCtx, lostCtx, sendRequests>>
    BY <1>0, <1>4, ContinuesFacts
  <2>2. batch'[f].contexts = Range(registry)
    <3>1. batch'[f] = [batch[f] EXCEPT !.contexts = Range(registry),
                                       !.droppedCtx = droppedCtx]
      BY <1>0, <1>4, ContinuesFacts
    <3>. QED
      BY <1>0, <3>1 DEF Reports
  <2>3. batch[f].contexts = {}
    BY <2>1 DEF LockInv, FilledInOrder
  <2>. QED
    BY <1>0, <2>1, <2>2, <2>3 DEF KnownCtx, Secured
<1>5. ASSUME NEW f \in Flushers, FlushCompletes(f) PROVE Goal
  <2>1. /\ batch'[f] = [batch[f] EXCEPT !.invalid = invalid]
        /\ \A g \in Flushers : g # f => batch'[g] = batch[g]
        /\ UNCHANGED <<registry, SettledCtx, lostCtx, sendRequests>>
    BY <1>0, <1>5, CompletesFacts
  <2>2. \A g \in Flushers : batch'[g].contexts = batch[g].contexts
    BY <1>0, <2>1, ZenonT(60) DEF Reports
  <2>. QED
    BY <1>0, <2>1, <2>2 DEF KnownCtx, Secured
<1>6. ASSUME NEW f \in Flushers, Report(f) PROVE Goal
  BY <1>0, <1>1, <1>6, ReportFacts
<1>7. ASSUME NEW f \in Flushers, Settling(f) PROVE Goal
  <2>1. /\ \A g \in Flushers : g # f => batch'[g] = batch[g]
        /\ SettledCtx' = SettledCtx \cup batch[f].contexts
        /\ UNCHANGED <<registry, lostCtx>>
        /\ pc[f] \in {"report", "sent"} /\ (pc[f] = "report" => (sendRequests' => sendRequests))
    BY <1>0, <1>7, SettlingFacts
  <2>2. sendRequests' => sendRequests
    BY <2>1 DEF LockInv, AnsweredWhileSending
  <2>. QED
    BY <1>0, <2>1, <2>2 DEF KnownCtx, Secured
<1>8. ASSUME NEW f \in Flushers, StopCollecting(f) \/ ClearEvents(f) \/ ClearInvalid(f)
      PROVE  Goal
  BY <1>1, <1>8, SettledKept DEF StopCollecting, ClearEvents, ClearInvalid, registryVars, stateVars,
     pushVars
<1>9. ASSUME NEW f \in Flushers, ClearContexts(f) PROVE Goal
  <2>1. lostCtx' = lostCtx \cup Range(registry) /\ UNCHANGED <<batch, SettledCtx, sendRequests>>
    BY <1>9, SettledKept DEF ClearContexts, stateVars
  <2>. QED
    BY <2>1 DEF KnownCtx, Secured
<1>10. ASSUME NEW r \in Recorders, \/ \E ctx \in Contexts \cup {None} : RecordEvaluation(r, ctx)
                                   \/ Push(r)
       PROVE  Goal
  BY <1>1, <1>10, SettledKept DEF RecordEvaluation, Push, registryVars, stateVars, pushVars
<1>11. CASE RecordInvalidContext \/ Wait \/ Flushed
  BY <1>1, <1>11, SettledKept DEF RecordInvalidContext, Wait, Flushed, registryVars, stateVars, pushVars
<1>12. CASE Close \/ CloseSetsStop \/ CloseJoined \/ CloseJoinTimesOut
  BY <1>1, <1>12, SettledKept DEF Close, CloseSetsStop, CloseJoined, CloseJoinTimesOut, registryVars,
     stateVars, pushVars
<1>13. CASE UNCHANGED vars
  BY <1>1, <1>13, SettledKept DEF vars, registryVars, stateVars, pushVars
<1>. QED
  BY <1>0, <1>2, <1>3, <1>4, <1>5, <1>6, <1>7, <1>8, <1>9, <1>10, <1>11, <1>12, <1>13
     DEF Next, ThreadStep, CloserStep, Flushes, Settling

(* Only the steps of a flush touch a report, and nothing else brings a     *)
(* flusher to where one is filled.                                         *)
LEMMA ReportsKept ==
  ASSUME Typed, [Next]_vars,
         \A f \in Flushers : ~(\/ FlushBegins(f) \/ FlushContinues(f)
                               \/ FlushCompletes(f) \/ Settling(f))
  PROVE  /\ UNCHANGED <<batch, Settled, SettledCtx, SettledInvalid>>
         /\ \A f \in Flushers :
              pc'[f] \in {"third", "report", "sent"} => pc[f] \in {"third", "report", "sent"}
<1>0. pc = [g \in Flushers |-> pc[g]] /\ Thread \in Flushers /\ Closer \in Flushers
  BY DEF Typed, TypeOK, Flushers
<1> DEFINE Goal == /\ UNCHANGED <<batch, Settled, SettledCtx, SettledInvalid>>
                   /\ \A f \in Flushers :
                        pc'[f] \in {"third", "report", "sent"} => pc[f] \in {"third", "report", "sent"}
<1>1. ASSUME NEW f \in Flushers, \/ Report(f) \/ StopCollecting(f)
                                 \/ ClearEvents(f) \/ ClearContexts(f) \/ ClearInvalid(f)
      PROVE  Goal
  BY <1>0, <1>1, SettledKept DEF Report, StopCollecting, ClearEvents, ClearContexts, ClearInvalid,
     AfterFlush, Goto
<1>2. CASE Wait \/ Flushed \/ Close \/ CloseSetsStop \/ CloseJoined \/ CloseJoinTimesOut
  BY <1>0, <1>2, SettledKept DEF Wait, Flushed, Close, CloseSetsStop, CloseJoined, CloseJoinTimesOut,
     AfterJoin, Goto
<1>3. ASSUME NEW r \in Recorders, \/ \E ctx \in Contexts \cup {None} : RecordEvaluation(r, ctx)
                                  \/ AddContext(r) \/ Push(r)
      PROVE  Goal
  BY <1>3, SettledKept DEF RecordEvaluation, AddContext, Push
<1>4. CASE RecordInvalidContext \/ UNCHANGED vars
  BY <1>4, SettledKept DEF RecordInvalidContext, vars
<1>. QED
  BY <1>0, <1>1, <1>2, <1>3, <1>4 DEF Next, ThreadStep, CloserStep, Flushes, Settling

LEMMA PushedKnownStep ==
  ASSUME ContextInv, [Next]_vars
  PROVE  PushedKnown'
<1>0. LockInv /\ Typed
  BY DEF ContextInv, OrderInv, LockInv
<1>1. KnownCtx \subseteq KnownCtx' /\ PushedKnown
  BY <1>0, KnownGrows DEF ContextInv
<1>2. CASE UNCHANGED <<rpc, rctx>>
  BY <1>1, <1>2 DEF PushedKnown
<1>3. ASSUME NEW r \in Recorders, NEW ctx \in Contexts \cup {None}, RecordEvaluation(r, ctx)
      PROVE  PushedKnown'
  <2>1. rpc \in [Recorders -> {"idle", "add", "push"}] /\ rctx \in [Recorders -> Contexts \cup {None}]
    BY <1>0 DEF Typed, TypeOK
  <2>2. /\ \A x \in Recorders : x # r => rpc'[x] = rpc[x] /\ rctx'[x] = rctx[x]
        /\ rctx'[r] = ctx /\ (rpc'[r] = "push" => ctx = None)
    <3>1. /\ rctx' = [rctx EXCEPT ![r] = ctx]
          /\ rpc' = [rpc EXCEPT ![r] = IF ctx = None THEN "push" ELSE "add"]
      BY <1>3 DEF RecordEvaluation
    <3>. QED
      BY <2>1, <3>1
  <2>. QED
    BY <1>1, <2>2 DEF PushedKnown
<1>4. ASSUME NEW r \in Recorders, AddContext(r) PROVE PushedKnown'
  <2>1. rctx[r] \in Contexts /\ registry \in Seq(Contexts) /\ Len(registry) <= ContextLimit
    BY <1>0, <1>4 DEF AddContext, Typed, TypeOK, HistoryType
  <2>2. rctx[r] \in Range(registry') \cup lostCtx'
    <3>1. CASE Len(Added(rctx[r])) > ContextLimit
      <4>1. /\ registry' = Tail(Added(rctx[r]))
            /\ lostCtx' = lostCtx \cup {Head(Added(rctx[r]))}
        BY <1>4, <3>1 DEF AddContext
      <4>. QED
        BY <2>1, <3>1, <4>1, AddedFacts
    <3>2. CASE ~(Len(Added(rctx[r])) > ContextLimit)
      <4>1. registry' = Added(rctx[r])
        BY <1>4, <3>2 DEF AddContext
      <4>. QED
        BY <2>1, <4>1, AddedFacts
    <3>. QED
      BY <3>1, <3>2
  <2>3. rctx[r] \in KnownCtx'
    BY <2>2 DEF KnownCtx, Secured
  <2>4. rctx' = rctx /\ \A x \in Recorders : x # r => rpc'[x] = rpc[x]
    <3>1. rpc \in [Recorders -> {"idle", "add", "push"}]
      BY <1>0 DEF Typed, TypeOK
    <3>. QED
      BY <1>4, <3>1 DEF AddContext
  <2>. QED
    BY <1>1, <2>3, <2>4 DEF PushedKnown
<1>5. ASSUME NEW r \in Recorders, Push(r) PROVE PushedKnown'
  <2>1. rpc \in [Recorders -> {"idle", "add", "push"}] /\ rctx \in [Recorders -> Contexts \cup {None}]
    BY <1>0 DEF Typed, TypeOK
  <2>2. /\ \A x \in Recorders : x # r => rpc'[x] = rpc[x] /\ rctx'[x] = rctx[x]
        /\ rpc'[r] = "idle"
    BY <1>5, <2>1 DEF Push
  <2>. QED
    BY <1>1, <2>2 DEF PushedKnown
<1>6. ASSUME NEW f \in Flushers, Flushes(f) PROVE UNCHANGED <<rpc, rctx>>
  BY <1>6 DEF Flushes, FlushBegins, FlushContinues, FlushCompletes, Report, ReportRaises,
     ReportWithheld, Answered, StopCollecting, ClearEvents, ClearContexts, ClearInvalid, recorderVars
<1>7. CASE RecordInvalidContext \/ Wait \/ Flushed \/ Close \/ CloseSetsStop \/ CloseJoined
           \/ CloseJoinTimesOut \/ UNCHANGED vars
  BY <1>2, <1>7 DEF RecordInvalidContext, Wait, Flushed, Close, CloseSetsStop, CloseJoined,
     CloseJoinTimesOut, recorderVars, vars
<1>. QED
  BY <1>2, <1>3, <1>4, <1>5, <1>6, <1>7 DEF Next, ThreadStep, CloserStep, Flushers

LEMMA QueuedKnownStep ==
  ASSUME ContextInv, [Next]_vars
  PROVE  QueuedKnown'
<1>0. OrderInv /\ LockInv
  BY DEF ContextInv, OrderInv
<1>1. KnownCtx \subseteq KnownCtx' /\ PushedKnown /\ QueuedKnown
  BY <1>0, KnownGrows DEF ContextInv
<1>2. ASSUME NEW r \in Recorders, Push(r) PROVE QueuedKnown'
  <2>1. PICK e \in Events :
           /\ e = [n |-> pushed + 1, ctx |-> rctx[r]]
           /\ Range(queue') \subseteq Range(queue) \cup {e}
           /\ batch' = batch
    BY <1>0, <1>2, PushFacts
  <2>2. e.ctx = rctx[r] /\ rpc[r] = "push"
    BY <1>2, <2>1 DEF Push
  <2>. QED
    BY <1>1, <2>1, <2>2 DEF QueuedKnown, PushedKnown, Batched
<1>3. ASSUME Range(queue') \cup Batched' \subseteq Range(queue) \cup Batched
      PROVE  QueuedKnown'
  BY <1>1, <1>3 DEF QueuedKnown
<1>4. CASE Taken \/ Sent \/ Kept
  BY <1>3, <1>4, EmptyRange DEF Taken, Sent, Kept
<1>. QED
  BY <1>0, <1>2, <1>4, StepKinds

LEMMA BatchKnownStep ==
  ASSUME ContextInv, [Next]_vars
  PROVE  BatchKnown'
<1>0. LockInv /\ Typed /\ batch \in [Flushers -> Reports]
  BY DEF ContextInv, OrderInv, LockInv, Typed, TypeOK
<1>1. Secured \subseteq Secured' /\ QueuedKnown /\ BatchKnown
  BY <1>0, KnownGrows DEF ContextInv
<1>2. ASSUME NEW f \in Flushers, FlushBegins(f) PROVE BatchKnown'
  <2>1. /\ \A g \in Flushers : pc'[g] = IF g = f THEN "second" ELSE pc[g]
        /\ \A g \in Flushers : g # f => batch'[g] = batch[g]
    BY <1>0, <1>2, BeginsFacts
  <2>. QED
    BY <1>1, <2>1 DEF BatchKnown
<1>3. ASSUME NEW f \in Flushers, FlushContinues(f) PROVE BatchKnown'
  <2>1. /\ pc[f] = "second"
        /\ \A g \in Flushers : pc'[g] = IF g = f THEN "third" ELSE pc[g]
        /\ \A g \in Flushers : g # f => batch'[g] = batch[g]
        /\ UNCHANGED <<SettledCtx, lostCtx>>
    BY <1>0, <1>3, ContinuesFacts
  <2>2. batch'[f].contexts = Range(registry) /\ batch'[f].events = batch[f].events
    <3>1. batch'[f] = [batch[f] EXCEPT !.contexts = Range(registry),
                                       !.droppedCtx = droppedCtx]
      BY <1>0, <1>3, ContinuesFacts
    <3>. QED
      BY <1>0, <3>1 DEF Reports
  <2>3. \A g \in Flushers : batch[g].contexts = {}
    <3>1. flushLock = f /\ batch[f].contexts = {}
      BY <1>0, <2>1 DEF LockInv, LockHeld, FilledInOrder
    <3>2. \A g \in Flushers : g # f => batch[g] = EmptyReport
      BY <1>0, <3>1, OneReportAtATime
    <3>. QED
      BY <3>1, <3>2 DEF EmptyReport
  <2>4. KnownCtx = Range(registry) \cup Secured
    BY <2>3 DEF KnownCtx, Flushers
  <2>5. batch[f].events \subseteq Batched
    BY DEF Batched, Flushers
  <2>. QED
    BY <1>1, <2>1, <2>2, <2>4, <2>5 DEF BatchKnown, QueuedKnown
<1>4. ASSUME NEW f \in Flushers, FlushCompletes(f) PROVE BatchKnown'
  <2>1. /\ pc[f] = "third"
        /\ \A g \in Flushers : g # f => batch'[g] = batch[g] /\ pc'[g] = pc[g]
        /\ batch'[f] = [batch[f] EXCEPT !.invalid = invalid]
    BY <1>0, <1>4, CompletesFacts
  <2>2. \A g \in Flushers : /\ batch'[g].events = batch[g].events
                            /\ batch'[g].contexts = batch[g].contexts
    BY <1>0, <2>1 DEF Reports
  <2>. QED
    BY <1>1, <2>1, <2>2 DEF BatchKnown
<1>5. ASSUME NEW f \in Flushers, Settling(f) PROVE BatchKnown'
  <2>1. /\ \A g \in Flushers : g # f => batch'[g] = batch[g] /\ pc'[g] = pc[g]
        /\ batch'[f] = EmptyReport
    BY <1>0, <1>5, SettlingFacts
  <2>2. batch'[f].events = {}
    BY <2>1 DEF EmptyReport
  <2>. QED
    BY <1>1, <2>1, <2>2 DEF BatchKnown
<1>6. CASE \A f \in Flushers : ~(\/ FlushBegins(f) \/ FlushContinues(f)
                                 \/ FlushCompletes(f) \/ Settling(f))
  <2>1. /\ batch' = batch
        /\ \A f \in Flushers :
             pc'[f] \in {"third", "report", "sent"} => pc[f] \in {"third", "report", "sent"}
    BY <1>0, <1>6, ReportsKept
  <2>. QED
    BY <1>1, <2>1 DEF BatchKnown
<1>. QED
  BY <1>2, <1>3, <1>4, <1>5, <1>6

LEMMA SettledKnownStep ==
  ASSUME ContextInv, [Next]_vars
  PROVE  SettledKnown'
<1>0. LockInv /\ Typed /\ SettledKnown
  BY DEF ContextInv, OrderInv, LockInv
<1>1. Secured \subseteq Secured'
  BY <1>0, KnownGrows
<1>2. CASE Settled' = Settled
  BY <1>0, <1>1, <1>2 DEF SettledKnown
<1>3. ASSUME NEW f \in Flushers, Settling(f) PROVE SettledKnown'
  <2>1. /\ pc[f] \in {"report", "sent"}
        /\ Settled' = Settled \cup batch[f].events
        /\ SettledCtx' = SettledCtx \cup batch[f].contexts
        /\ lostCtx' = lostCtx
    BY <1>0, <1>3, SettlingFacts
  <2>2. \A e \in batch[f].events : e.ctx # None => e.ctx \in batch[f].contexts \cup Secured
    BY <2>1 DEF ContextInv, BatchKnown
  <2>. QED
    BY <1>0, <2>1, <2>2 DEF SettledKnown, Secured
<1>4. ASSUME NEW f \in Flushers, FlushBegins(f) \/ FlushContinues(f) \/ FlushCompletes(f)
      PROVE  Settled' = Settled
  BY <1>0, <1>4, BeginsFacts, ContinuesFacts, CompletesFacts
<1>5. CASE \A f \in Flushers : ~(\/ FlushBegins(f) \/ FlushContinues(f)
                                 \/ FlushCompletes(f) \/ Settling(f))
  BY <1>0, <1>2, <1>5, ReportsKept
<1>. QED
  BY <1>2, <1>3, <1>4, <1>5

LEMMA ContextInit == Init => ContextInv
<1> SUFFICES ASSUME Init PROVE ContextInv
  OBVIOUS
<1>1. /\ queue = <<>> /\ Settled = {} /\ Batched = {}
      /\ \A r \in Recorders : rpc[r] = "idle"
      /\ \A f \in Flushers : pc[f] \in {"waiting", "idle"}
  BY DEF Init, Batched, Settled, EmptyReport, Flushers
<1>. QED
  BY <1>1, EmptyRange, OrderInit DEF ContextInv, PushedKnown, QueuedKnown, BatchKnown,
     SettledKnown

LEMMA ContextStep == ContextInv /\ [Next]_vars => ContextInv'
<1> SUFFICES ASSUME ContextInv, [Next]_vars PROVE ContextInv'
  OBVIOUS
<1>1. OrderInv'
  BY OrderStep DEF ContextInv
<1>. QED
  BY <1>1, PushedKnownStep, QueuedKnownStep, BatchKnownStep, SettledKnownStep DEF ContextInv

(* An evaluation is never reported ahead of its context, for as many       *)
(* recording threads and whatever limits: unless a report that failed had  *)
(* it, a full registry dropped it or close() cleared it.                   *)
THEOREM ContextsGoFirst == Spec => []ContextsReported
<1>1. ContextInv => ContextsReported
  BY DEF ContextInv, ContextsReported, SettledKnown, Secured, Settled, SettledCtx
<1>. QED
  BY <1>1, ContextInit, ContextStep, PTL DEF Spec

-----------------------------------------------------------------------------
(* close().                                                                *)

(* Once close() has taken the queue, what was recorded before it is in its *)
(* report, in an earlier one or discarded.                                 *)
TakenByClose ==
  sendRequests /\ pc[Closer] \notin BeforeFlush =>
    1..before \subseteq Numbers(batch[Closer].events \cup Settled) \cup evicted

(* Every invalid context recorded is counted in one place.                 *)
InvalidCounted ==
  sendRequests =>
    rejected = invalid + batch[Thread].invalid + batch[Closer].invalid + SettledInvalid

(* Once close() has taken the invalid contexts, none is left elsewhere.    *)
InvalidTaken ==
  sendRequests /\ pc[Closer] \notin BeforeFlush \cup {"second", "third"} =>
    invalid = 0 /\ batch[Thread].invalid = 0

CloseInv ==
  /\ AccountInv
  /\ before <= pushed
  /\ TakenByClose
  /\ InvalidCounted
  /\ InvalidTaken

(* close() gets past its flush only by flushing, unless the server refused *)
(* telemetry; while it is past it, nothing more is recorded as invalid.    *)
LEMMA ClosersWay ==
  ASSUME LockInv, [Next]_vars, sendRequests'
  PROVE  /\ sendRequests
         /\ \/ FlushBegins(Closer)
            \/ pc'[Closer] \notin BeforeFlush =>
                 pc[Closer] \notin BeforeFlush /\ before' = before
         /\ \/ FlushCompletes(Closer)
            \/ pc'[Closer] \notin BeforeFlush \cup {"second", "third"} =>
                 pc[Closer] \notin BeforeFlush \cup {"second", "third"}
         /\ before' \in {before, pushed}
<1>0. /\ Typed /\ pc = [g \in Flushers |-> pc[g]]
      /\ Thread \in Flushers /\ Closer \in Flushers /\ Thread # Closer
      /\ \A f \in Flushers : f = Thread \/ f = Closer
  BY DEF LockInv, Typed, TypeOK, Flushers, Thread, Closer
<1>1. sendRequests
  BY KnownGrows
<1>2. wasCollecting \/ pc[Closer] = "idle"
  BY <1>1 DEF LockInv, OnlyCloseEnds
<1> DEFINE FlushOnce == pc'[Closer] \notin BeforeFlush =>
                          pc[Closer] \notin BeforeFlush /\ before' = before
           TakenOnce == pc'[Closer] \notin BeforeFlush \cup {"second", "third"} =>
                          pc[Closer] \notin BeforeFlush \cup {"second", "third"}
           Goal == FlushOnce /\ TakenOnce /\ before' \in {before, pushed}
<1>3. ASSUME pc'[Closer] = pc[Closer], before' = before PROVE Goal
  BY <1>3
<1>4. ASSUME FlushBegins(Closer) PROVE TakenOnce /\ before' \in {before, pushed}
  <2>1. pc'[Closer] = "second" /\ before' = before
    BY <1>0, <1>4, BeginsFacts
  <2>. QED
    BY <1>4, <2>1
<1>5. ASSUME FlushContinues(Closer) PROVE Goal
  <2>1. pc[Closer] = "second" /\ pc'[Closer] = "third" /\ before' = before
    BY <1>0, <1>5, ContinuesFacts
  <2>. QED
    BY <2>1 DEF BeforeFlush
<1>6. ASSUME FlushCompletes(Closer) PROVE FlushOnce /\ before' \in {before, pushed}
  <2>1. pc[Closer] = "third" /\ before' = before
    BY <1>0, <1>6, CompletesFacts
  <2>. QED
    BY <1>6, <2>1 DEF BeforeFlush
<1>7. ASSUME \/ Report(Closer) \/ Settling(Closer) \/ StopCollecting(Closer)
           \/ ClearEvents(Closer) \/ ClearContexts(Closer) \/ ClearInvalid(Closer)
      PROVE  Goal
  <2>1. /\ pc[Closer] \in {"report", "sent", "fatal", "clear", "clear contexts",
                           "clear invalid"}
        /\ before' = before
    BY <1>7 DEF Report, Settling, ReportRaises, ReportWithheld, Answered, StopCollecting, ClearEvents, ClearContexts, ClearInvalid
  <2>. QED
    BY <2>1 DEF BeforeFlush
<1>8. ASSUME Flushes(Thread) \/ Wait \/ Flushed PROVE Goal
  <2>1. pc'[Closer] = pc[Closer]
    BY <1>0, <1>8 DEF Flushes, FlushBegins, FlushContinues, FlushCompletes, Report,
       ReportRaises, ReportWithheld, Answered, StopCollecting, ClearEvents, ClearContexts,
       ClearInvalid, Wait, Flushed, Goto
  <2>2. before' = before
    BY <1>8 DEF Flushes, FlushBegins, FlushContinues, FlushCompletes, Report,
       ReportRaises, ReportWithheld, Answered, StopCollecting, ClearEvents, ClearContexts,
       ClearInvalid, Wait, Flushed
  <2>. QED
    BY <1>3, <2>1, <2>2
<1>9. ASSUME Close PROVE Goal
  <2>1. pc'[Closer] = "stop" /\ before' = pushed
    BY <1>0, <1>9 DEF Close, Goto
  <2>. QED
    BY <2>1 DEF BeforeFlush
<1>10. ASSUME CloseSetsStop \/ CloseJoined \/ CloseJoinTimesOut PROVE Goal
  <2>1. pc'[Closer] \in {"join", "flush"} /\ before' = before
    BY <1>0, <1>2, <1>10 DEF CloseSetsStop, CloseJoined, CloseJoinTimesOut, AfterJoin, Goto
  <2>. QED
    BY <2>1 DEF BeforeFlush
<1>11. ASSUME RecordInvalidContext \/ UNCHANGED vars PROVE Goal
  BY <1>3, <1>11 DEF RecordInvalidContext, vars
<1>12. ASSUME NEW r \in Recorders, \/ \E ctx \in Contexts \cup {None} : RecordEvaluation(r, ctx)
                                   \/ AddContext(r) \/ Push(r)
       PROVE  Goal
  BY <1>3, <1>12 DEF RecordEvaluation, AddContext, Push
<1> HIDE DEF FlushOnce, TakenOnce
<1>13. /\ FlushBegins(Closer) \/ FlushOnce
       /\ FlushCompletes(Closer) \/ TakenOnce
       /\ before' \in {before, pushed}
  BY <1>4, <1>5, <1>6, <1>7, <1>8, <1>9, <1>10, <1>11, <1>12
     DEF Next, ThreadStep, CloserStep, Flushes, Settling
<1>. QED
  BY <1>1, <1>13 DEF FlushOnce, TakenOnce

LEMMA TakenByCloseStep ==
  ASSUME CloseInv, [Next]_vars, sendRequests', pc'[Closer] \notin BeforeFlush
  PROVE  1..before' \subseteq Numbers(batch'[Closer].events \cup Settled') \cup evicted'
<1>0. /\ OrderInv /\ LockInv /\ Typed /\ EverythingAccounted /\ before <= pushed
      /\ TakenByClose /\ batch \in [Flushers -> Reports]
      /\ Thread \in Flushers /\ Closer \in Flushers /\ Thread # Closer
  BY DEF CloseInv, AccountInv, OrderInv, LockInv, Typed, TypeOK, Flushers, Thread, Closer
<1>1. sendRequests
  BY <1>0, ClosersWay
<1>2. CASE FlushBegins(Closer)
  <2>1. pc[Closer] = "flush" /\ before' = before /\ Settled' = Settled /\ evicted' = evicted
    BY <1>0, <1>2, BeginsFacts
  <2>2. batch'[Closer].events = Range(queue)
    <3>1. batch'[Closer] = [batch[Closer] EXCEPT !.events = Range(queue), !.dropped = dropped]
      BY <1>0, <1>2, BeginsFacts
    <3>. QED
      BY <1>0, <3>1 DEF Reports
  <2>3. ~cleared
    BY <1>0, <1>1, <2>1 DEF LockInv, OnlyCloseEnds, BeforeFlush
  <2>4. Batched = {}
    BY <1>0, <1>2, TakenStep DEF Taken
  <2>5. 1..pushed = Numbers(Range(queue) \cup Batched \cup Settled) \cup evicted
    BY <1>0, <1>1, <2>3, SameAccounts DEF Accounted
  <2>6. 1..pushed = Numbers(Range(queue) \cup Settled) \cup evicted
    BY <2>4, <2>5
  <2>7. 1..before \subseteq 1..pushed
    <3>1. before \in Nat /\ pushed \in Nat
      <4>1. before \in 0..MaxEvents /\ pushed \in 0..MaxEvents
        BY <1>0 DEF Typed, TypeOK, HistoryType
      <4>. QED
        BY <4>1, TelemetryAssumption
    <3>. QED
      BY <1>0, <3>1
  <2>. QED
    BY <2>1, <2>2, <2>6, <2>7
<1>3. CASE ~FlushBegins(Closer)
  <2>1. pc[Closer] \notin BeforeFlush /\ before' = before
    BY <1>0, <1>3, ClosersWay
  <2>2. 1..before \subseteq Numbers(batch[Closer].events \cup Settled) \cup evicted
    BY <1>0, <1>1, <2>1 DEF TakenByClose
  <2>3. evicted \subseteq evicted'
    <3>1. ASSUME NEW r \in Recorders, Push(r) PROVE evicted \subseteq evicted'
      BY <3>1 DEF Push
    <3>. QED
      BY <1>0, <3>1, StepKinds DEF Taken, Sent, Kept
  <2>4. batch[Closer].events \cup Settled \subseteq batch'[Closer].events \cup Settled'
    <3>1. CASE FlushBegins(Thread)
      BY <1>0, <3>1, BeginsFacts
    <3>2. CASE FlushContinues(Thread) \/ FlushCompletes(Thread) \/ Settling(Thread)
      BY <1>0, <3>2, ContinuesFacts, CompletesFacts, SettlingFacts
    <3>3. CASE FlushContinues(Closer)
      <4>1. /\ batch'[Closer] = [batch[Closer] EXCEPT !.contexts = Range(registry),
                                                      !.droppedCtx = droppedCtx]
            /\ Settled' = Settled
        BY <1>0, <3>3, ContinuesFacts
      <4>2. batch'[Closer].events = batch[Closer].events
        BY <1>0, <4>1 DEF Reports
      <4>3. Settled' = Settled
        BY <4>1
      <4>. QED
        BY <4>2, <4>3
    <3>4. CASE FlushCompletes(Closer)
      <4>1. batch'[Closer] = [batch[Closer] EXCEPT !.invalid = invalid] /\ Settled' = Settled
        BY <1>0, <3>4, CompletesFacts
      <4>2. batch'[Closer].events = batch[Closer].events
        BY <1>0, <4>1 DEF Reports
      <4>. QED
        BY <4>1, <4>2
    <3>5. CASE Settling(Closer)
      BY <1>0, <3>5, SettlingFacts
    <3>6. CASE \A f \in Flushers : ~(\/ FlushBegins(f) \/ FlushContinues(f)
                                     \/ FlushCompletes(f) \/ Settling(f))
      BY <1>0, <3>6, ReportsKept
    <3>. QED
      BY <1>3, <3>1, <3>2, <3>3, <3>4, <3>5, <3>6 DEF Flushers
  <2>5. Numbers(batch[Closer].events \cup Settled) \subseteq Numbers(batch'[Closer].events \cup Settled')
    BY <2>4 DEF Numbers
  <2>. QED
    BY <2>1, <2>2, <2>3, <2>5
<1>. QED
  BY <1>2, <1>3

(* Where the counts of invalid contexts go.                                *)
LEMMA InvalidStep ==
  ASSUME CloseInv, [Next]_vars, sendRequests'
  PROVE  /\ rejected' = invalid' + batch'[Thread].invalid + batch'[Closer].invalid
                          + SettledInvalid'
         /\ pc'[Closer] \notin BeforeFlush \cup {"second", "third"} =>
              invalid' = 0 /\ batch'[Thread].invalid = 0
<1>0. /\ LockInv /\ Typed /\ batch \in [Flushers -> Reports]
      /\ invalid \in Nat /\ rejected \in Nat /\ SettledInvalid \in Nat
      /\ Thread \in Flushers /\ Closer \in Flushers /\ Thread # Closer
      /\ \A f \in Flushers : f = Thread \/ f = Closer
  BY SettledTyped DEF CloseInv, AccountInv, OrderInv, LockInv, Typed, TypeOK, HistoryType,
     Flushers, Thread, Closer
<1>1. sendRequests
  BY <1>0, ClosersWay
<1> DEFINE past == pc[Closer] \notin BeforeFlush \cup {"second", "third"}
           bt == batch[Thread].invalid
           bc == batch[Closer].invalid
<1>2. rejected = invalid + bt + bc + SettledInvalid
  BY <1>1 DEF CloseInv, InvalidCounted
<1>3. past => invalid = 0 /\ bt = 0
  BY <1>1 DEF CloseInv, InvalidTaken
<1>4. bt \in Nat /\ bc \in Nat
  BY <1>0 DEF Reports
<1>5. pc'[Closer] \notin BeforeFlush \cup {"second", "third"} => past \/ FlushCompletes(Closer)
  BY <1>0, ClosersWay
<1> DEFINE Goal ==
       /\ rejected' = invalid' + batch'[Thread].invalid + batch'[Closer].invalid + SettledInvalid'
       /\ pc'[Closer] \notin BeforeFlush \cup {"second", "third"} =>
            invalid' = 0 /\ batch'[Thread].invalid = 0
<1>6. ASSUME \A f \in Flushers : batch'[f].invalid = batch[f].invalid,
             UNCHANGED <<invalid, rejected, SettledInvalid>>, ~FlushCompletes(Closer)
      PROVE  Goal
  BY <1>0, <1>2, <1>3, <1>5, <1>6
<1>7. ASSUME NEW f \in Flushers, FlushBegins(f), ~FlushCompletes(Closer) PROVE Goal
  <2>1. /\ batch'[f] = [batch[f] EXCEPT !.events = Range(queue), !.dropped = dropped]
        /\ \A g \in Flushers : g # f => batch'[g] = batch[g]
        /\ UNCHANGED <<invalid, rejected, SettledInvalid>>
    BY <1>0, <1>7, BeginsFacts
  <2>2. \A g \in Flushers : batch'[g].invalid = batch[g].invalid
    BY <1>0, <2>1, ZenonT(60) DEF Reports
  <2>3. UNCHANGED <<invalid, rejected, SettledInvalid>>
    BY <2>1
  <2>. QED
    BY <1>6, <1>7, <2>2, <2>3
<1>8. ASSUME NEW f \in Flushers, FlushContinues(f), ~FlushCompletes(Closer) PROVE Goal
  <2>1. /\ batch'[f] = [batch[f] EXCEPT !.contexts = Range(registry),
                                        !.droppedCtx = droppedCtx]
        /\ \A g \in Flushers : g # f => batch'[g] = batch[g]
        /\ UNCHANGED <<invalid, rejected, SettledInvalid>>
    BY <1>0, <1>8, ContinuesFacts
  <2>2. \A g \in Flushers : batch'[g].invalid = batch[g].invalid
    BY <1>0, <2>1, ZenonT(60) DEF Reports
  <2>3. UNCHANGED <<invalid, rejected, SettledInvalid>>
    BY <2>1
  <2>. QED
    BY <1>6, <1>8, <2>2, <2>3
<1>9. ASSUME NEW f \in Flushers, FlushCompletes(f) PROVE Goal
  <2>1. /\ pc[f] = "third"
        /\ batch'[f] = [batch[f] EXCEPT !.invalid = invalid]
        /\ \A g \in Flushers : g # f => batch'[g] = batch[g] /\ pc'[g] = pc[g]
        /\ invalid' = 0
        /\ UNCHANGED <<rejected, SettledInvalid>>
    BY <1>0, <1>9, CompletesFacts
  <2>2. batch'[f].invalid = invalid
    BY <1>0, <2>1 DEF Reports
  <2>3. batch[f].invalid = 0 /\ flushLock = f
    BY <1>0, <2>1 DEF LockInv, FilledInOrder, LockHeld
  <2>4. \A g \in Flushers : g # f => batch'[g].invalid = 0
    <3>1. \A g \in Flushers : g # f => batch[g] = EmptyReport
      BY <1>0, <2>3, OneReportAtATime
    <3>. QED
      BY <2>1, <3>1 DEF EmptyReport
  <2>5. CASE f = Thread
    <3>1. past => invalid = 0
      BY <1>3
    <3>2. pc'[Closer] = pc[Closer]
      BY <1>0, <2>1, <2>5
    <3>3. rejected' = rejected /\ SettledInvalid' = SettledInvalid /\ bt = 0
          /\ batch'[Closer].invalid = bc /\ batch'[Thread].invalid = invalid
      BY <1>0, <2>1, <2>2, <2>3, <2>5
    <3>4. invalid' = 0
      BY <2>1
    <3>. QED
      BY <1>0, <1>2, <1>4, <3>1, <3>2, <3>3, <3>4
  <2>6. CASE f = Closer
    <3>1. rejected' = rejected /\ SettledInvalid' = SettledInvalid /\ bc = 0
          /\ batch'[Thread].invalid = bt /\ batch'[Closer].invalid = invalid
          /\ batch'[Thread].invalid = 0 /\ invalid' = 0
      BY <1>0, <2>1, <2>2, <2>3, <2>4, <2>6
    <3>. QED
      BY <1>0, <1>2, <1>4, <3>1
  <2>. QED
    BY <1>0, <2>5, <2>6
<1>10. ASSUME NEW f \in Flushers, Settling(f), ~FlushCompletes(Closer) PROVE Goal
  <2>1. /\ \A g \in Flushers : g # f => batch'[g] = batch[g]
        /\ batch'[f] = EmptyReport
        /\ SettledInvalid' = SettledInvalid + batch[f].invalid
        /\ UNCHANGED <<invalid, rejected>>
    BY <1>0, <1>10, SettlingFacts
  <2>2. batch'[f].invalid = 0
    BY <2>1 DEF EmptyReport
  <2>. QED
    BY <1>0, <1>2, <1>3, <1>4, <1>5, <1>10, <2>1, <2>2
<1>11. ASSUME RecordInvalidContext, ~FlushCompletes(Closer) PROVE Goal
  <2>1. /\ collecting /\ invalid' = invalid + 1 /\ rejected' = rejected + 1
        /\ UNCHANGED <<batch, SettledInvalid, pc>>
    BY <1>11, SettledKept DEF RecordInvalidContext
  <2>2. pc[Closer] = "idle"
    BY <1>0, <1>1, <2>1 DEF LockInv, OnlyCloseEnds
  <2>. QED
    BY <1>0, <1>2, <1>4, <2>1, <2>2 DEF BeforeFlush
<1>12. ASSUME NEW f \in Flushers, ClearInvalid(f), ~FlushCompletes(Closer) PROVE Goal
  <2>1. /\ pc[f] = "clear invalid" /\ invalid' = 0
        /\ UNCHANGED <<batch, rejected, SettledInvalid>>
    BY <1>12, SettledKept DEF ClearInvalid, pushVars
  <2>2. f = Closer
    BY <1>0, <1>1, <2>1 DEF LockInv, AnsweredWhileSending
  <2>3. past
    BY <2>1, <2>2 DEF BeforeFlush
  <2>. QED
    BY <1>2, <1>3, <2>1, <2>3
<1>13. ASSUME \/ \E r \in Recorders : \/ \E ctx \in Contexts \cup {None} : RecordEvaluation(r, ctx)
                                      \/ AddContext(r) \/ Push(r)
              \/ \E f \in Flushers : \/ Report(f) \/ StopCollecting(f)
                                     \/ ClearEvents(f) \/ ClearContexts(f)
              \/ Wait \/ Flushed \/ Close \/ CloseSetsStop \/ CloseJoined
              \/ CloseJoinTimesOut \/ UNCHANGED vars,
              ~FlushCompletes(Closer)
       PROVE  Goal
  <2>1. UNCHANGED <<batch, invalid, rejected, SettledInvalid>>
    BY <1>13, SettledKept DEF RecordEvaluation, AddContext, Push, Report, StopCollecting, ClearEvents,
       ClearContexts, Wait, Flushed, Close, CloseSetsStop, CloseJoined, CloseJoinTimesOut,
       vars, pushVars
  <2>. QED
    BY <1>6, <1>13, <2>1
<1> HIDE DEF Goal
<1>14. ASSUME FlushCompletes(Closer) PROVE Goal
  BY <1>0, <1>9, <1>14
<1>15. ASSUME ~FlushCompletes(Closer) PROVE Goal
  BY <1>0, <1>7, <1>8, <1>9, <1>10, <1>11, <1>12, <1>13, <1>15
     DEF Next, ThreadStep, CloserStep, Flushes, Settling
<1>. QED
  BY <1>14, <1>15 DEF Goal

LEMMA CloseInit == Init => CloseInv
<1> SUFFICES ASSUME Init PROVE CloseInv
  OBVIOUS
<1>1. /\ pc[Closer] = "idle" /\ before = 0 /\ pushed = 0
      /\ batch[Thread].invalid = 0 /\ batch[Closer].invalid = 0
      /\ rejected = 0 /\ invalid = 0 /\ SettledInvalid = 0
  BY DEF Init, SettledInvalid, EmptyReport, Flushers, Thread, Closer
<1>. QED
  BY <1>1, AccountInit DEF CloseInv, TakenByClose, InvalidCounted, InvalidTaken, BeforeFlush

LEMMA CloseStep == CloseInv /\ [Next]_vars => CloseInv'
<1> SUFFICES ASSUME CloseInv, [Next]_vars PROVE CloseInv'
  OBVIOUS
<1>1. AccountInv'
  BY AccountStep DEF CloseInv
<1>2. before' <= pushed'
  <2>1. LockInv /\ before <= pushed /\ before \in Nat /\ pushed \in Nat
    <3>1. /\ LockInv /\ before <= pushed
          /\ before \in 0..MaxEvents /\ pushed \in 0..MaxEvents
      BY DEF CloseInv, AccountInv, OrderInv, LockInv, Typed, TypeOK, HistoryType
    <3>. QED
      BY <3>1, TelemetryAssumption
  <2>2. pushed' \in {pushed, pushed + 1}
    <3>1. ASSUME NEW r \in Recorders, Push(r) PROVE pushed' = pushed + 1
      BY <3>1 DEF Push
    <3>. QED
      BY <2>1, <3>1, StepKinds DEF Taken, Sent, Kept
  <2>3. before' = before \/ before' = pushed
    <3>1. CASE Close
      BY <3>1 DEF Close
    <3>2. CASE ~Close
      BY <3>2 DEF Next, ThreadStep, CloserStep, Flushes, RecordEvaluation, AddContext, Push,
         RecordInvalidContext, FlushBegins, FlushContinues, FlushCompletes, Report,
         ReportRaises, ReportWithheld, Answered, StopCollecting, ClearEvents, ClearContexts, ClearInvalid, Wait, Flushed,
         CloseSetsStop, CloseJoined, CloseJoinTimesOut, vars
    <3>. QED
      BY <3>1, <3>2
  <2>. QED
    BY <2>1, <2>2, <2>3
<1>3. TakenByClose'
  BY TakenByCloseStep DEF TakenByClose
<1>4. InvalidCounted' /\ InvalidTaken'
  BY InvalidStep DEF InvalidCounted, InvalidTaken
<1>. QED
  BY <1>1, <1>2, <1>3, <1>4 DEF CloseInv

(* When close() has returned, everything recorded before it was called was *)
(* in a report that was accepted or failed, or was discarded by a full     *)
(* queue, and so was every count of invalid contexts, unless the server    *)
(* refused telemetry for good: however the flush thread was caught by      *)
(* close(), and though its join gives up.                                  *)
THEOREM ClosedMeansReported == Spec => []CloseReportsAll
<1>1. CloseInv => CloseReportsAll
  <2> SUFFICES ASSUME CloseInv, pc[Closer] = "done", sendRequests
               PROVE  /\ 1..before \subseteq Numbers(Settled) \cup evicted
                      /\ SettledInvalid = rejected
    BY DEF CloseReportsAll, SettledInvalid
  <2>1. /\ LockInv /\ TakenByClose /\ InvalidCounted /\ InvalidTaken
        /\ SettledInvalid \in Nat /\ rejected \in Nat
    BY SettledTyped DEF CloseInv, AccountInv, OrderInv, LockInv, Typed, HistoryType
  <2>2. batch[Closer].events = {} /\ batch[Closer].invalid = 0
    <3>1. batch[Closer] = EmptyReport
      BY <2>1 DEF LockInv, FilledInOrder, Flushers
    <3>. QED
      BY <3>1 DEF EmptyReport
  <2>3. 1..before \subseteq Numbers(batch[Closer].events \cup Settled) \cup evicted
    BY <2>1 DEF TakenByClose, BeforeFlush
  <2>4. invalid = 0 /\ batch[Thread].invalid = 0
    BY <2>1 DEF InvalidTaken, BeforeFlush
  <2>5. SettledInvalid = rejected
    BY <2>1, <2>2, <2>4 DEF InvalidCounted
  <2>6. batch[Closer].events \cup Settled = Settled
    BY <2>2
  <2>. QED
    BY <2>3, <2>5, <2>6
<1>. QED
  BY <1>1, CloseInit, CloseStep, PTL DEF Spec
=============================================================================
