-------------------------- MODULE EventSourceProofs --------------------------
(***************************************************************************)
(* Proofs about EventSource, for any number of closing threads, messages   *)
(* and, as long as each waits for an earlier close(), calls of connect().  *)
(***************************************************************************)
EXTENDS EventSource, TLAPS

(* The places of a worker whose stream is open, up to the end of the read. *)
Streaming == {"opened", "answered", "publish", "check", "opening?", "open!",
              "connected", "reading", "chunk", "handling"}

(* A worker that has not been started has no place to be.                  *)
NotStarted == \A w \in Workers : w > gen => pc[w] = "unborn"

(* Messages of a chunk are left over only where they are handled, or where *)
(* the worker ends; a stream carries what was published.                   *)
ChunksWithin ==
  /\ \A w \in Workers :
       /\ pc[w] \notin {"chunk", "handling", "unwound", "done"} => todo[w] = 0
       /\ pos[w] + todo[w] <= published
  /\ lastId <= published

StreamInv == TypeOK /\ NotStarted /\ ChunksWithin

-----------------------------------------------------------------------------
(* What the steps do to the places of the workers.                         *)
Labels == {"unborn", "opening", "opened", "openfailed", "answered", "publish", "check",
           "opening?", "open!", "reading", "chunk", "broken", "return", "fail", "failed",
           "connecting?", "connecting!", "delay", "waiting", "close", "stop, return",
           "disconnect", "stop", "unwound", "done", "connected", "handling", "failing",
           "openfailing", "ask", "told", "told, return"}

(* What a step of w that leaves the messages alone does: it goes from one  *)
(* place to another, never to where a stream is opened or a chunk handled, *)
(* except on from one such place to the next.                              *)
Walks(w) ==
  /\ pc[w] \in Labels \ {"unborn", "done"}
  /\ pc' = [pc EXCEPT ![w] = pc'[w]]
  /\ pc'[w] \in Labels \ {"unborn", "chunk", "handling", "opened"}
  /\ pc'[w] \in Streaming => pc[w] \in Streaming
  /\ pc[w] \in {"chunk", "handling"} => todo[w] = 0 \/ pc'[w] \in {"unwound", "done"}
  /\ pc[w] = "unwound" => pc'[w] = "done"
  /\ UNCHANGED <<gen, lastId, pos, todo, published, last>>

(* The attributes close() and the workers share keep their types.          *)
SharedType ==
  /\ readyState \in {"closed", "connecting", "open"}
  /\ stopped \subseteq 0..MaxConnects
  /\ thread \in Workers \cup {None}
  /\ response \in Workers \cup {None}
  /\ cancelled \in [Workers -> BOOLEAN]
  /\ waitsOn \in [Workers -> 0..MaxConnects]
  /\ cpc \in [Closers -> {"idle", "stop", "cancel", "join", "done"}]
  /\ held \in [Closers -> [stop: 0..MaxConnects, thread: Workers \cup {None},
                           response: Workers \cup {None}]]

MessageType ==
  /\ gen \in 0..MaxConnects
  /\ lastId \in 0..MaxMsgs
  /\ pc \in [Workers -> Labels]
  /\ pos \in [Workers -> 0..MaxMsgs]
  /\ todo \in [Workers -> 0..MaxMsgs]
  /\ published \in 0..MaxMsgs
  /\ last \in 0..MaxMsgs

LEMMA TypeParts == TypeOK <=> SharedType /\ MessageType
<1>1. {"unborn", "opening", "opened", "openfailed", "answered", "publish", "check",
       "opening?", "open!", "reading", "chunk", "broken", "return", "fail", "failed",
       "connecting?", "connecting!", "delay", "waiting", "close", "stop, return",
       "disconnect", "stop", "unwound", "done"} \cup Handlers = Labels
  BY DEF Labels, Handlers
<1>. QED
  BY <1>1 DEF TypeOK, SharedType, MessageType

(* Every step of a worker other than opening a stream, receiving a chunk   *)
(* and handling a message is such a walk.                                  *)
LEMMA MovesWalk ==
  ASSUME MessageType, ChunksWithin, NEW w \in Workers, NEW from, NEW to, Moves(w, from, to),
         from \in Labels \ {"unborn", "done", "handling", "chunk", "unwound"},
         to \in Labels \ {"unborn", "chunk", "handling", "opened"},
         to \in Streaming => from \in Streaming
  PROVE  Walks(w) /\ UNCHANGED <<clientVars, workerVars, closeVars, serverVars>>
<1>1. pc \in [Workers -> Labels] /\ pc[w] = from /\ pc' = [pc EXCEPT ![w] = to]
      /\ UNCHANGED <<clientVars, workerVars, closeVars, serverVars>>
  BY DEF Moves, At, Goto, MessageType
<1>2. pc'[w] = to /\ pc' = [pc EXCEPT ![w] = pc'[w]]
  BY <1>1
<1>. QED
  BY <1>1, <1>2 DEF Walks, clientVars, workerVars, serverVars

(* So are the steps that also write an attribute.                          *)
LEMMA WriteWalks ==
  ASSUME MessageType, NEW w \in Workers, NEW from, NEW to, At(w, from), Goto(w, to),
         from \in Labels \ {"unborn", "done", "handling", "chunk"},
         to \in Labels \ {"unborn", "chunk", "handling", "opened"},
         to \in Streaming => from \in Streaming,
         from = "unwound" => to = "done",
         UNCHANGED <<gen, lastId, pos, todo, published, last>>
  PROVE  Walks(w)
<1>1. pc \in [Workers -> Labels] /\ pc[w] = from /\ pc' = [pc EXCEPT ![w] = to]
  BY DEF At, Goto, MessageType
<1>2. pc'[w] = to /\ pc' = [pc EXCEPT ![w] = pc'[w]]
  BY <1>1
<1>. QED
  BY <1>1, <1>2 DEF Walks

(* The steps that only move.                                               *)
OnlyMoves(w) ==
  \/ OpenFails(w) \/ OpenFailed(w) \/ OpenReported(w) \/ Opened(w)
  \/ (\E kind \in {"no content", "error", "stream"} : Answered(w, kind))
  \/ CheckGap(w) \/ SetOpen(w) \/ BeginsReading(w) \/ ChunkHandled(w)
  \/ ReadEnds(w) \/ ReadBreaks(w) \/ ReadCancelled(w) \/ Broken(w) \/ BreakReported(w)
  \/ Failed(w) \/ (\E again \in BOOLEAN : Ask(w, again))
  \/ SetConnecting(w) \/ WaitEnds(w) \/ DisconnectTold(w)

LEMMA OnlyMovesWalk ==
  ASSUME MessageType, ChunksWithin, NEW w \in Workers, OnlyMoves(w)
  PROVE  Walks(w) /\ UNCHANGED <<clientVars, workerVars, closeVars, serverVars>>
<1> DEFINE From == Labels \ {"unborn", "done", "handling", "chunk", "unwound"}
           To == Labels \ {"unborn", "chunk", "handling", "opened"}
           Goal == Walks(w) /\ UNCHANGED <<clientVars, workerVars, closeVars, serverVars>>
<1>0. ASSUME NEW from \in From, NEW to \in To, Moves(w, from, to),
             to \in Streaming => from \in Streaming
      PROVE  Goal
  BY <1>0, MovesWalk
<1> USE DEF Labels, Streaming
<1>1. ASSUME OpenFails(w) PROVE Goal
  BY <1>0, <1>1 DEF OpenFails
<1>2. ASSUME OpenFailed(w) PROVE Goal
  BY <1>0, <1>2 DEF OpenFailed
<1>3. ASSUME OpenReported(w) PROVE Goal
  BY <1>0, <1>3 DEF OpenReported
<1>4. ASSUME Opened(w) PROVE Goal
  BY <1>0, <1>4 DEF Opened
<1>5. ASSUME CheckGap(w) PROVE Goal
  BY <1>0, <1>5 DEF CheckGap
<1>6. ASSUME SetOpen(w) PROVE Goal
  BY <1>0, <1>6 DEF SetOpen
<1>7. ASSUME BeginsReading(w) PROVE Goal
  BY <1>0, <1>7 DEF BeginsReading
<1>8. ASSUME ReadEnds(w) PROVE Goal
  BY <1>0, <1>8 DEF ReadEnds
<1>9. ASSUME ReadBreaks(w) PROVE Goal
  BY <1>0, <1>9 DEF ReadBreaks
<1>10. ASSUME ReadCancelled(w) PROVE Goal
  BY <1>0, <1>10 DEF ReadCancelled
<1>11. ASSUME Broken(w) PROVE Goal
  BY <1>0, <1>11 DEF Broken
<1>12. ASSUME BreakReported(w) PROVE Goal
  BY <1>0, <1>12 DEF BreakReported
<1>13. ASSUME Failed(w) PROVE Goal
  BY <1>0, <1>13 DEF Failed
<1>14. ASSUME SetConnecting(w) PROVE Goal
  BY <1>0, <1>14 DEF SetConnecting
<1>15. ASSUME WaitEnds(w) PROVE Goal
  BY <1>0, <1>15 DEF WaitEnds
<1>16. ASSUME DisconnectTold(w) PROVE Goal
  BY <1>0, <1>16 DEF DisconnectTold
<1>17. ASSUME NEW kind \in {"no content", "error", "stream"}, Answered(w, kind) PROVE Goal
  BY <1>0, <1>17 DEF Answered
<1>18. ASSUME NEW again \in BOOLEAN, Ask(w, again) PROVE Goal
  BY <1>0, <1>18 DEF Ask
<1>19. ASSUME ChunkHandled(w) PROVE Goal
  <2>1. /\ pc \in [Workers -> Labels] /\ pc[w] = "handling" /\ todo[w] = 0
        /\ pc' = [pc EXCEPT ![w] = "reading"]
        /\ UNCHANGED <<clientVars, workerVars, closeVars, serverVars>>
    BY <1>19 DEF ChunkHandled, Moves, At, Goto, MessageType
  <2>2. pc'[w] = "reading" /\ pc' = [pc EXCEPT ![w] = pc'[w]]
    BY <2>1
  <2>. QED
    BY <2>1, <2>2 DEF Walks, clientVars, workerVars, serverVars
<1> HIDE DEF Goal
<1>. QED
  <2>1. Goal
    BY <1>1, <1>2, <1>3, <1>4, <1>5, <1>6, <1>7, <1>8, <1>9, <1>10, <1>11, <1>12, <1>13, <1>14, <1>15, <1>16, <1>17, <1>18, <1>19 DEF OnlyMoves
  <2>. QED
    BY <2>1 DEF Goal

(* The steps that write an attribute on the way.                           *)
WritesToo(w) ==
  \/ Publish(w) \/ WriteOpen(w) \/ WriteConnecting(w) \/ BeginsWaiting(w)
  \/ DisconnectNoContent(w) \/ Disconnect(w) \/ DisconnectStops(w) \/ Unwound(w)
  \/ ReleaseAndReturn(w) \/ ReleaseAndFail(w) \/ HandlerUnwinds(w)

LEMMA WritesTooWalk ==
  ASSUME TypeOK, NEW w \in Workers, WritesToo(w)
  PROVE  Walks(w) /\ SharedType'
<1>0. SharedType /\ MessageType
  BY TypeParts
<1> DEFINE Goal == Walks(w) /\ SharedType'
<1>1. ASSUME NEW from, NEW state, NEW to, WriteState(w, from, state, to),
             from \in Labels \ {"unborn", "done", "handling", "chunk"},
             to \in Labels \ {"unborn", "chunk", "handling", "opened"},
             to \in Streaming => from \in Streaming,
             from = "unwound" => to = "done",
             state \in {"closed", "connecting", "open"}
      PROVE  Goal
  <2>1. Walks(w)
    BY <1>0, <1>1, WriteWalks DEF WriteState, workerVars, serverVars
  <2>. QED
    BY <1>0, <1>1, <2>1 DEF WriteState, workerVars, closeVars, SharedType
<1>2. ASSUME WriteOpen(w) \/ WriteConnecting(w) \/ DisconnectNoContent(w) \/ Disconnect(w)
             \/ Unwound(w)
      PROVE  Goal
  BY <1>1, <1>2 DEF WriteOpen, WriteConnecting, DisconnectNoContent, Disconnect, Unwound,
     Labels, Streaming
<1>3. ASSUME Publish(w) PROVE Goal
  <2>1. Walks(w)
    BY <1>0, <1>3, WriteWalks DEF Publish, workerVars, serverVars, Labels, Streaming
  <2>. QED
    BY <1>0, <1>3, <2>1 DEF Publish, workerVars, closeVars, SharedType
<1>4. ASSUME BeginsWaiting(w) PROVE Goal
  <2>1. Walks(w)
    BY <1>0, <1>4, WriteWalks DEF BeginsWaiting, clientVars, serverVars, Labels, Streaming
  <2>. QED
    BY <1>0, <1>4, <2>1 DEF BeginsWaiting, clientVars, closeVars, SharedType, MessageType
<1>5. ASSUME DisconnectStops(w) PROVE Goal
  <2>1. UNCHANGED <<gen, lastId, pos, todo, published, last>>
    BY <1>5 DEF DisconnectStops, workerVars, serverVars
  <2>2. Walks(w)
    BY <1>0, <1>5, <2>1, WriteWalks DEF DisconnectStops, Labels, Streaming
  <2>. QED
    BY <1>0, <1>5, <2>2 DEF DisconnectStops, workerVars, closeVars, SharedType, MessageType
<1>6. ASSUME NEW from \in Labels \ {"unborn", "done", "chunk"}, NEW to, Release(w, from, to),
             to \in {"done", "unwound", "failed"},
             from \in {"handling", "unwound"} => to \in {"done", "unwound"},
             from # "unwound"
      PROVE  Goal
  <2>1. /\ pc \in [Workers -> Labels] /\ pc[w] = from /\ pc' = [pc EXCEPT ![w] = to]
        /\ UNCHANGED <<gen, lastId, pos, todo, published, last>>
    BY <1>0, <1>6 DEF Release, At, Goto, MessageType, workerVars, serverVars
  <2>2. pc'[w] = to /\ pc' = [pc EXCEPT ![w] = pc'[w]]
    BY <2>1
  <2>3. Walks(w)
    BY <1>6, <2>1, <2>2, ZenonT(60) DEF Walks, Labels, Streaming
  <2>4. held' \in [Closers -> [stop: 0..MaxConnects, thread: Workers \cup {None},
                               response: Workers \cup {None}]]
    BY <1>0, <1>6 DEF Release, SharedType
  <2>. QED
    BY <1>0, <1>6, <2>3, <2>4 DEF Release, workerVars, SharedType
<1>7. ASSUME ReleaseAndReturn(w) \/ ReleaseAndFail(w) PROVE Goal
  BY <1>6, <1>7 DEF ReleaseAndReturn, ReleaseAndFail, Labels
<1>8. ASSUME HandlerUnwinds(w) PROVE Goal
  <2>1. PICK l \in Handlers : Release(w, l, "unwound")
    BY <1>8 DEF HandlerUnwinds
  <2>2. l \in Labels \ {"unborn", "done", "chunk"} /\ l # "unwound"
    BY <2>1 DEF Handlers, Labels
  <2>. QED
    BY <1>6, <2>1, <2>2
<1> HIDE DEF Goal
<1>9. Goal
  BY <1>2, <1>3, <1>4, <1>5, <1>7, <1>8 DEF WritesToo
<1>. QED
  BY <1>9 DEF Goal

(* A walk keeps everything about the messages.                             *)
LEMMA WalkKeeps ==
  ASSUME MessageType, NotStarted, ChunksWithin, NEW w \in Workers, Walks(w)
  PROVE  MessageType' /\ NotStarted' /\ ChunksWithin'
<1>1. /\ pc \in [Workers -> Labels] /\ pc' = [pc EXCEPT ![w] = pc'[w]]
      /\ pc[w] \in Labels \ {"unborn", "done"}
      /\ pc'[w] \in Labels \ {"unborn", "chunk", "handling", "opened"}
      /\ pc[w] \in {"chunk", "handling"} => todo[w] = 0 \/ pc'[w] \in {"unwound", "done"}
      /\ pc[w] = "unwound" => pc'[w] = "done"
      /\ UNCHANGED <<gen, lastId, pos, todo, published, last>>
  BY DEF Walks, MessageType
<1>2. \A v \in Workers : v # w => pc'[v] = pc[v]
  BY <1>1
<1>3. MessageType'
  BY <1>1 DEF MessageType
<1>4. NotStarted'
  BY <1>1, <1>2 DEF NotStarted
<1>5. pc'[w] \notin {"chunk", "handling", "unwound", "done"} => todo[w] = 0
  BY <1>1 DEF ChunksWithin
<1>6. ChunksWithin'
  BY <1>1, <1>2, <1>5 DEF ChunksWithin
<1>. QED
  BY <1>3, <1>4, <1>6

(* The other steps, spelled out.                                           *)
LEMMA OpensFacts ==
  ASSUME TypeOK, NEW w \in Workers, Opens(w)
  PROVE  /\ pc[w] = "opening"
         /\ \A v \in Workers : pc'[v] = IF v = w THEN "opened" ELSE pc[v]
         /\ \A v \in Workers : pos'[v] = IF v = w THEN lastId ELSE pos[v]
         /\ MessageType' /\ SharedType'
         /\ UNCHANGED <<gen, lastId, todo, published, last>>
<1>0. SharedType /\ MessageType
  BY TypeParts
<1>1. /\ pc[w] = "opening" /\ pc' = [pc EXCEPT ![w] = "opened"]
      /\ pos' = [pos EXCEPT ![w] = lastId]
      /\ cancelled' = [cancelled EXCEPT ![w] = FALSE]
      /\ UNCHANGED <<readyState, gen, stopped, thread, response, lastId, todo, waitsOn, cpc,
                     held, published, last>>
  BY DEF Opens, At, Goto, clientVars, closeVars, serverVars
<1>. QED
  BY <1>0, <1>1 DEF MessageType, SharedType, Labels

LEMMA ChunkFacts ==
  ASSUME TypeOK, NEW w \in Workers, NEW n \in 0..MaxMsgs, Chunk(w, n)
  PROVE  /\ pc[w] = "reading" /\ pos[w] + n <= published
         /\ \A v \in Workers : pc'[v] = IF v = w THEN "chunk" ELSE pc[v]
         /\ \A v \in Workers : todo'[v] = IF v = w THEN n ELSE todo[v]
         /\ MessageType' /\ SharedType'
         /\ UNCHANGED <<gen, lastId, pos, published, last>>
<1>0. SharedType /\ MessageType
  BY TypeParts
<1>1. /\ pc[w] = "reading" /\ pos[w] + n <= published
      /\ pc' = [pc EXCEPT ![w] = "chunk"] /\ todo' = [todo EXCEPT ![w] = n]
      /\ UNCHANGED <<readyState, gen, stopped, thread, response, lastId, pos, cancelled,
                     waitsOn, cpc, held, published, last>>
  BY DEF Chunk, At, Goto, clientVars, closeVars, serverVars
<1>. QED
  BY <1>0, <1>1 DEF MessageType, SharedType, Labels

LEMMA ChunkArrivedFacts ==
  ASSUME TypeOK, NEW w \in Workers, ChunkArrived(w)
  PROVE  /\ pc[w] = "chunk"
         /\ \A v \in Workers : v # w => pc'[v] = pc[v] /\ todo'[v] = todo[v]
         /\ \/ pc'[w] = "return" /\ todo'[w] = 0
            \/ pc'[w] = "handling" /\ todo'[w] = todo[w]
         /\ MessageType' /\ SharedType'
         /\ UNCHANGED <<gen, lastId, pos, published, last>>
<1>0. SharedType /\ MessageType
  BY TypeParts
<1>1. /\ pc[w] = "chunk"
      /\ \/ pc' = [pc EXCEPT ![w] = "return"] /\ todo' = [todo EXCEPT ![w] = 0]
         \/ pc' = [pc EXCEPT ![w] = "handling"] /\ todo' = todo
      /\ UNCHANGED <<readyState, gen, stopped, thread, response, lastId, pos, cancelled,
                     waitsOn, cpc, held, published, last>>
  BY DEF ChunkArrived, At, Goto, clientVars, closeVars, serverVars
<1>2. 0 \in 0..MaxMsgs
  BY EventSourceAssumption
<1>3. SharedType'
  BY <1>0, <1>1 DEF SharedType
<1>4. /\ pc \in [Workers -> Labels] /\ todo \in [Workers -> 0..MaxMsgs]
  BY <1>0 DEF MessageType
<1>5. /\ pc' \in [Workers -> Labels] /\ todo' \in [Workers -> 0..MaxMsgs]
  BY <1>1, <1>2, <1>4, ZenonT(60) DEF Labels
<1>6. MessageType'
  BY <1>0, <1>1, <1>5 DEF MessageType
<1>. QED
  BY <1>1, <1>3, <1>4, <1>6

LEMMA HandleFacts ==
  ASSUME StreamInv, NEW w \in Workers, HandleEvent(w)
  PROVE  /\ pc[w] = "handling" /\ todo[w] > 0
         /\ \A v \in Workers : todo'[v] = IF v = w THEN todo[w] - 1 ELSE todo[v]
         /\ \A v \in Workers : pos'[v] = IF v = w THEN pos[w] + 1 ELSE pos[v]
         /\ lastId' = pos[w] + 1 /\ last' = pos[w] + 1 /\ pos[w] + 1 <= published
         /\ MessageType' /\ SharedType'
         /\ UNCHANGED <<gen, pc, published>>
<1>0. SharedType /\ MessageType /\ pos[w] + todo[w] <= published
  BY TypeParts DEF StreamInv, ChunksWithin
<1>1. /\ pc[w] = "handling" /\ todo[w] > 0
      /\ todo' = [todo EXCEPT ![w] = todo[w] - 1] /\ pos' = [pos EXCEPT ![w] = pos[w] + 1]
      /\ lastId' = pos[w] + 1 /\ last' = pos[w] + 1
      /\ UNCHANGED <<readyState, gen, stopped, thread, response, pc, cancelled,
                     waitsOn, cpc, held, published>>
  BY DEF HandleEvent, At, closeVars
<1>2. /\ pos \in [Workers -> 0..MaxMsgs] /\ todo \in [Workers -> 0..MaxMsgs]
      /\ published \in 0..MaxMsgs /\ MaxMsgs \in Nat
  BY <1>0, EventSourceAssumption DEF MessageType
<1>3. pos[w] + 1 \in 0..MaxMsgs /\ todo[w] - 1 \in 0..MaxMsgs /\ pos[w] + 1 <= published
  BY <1>0, <1>1, <1>2
<1>4. pos' \in [Workers -> 0..MaxMsgs] /\ todo' \in [Workers -> 0..MaxMsgs]
  BY <1>1, <1>2, <1>3
<1>5. MessageType'
  BY <1>0, <1>1, <1>3, <1>4 DEF MessageType
<1>6. SharedType'
  BY <1>0, <1>1 DEF SharedType
<1>. QED
  BY <1>1, <1>2, <1>3, <1>5, <1>6

LEMMA ConnectFacts ==
  ASSUME TypeOK, NEW w \in Workers, Connect(w)
  PROVE  /\ w = gen + 1 /\ gen' = w /\ (Sequential => \A v \in Workers : Ended(v))
         /\ \A v \in Workers : pc'[v] = IF v = w THEN "opening" ELSE pc[v]
         /\ MessageType' /\ SharedType'
         /\ UNCHANGED <<lastId, pos, todo, published, last>>
<1>0. SharedType /\ MessageType
  BY TypeParts
<1>1. /\ w = gen + 1 /\ gen' = w /\ thread' = w /\ readyState' = "connecting"
      /\ (Sequential => \A v \in Workers : Ended(v))
      /\ pc' = [pc EXCEPT ![w] = "opening"]
      /\ UNCHANGED <<stopped, response, lastId, pos, todo, cancelled, waitsOn, cpc, held,
                     published, last>>
  BY DEF Connect, Quiet, Goto, workerVars, closeVars, serverVars
<1>2. w \in 0..MaxConnects
  BY DEF Workers
<1>. QED
  BY <1>0, <1>1, <1>2 DEF MessageType, SharedType, Labels

(* close() and the server touch no worker.                                 *)
LEMMA OutsideFacts ==
  ASSUME TypeOK, NEW c \in Closers, Close(c) \/ Closes(c) \/ CloseTimesOut(c)
  PROVE  SharedType' /\ UNCHANGED <<gen, lastId, pc, pos, todo, published, last>>
<1>0. SharedType /\ MessageType
  BY TypeParts
<1>1. CASE Close(c)
  BY <1>0, <1>1 DEF Close, workerVars, serverVars, SharedType, MessageType
<1>2. CASE CloseSetsStop(c)
  BY <1>0, <1>2 DEF CloseSetsStop, workerVars, serverVars, SharedType
<1>3. CASE CloseCancels(c)
  <2>1. cancelled' \in [Workers -> BOOLEAN]
    BY <1>0, <1>3 DEF CloseCancels, SharedType
  <2>. QED
    BY <1>0, <1>3, <2>1 DEF CloseCancels, clientVars, serverVars, SharedType
<1>4. CASE CloseReturns(c) \/ CloseTimesOut(c)
  BY <1>0, <1>4 DEF CloseReturns, CloseTimesOut, clientVars, workerVars, serverVars, SharedType
<1>. QED
  BY <1>1, <1>2, <1>3, <1>4 DEF Closes

(* Every step is one of these.                                             *)
LEMMA StepKinds ==
  ASSUME TypeOK, ChunksWithin, [Next]_vars
  PROVE  \/ \E w \in Workers : \/ Connect(w) \/ Opens(w) \/ ChunkArrived(w) \/ HandleEvent(w)
                               \/ \E n \in 0..MaxMsgs : Chunk(w, n)
                               \/ Walks(w) /\ SharedType'
         \/ \E c \in Closers : Close(c) \/ Closes(c) \/ CloseTimesOut(c)
         \/ PublishMessage
         \/ UNCHANGED vars
<1>0. SharedType /\ MessageType
  BY TypeParts
<1>1. ASSUME NEW w \in Workers, OnlyMoves(w) PROVE Walks(w) /\ SharedType'
  <2>1. Walks(w) /\ UNCHANGED <<clientVars, workerVars, closeVars, serverVars>>
    BY <1>0, <1>1, OnlyMovesWalk
  <2>2. SharedType'
    BY <1>0, <2>1 DEF clientVars, workerVars, closeVars, SharedType
  <2>. QED
    BY <2>1, <2>2
<1>2. ASSUME NEW w \in Workers, WritesToo(w) PROVE Walks(w) /\ SharedType'
  BY <1>2, WritesTooWalk
<1>. QED
  BY <1>1, <1>2 DEF Next, Responds, Speaks, Works, OnlyMoves, WritesToo

LEMMA StreamInit == Init => StreamInv
<1> SUFFICES ASSUME Init PROVE StreamInv
  OBVIOUS
<1>1. 0 \in 0..MaxMsgs /\ 0 \in 0..MaxConnects
  BY EventSourceAssumption
<1>2. SharedType
  BY <1>1 DEF Init, SharedType
<1>3. MessageType
  BY <1>1 DEF Init, MessageType, Labels
<1>4. NotStarted /\ ChunksWithin
  BY DEF Init, NotStarted, ChunksWithin
<1>. QED
  BY <1>2, <1>3, <1>4, TypeParts DEF StreamInv

LEMMA StreamStep == StreamInv /\ [Next]_vars => StreamInv'
<1> SUFFICES ASSUME StreamInv, [Next]_vars PROVE StreamInv'
  OBVIOUS
<1>0. TypeOK /\ SharedType /\ MessageType /\ NotStarted /\ ChunksWithin
  BY TypeParts DEF StreamInv
<1>a. /\ \A v \in Workers : pos[v] \in Nat /\ todo[v] \in Nat
      /\ published \in Nat /\ lastId \in Nat /\ gen \in Nat /\ MaxMsgs \in Nat
      /\ Workers \subseteq Nat
  <2>1. /\ pos \in [Workers -> 0..MaxMsgs] /\ todo \in [Workers -> 0..MaxMsgs]
        /\ published \in 0..MaxMsgs /\ lastId \in 0..MaxMsgs /\ gen \in 0..MaxConnects
    BY <1>0 DEF MessageType
  <2>. QED
    BY <2>1, EventSourceAssumption DEF Workers
<1>b. (TypeOK <=> SharedType /\ MessageType)'
  BY TypeParts, PTL
<1> DEFINE Goal == SharedType' /\ MessageType' /\ NotStarted' /\ ChunksWithin'
<1>1. ASSUME NEW w \in Workers, Walks(w), SharedType' PROVE Goal
  BY <1>0, <1>1, WalkKeeps
<1>2. ASSUME NEW w \in Workers, Connect(w) PROVE Goal
  <2>1. /\ w = gen + 1 /\ gen' = w
        /\ \A v \in Workers : pc'[v] = IF v = w THEN "opening" ELSE pc[v]
        /\ MessageType' /\ SharedType'
        /\ UNCHANGED <<lastId, pos, todo, published, last>>
    BY <1>0, <1>2, ConnectFacts
  <2>2. pc[w] = "unborn"
    BY <1>0, <1>a, <2>1 DEF NotStarted
  <2>3. NotStarted'
    BY <1>0, <1>a, <2>1 DEF NotStarted
  <2>4. ChunksWithin'
    BY <1>0, <2>1, <2>2 DEF ChunksWithin
  <2>. QED
    BY <2>1, <2>3, <2>4
<1>3. ASSUME NEW w \in Workers, Opens(w) PROVE Goal
  <2>1. /\ pc[w] = "opening"
        /\ \A v \in Workers : pc'[v] = IF v = w THEN "opened" ELSE pc[v]
        /\ \A v \in Workers : pos'[v] = IF v = w THEN lastId ELSE pos[v]
        /\ MessageType' /\ SharedType'
        /\ UNCHANGED <<gen, lastId, todo, published, last>>
    BY <1>0, <1>3, OpensFacts
  <2>2. NotStarted'
    BY <1>0, <2>1 DEF NotStarted
  <2>3. todo[w] = 0
    BY <1>0, <2>1 DEF ChunksWithin
  <2>4. ChunksWithin'
    BY <1>0, <1>a, <2>1, <2>3 DEF ChunksWithin
  <2>. QED
    BY <2>1, <2>2, <2>4
<1>4. ASSUME NEW w \in Workers, NEW n \in 0..MaxMsgs, Chunk(w, n) PROVE Goal
  <2>1. /\ pc[w] = "reading" /\ pos[w] + n <= published
        /\ \A v \in Workers : pc'[v] = IF v = w THEN "chunk" ELSE pc[v]
        /\ \A v \in Workers : todo'[v] = IF v = w THEN n ELSE todo[v]
        /\ MessageType' /\ SharedType'
        /\ UNCHANGED <<gen, lastId, pos, published, last>>
    BY <1>0, <1>4, ChunkFacts
  <2>2. NotStarted'
    BY <1>0, <2>1 DEF NotStarted
  <2>3. ChunksWithin'
    BY <1>0, <2>1 DEF ChunksWithin
  <2>. QED
    BY <2>1, <2>2, <2>3
<1>5. ASSUME NEW w \in Workers, ChunkArrived(w) PROVE Goal
  <2>1. /\ pc[w] = "chunk"
        /\ \A v \in Workers : v # w => pc'[v] = pc[v] /\ todo'[v] = todo[v]
        /\ \/ pc'[w] = "return" /\ todo'[w] = 0
           \/ pc'[w] = "handling" /\ todo'[w] = todo[w]
        /\ MessageType' /\ SharedType'
        /\ UNCHANGED <<gen, lastId, pos, published, last>>
    BY <1>0, <1>5, ChunkArrivedFacts
  <2>2. NotStarted'
    BY <1>0, <2>1 DEF NotStarted
  <2>3. ChunksWithin'
    <3>1. pos[w] + todo'[w] <= published
      BY <1>0, <1>a, <2>1 DEF ChunksWithin
    <3>. QED
      BY <1>0, <2>1, <3>1 DEF ChunksWithin
  <2>. QED
    BY <2>1, <2>2, <2>3
<1>6. ASSUME NEW w \in Workers, HandleEvent(w) PROVE Goal
  <2>1. /\ pc[w] = "handling" /\ todo[w] > 0
        /\ \A v \in Workers : todo'[v] = IF v = w THEN todo[w] - 1 ELSE todo[v]
        /\ \A v \in Workers : pos'[v] = IF v = w THEN pos[w] + 1 ELSE pos[v]
        /\ lastId' = pos[w] + 1 /\ pos[w] + 1 <= published
        /\ MessageType' /\ SharedType'
        /\ UNCHANGED <<gen, pc, published>>
    BY <1>6, HandleFacts
  <2>2. NotStarted'
    BY <1>0, <2>1 DEF NotStarted
  <2>3. ChunksWithin'
    BY <1>0, <1>a, <2>1 DEF ChunksWithin
  <2>. QED
    BY <2>1, <2>2, <2>3
<1>7. ASSUME NEW c \in Closers, Close(c) \/ Closes(c) \/ CloseTimesOut(c) PROVE Goal
  <2>1. SharedType' /\ UNCHANGED <<gen, lastId, pc, pos, todo, published, last>>
    BY <1>0, <1>7, OutsideFacts
  <2>. QED
    BY <1>0, <2>1 DEF MessageType, NotStarted, ChunksWithin
<1>8. ASSUME PublishMessage PROVE Goal
  <2>1. /\ published < MaxMsgs /\ published' = published + 1
        /\ UNCHANGED <<clientVars, pc, workerVars, closeVars, last>>
    BY <1>8 DEF PublishMessage
  <2>2. published' \in 0..MaxMsgs
    BY <1>a, <2>1
  <2>3. MessageType' /\ SharedType' /\ NotStarted'
    BY <1>0, <2>1, <2>2 DEF MessageType, SharedType, NotStarted, clientVars, workerVars,
       closeVars
  <2>4. ChunksWithin'
    BY <1>0, <1>a, <2>1 DEF ChunksWithin, clientVars, workerVars
  <2>. QED
    BY <2>3, <2>4
<1>9. ASSUME UNCHANGED vars PROVE Goal
  BY <1>0, <1>9 DEF vars, clientVars, workerVars, closeVars, serverVars, MessageType,
     SharedType, NotStarted, ChunksWithin
<1> HIDE DEF Goal
<1>10. Goal
  BY <1>0, <1>1, <1>2, <1>3, <1>4, <1>5, <1>6, <1>7, <1>8, <1>9, StepKinds
<1>. QED
  BY <1>b, <1>10 DEF Goal, StreamInv

(* The client's attributes keep their types; no worker reads past what the *)
(* server has published.                                                   *)
THEOREM TypeCorrect == Spec => []TypeOK
<1>1. StreamInv => TypeOK
  BY DEF StreamInv
<1>. QED
  BY <1>1, StreamInit, StreamStep, PTL DEF Spec

-----------------------------------------------------------------------------
(* The order of the messages.                                              *)

(* A connect() that waits finds every earlier worker at its end.           *)
OneLive == \A v, w \in Workers : ~Ended(v) /\ ~Ended(w) => v = w

(* The id kept for the next request is that of the last message handed     *)
(* over, and an open stream stands there.                                  *)
AtLast ==
  /\ lastId = last
  /\ \A w \in Workers : pc[w] \in Streaming => pos[w] = last

OrderInv == StreamInv /\ OneLive /\ AtLast

LEMMA OrderInit == Init => OrderInv
<1> SUFFICES ASSUME Init PROVE OneLive /\ AtLast
  BY StreamInit DEF OrderInv
<1>. QED
  BY DEF Init, OneLive, AtLast, Ended, Streaming

LEMMA OrderStep ==
  ASSUME Sequential, OrderInv, [Next]_vars
  PROVE  OrderInv'
<1>0. TypeOK /\ MessageType /\ ChunksWithin /\ StreamInv /\ OneLive /\ AtLast
  BY TypeParts DEF OrderInv, StreamInv
<1>a. \A w \in Workers : pos[w] \in Nat
  BY <1>0, EventSourceAssumption DEF MessageType
<1> DEFINE Goal == OneLive' /\ AtLast'
<1>1. ASSUME NEW w \in Workers, Walks(w) PROVE Goal
  <2>1. /\ pc \in [Workers -> Labels] /\ pc' = [pc EXCEPT ![w] = pc'[w]]
        /\ pc[w] \in Labels \ {"unborn", "done"}
        /\ pc'[w] \in Streaming => pc[w] \in Streaming
        /\ UNCHANGED <<gen, lastId, pos, todo, published, last>>
    BY <1>0, <1>1 DEF Walks, MessageType
  <2>2. \A v \in Workers : v # w => pc'[v] = pc[v]
    BY <2>1
  <2>3. OneLive'
    BY <1>0, <2>1, <2>2 DEF OneLive, Ended
  <2>. QED
    BY <1>0, <2>1, <2>2, <2>3 DEF AtLast
<1>2. ASSUME NEW w \in Workers, Connect(w) PROVE Goal
  <2>1. /\ \A v \in Workers : Ended(v)
        /\ \A v \in Workers : pc'[v] = IF v = w THEN "opening" ELSE pc[v]
        /\ UNCHANGED <<lastId, pos, last>>
    BY <1>0, <1>2, ConnectFacts
  <2>. QED
    BY <1>0, <2>1 DEF OneLive, Ended, AtLast, Streaming
<1>3. ASSUME NEW w \in Workers, Opens(w) PROVE Goal
  <2>1. /\ pc[w] = "opening"
        /\ \A v \in Workers : pc'[v] = IF v = w THEN "opened" ELSE pc[v]
        /\ \A v \in Workers : pos'[v] = IF v = w THEN lastId ELSE pos[v]
        /\ UNCHANGED <<lastId, last>>
    BY <1>0, <1>3, OpensFacts
  <2>. QED
    BY <1>0, <2>1 DEF OneLive, Ended, AtLast
<1>4. ASSUME NEW w \in Workers, NEW n \in 0..MaxMsgs, Chunk(w, n) PROVE Goal
  <2>1. /\ pc[w] = "reading"
        /\ \A v \in Workers : pc'[v] = IF v = w THEN "chunk" ELSE pc[v]
        /\ UNCHANGED <<lastId, pos, last>>
    BY <1>0, <1>4, ChunkFacts
  <2>. QED
    BY <1>0, <2>1 DEF OneLive, Ended, AtLast, Streaming
<1>5. ASSUME NEW w \in Workers, ChunkArrived(w) PROVE Goal
  <2>1. /\ pc[w] = "chunk"
        /\ \A v \in Workers : v # w => pc'[v] = pc[v]
        /\ UNCHANGED <<lastId, pos, last>>
    BY <1>0, <1>5, ChunkArrivedFacts
  <2>. QED
    BY <1>0, <2>1 DEF OneLive, Ended, AtLast, Streaming
<1>6. ASSUME NEW w \in Workers, HandleEvent(w) PROVE Goal
  <2>1. /\ pc[w] = "handling"
        /\ \A v \in Workers : pos'[v] = IF v = w THEN pos[w] + 1 ELSE pos[v]
        /\ lastId' = pos[w] + 1 /\ last' = pos[w] + 1
        /\ pc' = pc
    BY <1>0, <1>6, HandleFacts
  <2>2. \A v \in Workers : pc[v] \in Streaming => v = w
    BY <1>0, <2>1 DEF OneLive, Ended, Streaming
  <2>. QED
    BY <1>0, <2>1, <2>2 DEF OneLive, Ended, AtLast
<1>7. ASSUME \/ \E c \in Closers : Close(c) \/ Closes(c) \/ CloseTimesOut(c)
             \/ PublishMessage \/ UNCHANGED vars
      PROVE  Goal
  <2>1. UNCHANGED <<lastId, pc, pos, last>>
    <3>1. ASSUME NEW c \in Closers, Close(c) \/ Closes(c) \/ CloseTimesOut(c)
          PROVE  UNCHANGED <<lastId, pc, pos, last>>
      BY <1>0, <3>1, OutsideFacts
    <3>2. ASSUME PublishMessage \/ UNCHANGED vars PROVE UNCHANGED <<lastId, pc, pos, last>>
      BY <3>2 DEF PublishMessage, vars, clientVars, workerVars, serverVars
    <3>. QED
      BY <1>7, <3>1, <3>2
  <2>. QED
    BY <1>0, <2>1 DEF OneLive, Ended, AtLast
<1> HIDE DEF Goal
<1>8. Goal
  BY <1>0, <1>1, <1>2, <1>3, <1>4, <1>5, <1>6, <1>7, StepKinds
<1>. QED
  BY <1>0, <1>8, StreamStep DEF Goal, OrderInv

(* However many attempts fail, streams break and chunks are cut off by a   *)
(* close(), messages reach on_message in the order they were published,    *)
(* none twice and none skipped; so they do after a later connect(),        *)
(* provided it waits for the earlier close(), as each connect() of the     *)
(* streaming transport does: it makes a client of its own.                 *)
THEOREM MessagesInOrder ==
  ASSUME Sequential
  PROVE  Spec => []InOrderOnce
<1>1. OrderInv => InOrderOnce
  BY DEF OrderInv, AtLast, InOrderOnce, Streaming
<1>2. OrderInv /\ [Next]_vars => OrderInv'
  BY OrderStep
<1>. QED
  BY <1>1, <1>2, OrderInit, PTL DEF Spec
=============================================================================
