----------------------------- MODULE EventSource -----------------------------
(***************************************************************************)
(* The server-sent-events client, configdirector/_eventsource/client.py:   *)
(* connect(), close(), and the worker thread that opens a stream, reads    *)
(* it, and reconnects.                                                     *)
(*                                                                         *)
(* Every action is one critical section of the client's lock, one read or  *)
(* write of an attribute another thread also uses, or one step between two *)
(* of them.  Each connect() makes a new stop event and a new worker; both  *)
(* are known by the number of that call.  Messages are numbered in the     *)
(* order the server publishes them, and carry that number as their id.     *)
(* Delays, the attempt counter that only they depend on, comments and      *)
(* retry fields are left out; parsing chunks into messages is the parser's *)
(* part.                                                                   *)
(***************************************************************************)
EXTENDS Naturals

CONSTANTS
  Callers,      \* threads that call close()
  None,         \* Python's None: no thread, no response
  MaxConnects,  \* bound: calls of connect() that start a worker
  MaxMsgs,      \* bound: messages the server publishes
  Sequential    \* whether connect() waits for an earlier close() to finish

Workers == 1..MaxConnects
Closers == Callers \cup Workers

ASSUME EventSourceAssumption ==
  /\ MaxConnects \in Nat
  /\ MaxMsgs \in Nat
  /\ Sequential \in BOOLEAN
  /\ Callers \cap Workers = {}
  /\ \A x \in Workers : x # None

VARIABLES
  readyState,   \* _ready_state
  gen,          \* the number of the event in _stop
  stopped,      \* the stop events that are set
  thread,       \* _thread
  response,     \* _response: the worker whose response is published
  lastId,       \* _last_event_id
  pc,           \* per worker: where it is
  pos,          \* per worker: the last message its stream has carried
  todo,         \* per worker: messages of the chunk at hand not yet handled
  cancelled,    \* per worker: its response was cancelled
  waitsOn,      \* per worker: the event it waits on between attempts
  cpc,          \* per thread: where in close() it is
  held,         \* per thread: stop event, thread and response close() took
  published,    \* messages the server has published
  last          \* the message handed to on_message last

clientVars == <<readyState, gen, stopped, thread, response, lastId>>
workerVars == <<pos, todo, cancelled, waitsOn>>
closeVars == <<cpc, held>>
serverVars == <<published, last>>
vars == <<clientVars, pc, workerVars, closeVars, serverVars>>

(* A worker that is inside close(), called from one of its handlers, does  *)
(* not go on until that returns.                                           *)
At(w, l) == pc[w] = l /\ cpc[w] \in {"idle", "done"}
Goto(w, l) == pc' = [pc EXCEPT ![w] = l]

(* self._stop.is_set(): the event of the last connect(), whoever asks.     *)
Stopped == gen \in stopped

Ended(w) == pc[w] \in {"unborn", "done"}

-----------------------------------------------------------------------------
(* connect() and close()                                                   *)

Quiet == /\ \A c \in Closers : cpc[c] \in {"idle", "done"}
         /\ \A w \in Workers : Ended(w)

Connect(w) ==
  /\ readyState = "closed"
  /\ w = gen + 1
  /\ Sequential => Quiet
  /\ readyState' = "connecting"
  /\ gen' = w
  /\ thread' = w
  /\ Goto(w, "opening")
  /\ UNCHANGED <<stopped, response, lastId, workerVars, closeVars, serverVars>>

(* The critical section of close().  A worker calls it from a handler.     *)
Handlers == {"connected", "handling", "failing", "openfailing", "ask", "told",
             "told, return"}

Close(c) ==
  /\ cpc[c] = "idle"
  /\ c \in Workers => pc[c] \in Handlers
  /\ readyState' = "closed"
  /\ held' = [held EXCEPT ![c] = [stop |-> gen, thread |-> thread,
                                  response |-> response]]
  /\ thread' = None
  /\ cpc' = [cpc EXCEPT ![c] = "stop"]
  /\ UNCHANGED <<gen, stopped, response, lastId, pc, workerVars, serverVars>>

CloseSetsStop(c) ==
  /\ cpc[c] = "stop"
  /\ stopped' = stopped \cup {held[c].stop}
  /\ cpc' = [cpc EXCEPT ![c] = "cancel"]
  /\ UNCHANGED <<readyState, gen, thread, response, lastId, pc, workerVars, held,
                 serverVars>>

\* Mutant of CloseCancels: the response is left to its reader.
CloseCancels_Not(c) ==
  /\ cpc[c] = "cancel"
  /\ cpc' = [cpc EXCEPT ![c] = "join"]
  /\ UNCHANGED <<clientVars, pc, workerVars, held, serverVars>>

(* Cancels the response close() took, if its reader still has it.          *)
CloseCancels(c) ==
  /\ cpc[c] = "cancel"
  /\ cancelled' = [w \in Workers |-> cancelled[w] \/ held[c].response = w]
  /\ cpc' = [cpc EXCEPT ![c] = "join"]
  /\ UNCHANGED <<clientVars, pc, pos, todo, waitsOn, held, serverVars>>

Joins(c) == held[c].thread \notin {None, c}

CloseReturns(c) ==
  /\ cpc[c] = "join"
  /\ Joins(c) => Ended(held[c].thread)
  /\ cpc' = [cpc EXCEPT ![c] = "done"]
  /\ UNCHANGED <<clientVars, pc, workerVars, held, serverVars>>

CloseTimesOut(c) ==
  /\ cpc[c] = "join"
  /\ Joins(c)
  /\ ~Ended(held[c].thread)
  /\ cpc' = [cpc EXCEPT ![c] = "done"]
  /\ UNCHANGED <<clientVars, pc, workerVars, held, serverVars>>

-----------------------------------------------------------------------------
(* _connect_once by worker w                                               *)

(* A step that moves w and reads or writes nothing else.                   *)
Moves(w, from, to) ==
  /\ At(w, from)
  /\ Goto(w, to)
  /\ UNCHANGED <<clientVars, workerVars, closeVars, serverVars>>

(* The transport answers; the request asked for what follows lastId.       *)
Opens(w) ==
  /\ At(w, "opening")
  /\ pos' = [pos EXCEPT ![w] = lastId]
  /\ cancelled' = [cancelled EXCEPT ![w] = FALSE]
  /\ Goto(w, "opened")
  /\ UNCHANGED <<clientVars, todo, waitsOn, closeVars, serverVars>>

OpenFails(w) == Moves(w, "opening", "openfailed")

(* The exception ends the loop after close(), and is reported otherwise.   *)
OpenFailed(w) == Moves(w, "openfailed", IF Stopped THEN "done" ELSE "openfailing")
OpenReported(w) == Moves(w, "openfailing", "failed")

(* _open: close() landed while the request was in flight.                  *)
Opened(w) == Moves(w, "opened", IF Stopped THEN "openfailed" ELSE "answered")

(* 204 is _disconnected; 400 and up fails; anything else is a stream.      *)
Answered(w, kind) ==
  Moves(w, "answered", CASE kind = "no content" -> "close"
                         [] kind = "error" -> "fail"
                         [] kind = "stream" -> "publish")

Publish(w) ==
  /\ At(w, "publish")
  /\ response' = w
  /\ Goto(w, "check")
  /\ UNCHANGED <<readyState, gen, stopped, thread, lastId, workerVars, closeVars,
                 serverVars>>

CheckGap(w) == Moves(w, "check", IF Stopped THEN "return" ELSE "opening?")

(* _set_state: the check and the write are two steps.                      *)
SetOpen(w) == Moves(w, "opening?", IF Stopped THEN "connected" ELSE "open!")

WriteState(w, from, state, to) ==
  /\ At(w, from)
  /\ readyState' = state
  /\ Goto(w, to)
  /\ UNCHANGED <<gen, stopped, thread, response, lastId, workerVars, closeVars,
                 serverVars>>

WriteOpen(w) == WriteState(w, "open!", "open", "connected")

(* on_connect has returned; the reader waits for the first chunk.          *)
BeginsReading(w) == Moves(w, "connected", "reading")

(* Unless its response was cancelled the stream carries a chunk: n whole   *)
(* messages, none when it is a keepalive or part of one.                   *)
Chunk(w, n) ==
  /\ At(w, "reading")
  /\ ~cancelled[w]
  /\ pos[w] + n <= published
  /\ todo' = [todo EXCEPT ![w] = n]
  /\ Goto(w, "chunk")
  /\ UNCHANGED <<clientVars, pos, cancelled, waitsOn, closeVars, serverVars>>

\* Mutant of ChunkArrived: the chunk is handled in any case.
ChunkArrived_Unchecked(w) == Moves(w, "chunk", "handling")

(* Whatever arrived alongside close() is dropped.                          *)
ChunkArrived(w) ==
  /\ At(w, "chunk")
  /\ todo' = IF Stopped THEN [todo EXCEPT ![w] = 0] ELSE todo
  /\ Goto(w, IF Stopped THEN "return" ELSE "handling")
  /\ UNCHANGED <<clientVars, pos, cancelled, waitsOn, closeVars, serverVars>>

\* Mutant of HandleEvent: the id is not kept for the next request.
HandleEvent_NoId(w) ==
  /\ At(w, "handling")
  /\ todo[w] > 0
  /\ todo' = [todo EXCEPT ![w] = @ - 1]
  /\ pos' = [pos EXCEPT ![w] = @ + 1]
  /\ last' = pos[w] + 1
  /\ UNCHANGED <<clientVars, pc, cancelled, waitsOn, closeVars, published>>

(* _handle_event keeps the id for the next request, then calls on_message. *)
HandleEvent(w) ==
  /\ At(w, "handling")
  /\ todo[w] > 0
  /\ todo' = [todo EXCEPT ![w] = @ - 1]
  /\ pos' = [pos EXCEPT ![w] = @ + 1]
  /\ lastId' = pos[w] + 1
  /\ last' = pos[w] + 1
  /\ UNCHANGED <<readyState, gen, stopped, thread, response, pc, cancelled,
                 waitsOn, closeVars, published>>

ChunkHandled(w) == todo[w] = 0 /\ Moves(w, "handling", "reading")

(* The read ends: the peer went away (the stream ended, or broke), it was  *)
(* silent for the read timeout, or close() cancelled it.                   *)
ReadEnds(w) == Moves(w, "reading", "fail")
ReadBreaks(w) == Moves(w, "reading", "broken")
ReadCancelled(w) == cancelled[w] /\ Moves(w, "reading", "broken")

Broken(w) == Moves(w, "broken", IF Stopped THEN "return" ELSE "failing")
BreakReported(w) == Moves(w, "failing", "fail")

(* finally: the response is withdrawn and closed.  A close() that still    *)
(* holds it cancels nothing any more.  Without a failure the loop is over. *)
Release(w, from, to) ==
  /\ At(w, from)
  /\ response' = None
  /\ held' = [c \in Closers |-> IF held[c].response = w
                                THEN [held[c] EXCEPT !.response = None]
                                ELSE held[c]]
  /\ Goto(w, to)
  /\ UNCHANGED <<readyState, gen, stopped, thread, lastId, workerVars, cpc,
                 serverVars>>

ReleaseAndReturn(w) == Release(w, "return", "done")

(* A handler raised SystemExit or KeyboardInterrupt, which unwinds through *)
(* the finally clause and ends the loop.                                   *)
HandlerUnwinds(w) == \E l \in Handlers : Release(w, l, "unwound")
Unwound(w) == WriteState(w, "unwound", "closed", "done")

ReleaseAndFail(w) == Release(w, "fail", "failed")

-----------------------------------------------------------------------------
(* _run by worker w, after a failed attempt                                *)

\* Mutant of Failed: an attempt that failed is not repeated.
Failed_GivesUp(w) == Moves(w, "failed", "done")

Failed(w) == Moves(w, "failed", IF Stopped THEN "done" ELSE "ask")

(* should_reconnect; no answer, or an exception, is a yes.                 *)
Ask(w, again) == Moves(w, "ask", IF again THEN "connecting?" ELSE "disconnect")

SetConnecting(w) == Moves(w, "connecting?", IF Stopped THEN "delay" ELSE "connecting!")
WriteConnecting(w) == WriteState(w, "connecting!", "connecting", "delay")

BeginsWaiting(w) ==
  /\ At(w, "delay")
  /\ waitsOn' = [waitsOn EXCEPT ![w] = gen]
  /\ Goto(w, "waiting")
  /\ UNCHANGED <<clientVars, pos, todo, cancelled, closeVars, serverVars>>

(* _stop.wait() ends when the event is set or the delay is over.           *)
WaitEnds(w) ==
  Moves(w, "waiting", IF waitsOn[w] \in stopped THEN "done" ELSE "opening")

(* _disconnected, for a 204 with the response still to be released.        *)
DisconnectNoContent(w) == WriteState(w, "close", "closed", "stop, return")
Disconnect(w) == WriteState(w, "disconnect", "closed", "stop")

DisconnectStops(w) ==
  /\ \/ At(w, "stop, return") /\ Goto(w, "told, return")
     \/ At(w, "stop") /\ Goto(w, "told")
  /\ stopped' = stopped \cup {gen}
  /\ UNCHANGED <<readyState, gen, thread, response, lastId, workerVars, closeVars,
                 serverVars>>

DisconnectTold(w) == \/ Moves(w, "told, return", "return")
                     \/ Moves(w, "told", "done")

-----------------------------------------------------------------------------
(* The server.                                                             *)
PublishMessage ==
  /\ published < MaxMsgs
  /\ published' = published + 1
  /\ UNCHANGED <<clientVars, pc, workerVars, closeVars, last>>

Init ==
  /\ readyState = "closed"
  /\ gen = 0
  /\ stopped = {0}
  /\ thread = None
  /\ response = None
  /\ lastId = 0
  /\ pc = [w \in Workers |-> "unborn"]
  /\ pos = [w \in Workers |-> 0]
  /\ todo = [w \in Workers |-> 0]
  /\ cancelled = [w \in Workers |-> FALSE]
  /\ waitsOn = [w \in Workers |-> 0]
  /\ cpc = [c \in Closers |-> "idle"]
  /\ held = [c \in Closers |-> [stop |-> 0, thread |-> None, response |-> None]]
  /\ published = 0
  /\ last = 0

(* The network gives a request an answer, or an error, in time.            *)
Responds(w) == Opens(w) \/ OpenFails(w)

(* A stream says something (a keepalive at least), ends or times out.      *)
Speaks(w) ==
  \/ \E n \in 0..MaxMsgs : Chunk(w, n)
  \/ ReadEnds(w)
  \/ ReadBreaks(w)

(* What the worker does by itself.                                         *)
Works(w) ==
  \/ OpenFailed(w) \/ OpenReported(w) \/ Opened(w)
  \/ \E kind \in {"no content", "error", "stream"} : Answered(w, kind)
  \/ Publish(w) \/ CheckGap(w) \/ SetOpen(w) \/ WriteOpen(w) \/ BeginsReading(w)
  \/ ChunkArrived(w) \/ HandleEvent(w) \/ ChunkHandled(w) \/ ReadCancelled(w)
  \/ Broken(w) \/ BreakReported(w) \/ ReleaseAndReturn(w) \/ ReleaseAndFail(w)
  \/ Failed(w) \/ (\E again \in BOOLEAN : Ask(w, again))
  \/ SetConnecting(w) \/ WriteConnecting(w) \/ BeginsWaiting(w) \/ WaitEnds(w)
  \/ DisconnectNoContent(w) \/ Disconnect(w) \/ DisconnectStops(w)
  \/ DisconnectTold(w) \/ Unwound(w)

Closes(c) == CloseSetsStop(c) \/ CloseCancels(c) \/ CloseReturns(c)

Next ==
  \/ \E w \in Workers : Connect(w) \/ Responds(w) \/ Speaks(w) \/ Works(w)
                         \/ HandlerUnwinds(w)
  \/ \E c \in Closers : Close(c) \/ Closes(c) \/ CloseTimesOut(c)
  \/ PublishMessage

(* Threads run, handlers return and requests end.  A stream may stay open  *)
(* and carry nothing.                                                      *)
ThreadsRun ==
  /\ \A w \in Workers : WF_vars(Works(w)) /\ WF_vars(Responds(w))
  /\ \A c \in Closers : WF_vars(Closes(c))

Spec == Init /\ [][Next]_vars /\ ThreadsRun

(* What some properties assume of the streams besides.  A read ends, after *)
(* the read timeout at the latest; that takes far longer than close()      *)
(* waits for a worker.                                                     *)
ReadsEnd == \A w \in Workers : WF_vars(Speaks(w))

(* Requests do not fail for ever, and a stream carries what was published. *)
StreamsSpeak ==
  \A w \in Workers :
    /\ SF_vars(Opens(w))
    /\ SF_vars(Answered(w, "stream"))
    /\ SF_vars(\E n \in 1..MaxMsgs : Chunk(w, n))

-----------------------------------------------------------------------------
(* Properties                                                              *)

(* The shape of the client's attributes and of the threads' places.        *)
TypeOK ==
  /\ readyState \in {"closed", "connecting", "open"}
  /\ gen \in 0..MaxConnects
  /\ stopped \subseteq 0..MaxConnects
  /\ thread \in Workers \cup {None}
  /\ response \in Workers \cup {None}
  /\ lastId \in 0..MaxMsgs
  /\ pc \in [Workers -> {"unborn", "opening", "opened", "openfailed", "answered",
                         "publish", "check", "opening?", "open!", "reading",
                         "chunk", "broken", "return", "fail", "failed",
                         "connecting?", "connecting!", "delay", "waiting",
                         "close", "stop, return", "disconnect", "stop",
                         "unwound", "done"} \cup Handlers]
  /\ pos \in [Workers -> 0..MaxMsgs]
  /\ todo \in [Workers -> 0..MaxMsgs]
  /\ cancelled \in [Workers -> BOOLEAN]
  /\ waitsOn \in [Workers -> 0..MaxConnects]
  /\ cpc \in [Closers -> {"idle", "stop", "cancel", "join", "done"}]
  /\ held \in [Closers -> [stop: 0..MaxConnects, thread: Workers \cup {None},
                           response: Workers \cup {None}]]
  /\ published \in 0..MaxMsgs
  /\ last \in 0..MaxMsgs

(* Across reconnects, messages reach on_message in the order they were     *)
(* published, none twice and none skipped: what a worker is about to hand  *)
(* over is the message after the one handed over last, whichever stream    *)
(* and worker that came on.                                                *)
InOrderOnce ==
  \A w \in Workers : pc[w] = "handling" /\ todo[w] > 0 => pos[w] = last

(* A published message is delivered, however often attempts fail, unless   *)
(* the client was stopped: by close(), a 204, should_reconnect or a        *)
(* handler that unwound the worker.                                        *)
MessagesArrive ==
  ReadsEnd /\ StreamsSpeak
    => \A n \in 1..MaxMsgs :
         (published >= n /\ gen > 0)
           ~> (last >= n \/ stopped # {0} \/ readyState = "closed")

(* Once its stop event is set a worker ends, at the next thing the stream  *)
(* says if nothing else tells it.                                          *)
StoppedWorkerEnds ==
  ReadsEnd => \A w \in Workers : (w \in stopped /\ ~Ended(w)) ~> Ended(w)

(* The worker that close() c joins went past its own check of the stop     *)
(* event before close() set it, and published its response after close()   *)
(* had looked for one to cancel.                                           *)
SlippedBy(c) ==
  /\ held[c].thread # None
  /\ held[c].response = None
  /\ pc[held[c].thread] \in {"opening?", "open!", "connected", "reading", "chunk",
                             "handling"}

(* What close() joins ends by itself, on a stream that never says another  *)
(* word too: cancelling the response is what ends the read.  The exception *)
(* is a worker that close() slipped by, which reads on until the stream    *)
(* speaks, and for which close() runs into its timeout.                    *)
CloseNeverBlocks ==
  \A c \in Closers : cpc[c] = "join" ~> (cpc[c] = "done" \/ SlippedBy(c))
=============================================================================
