------------------------- MODULE StreamingTransport -------------------------
(***************************************************************************)
(* The streaming transport, configdirector/_transport/streaming.py:        *)
(* connect() and close(), which share attributes and no lock, the event    *)
(* source client each connect() makes, and the heartbeat thread it starts. *)
(*                                                                         *)
(* Every action is one access of an attribute other threads use, or one    *)
(* step between two.  Connection n is what the n-th connect() makes: an    *)
(* event source client, its worker, a heartbeat thread and its stop event. *)
(* Connection 0 stands for None and for the event __init__ makes: it is    *)
(* stopped, its threads are gone.  The event source client is detailed in  *)
(* EventSource.tla; here it is its ready state, its stop flag and what its *)
(* worker calls.  A session id is the number of the request it is made for.*)
(***************************************************************************)
EXTENDS Naturals, FiniteSets

CONSTANTS
  Callers,          \* threads that call initialize() and close()
  None,             \* no outcome of a connect() yet
  MaxConnects,      \* bound: calls of connect()
  MaxSessions       \* bound: requests for a stream

Connections == 1..MaxConnects
Threads == Callers \cup Connections   \* a worker may close, from a handler

ASSUME StreamingAssumption ==
  /\ Callers \cap (0..MaxConnects) = {}
  /\ MaxConnects \in Nat
  /\ MaxSessions \in Nat

VARIABLES
  closed,  \* the client's _closed
  raced,   \* history: close() was called while a connect() was in progress
  made,    \* connections made so far
  tr,      \* _client, _settled, _fatal_error, _session_id, _heartbeat_stop
           \* and _heartbeat_thread; the fatal error is its connection
  conn,    \* per connection: ready_state and stop event of the client, where
           \* its worker is, where its heartbeat thread is, that thread's stop
           \* event and the session id it has read
  call     \* per thread: where in connect() or close() it is, which of them,
           \* what close() took, the connection and outcome of connect()

vars == <<closed, raced, made, tr, conn, call>>

At(t, l) == call[t].pc = l
Goto(t, l) == call' = [call EXCEPT ![t].pc = l]
Moves(t, from, to) == At(t, from) /\ Goto(t, to)
Idle(t) == At(t, "idle")

Connecting(t) == ~Idle(t) /\ call[t].op = "connect"

IsConnected == conn[tr.client].ready = "open"

-----------------------------------------------------------------------------
(* initialize() and close() of the client reach connect() and close()      *)

Begins(t, op) ==
  /\ Idle(t) /\ ~closed
  /\ call' = [call EXCEPT ![t].pc = "stop", ![t].op = op, ![t].result = None]

(* One initialize() at a time: the transport has no lock.                  *)
Initialize(t) ==
  /\ made < MaxConnects
  /\ \A u \in Threads : ~Connecting(u)
  /\ Begins(t, "connect")
  /\ UNCHANGED <<closed, raced, made, tr, conn>>

(* client.close(), from outside or from a callback on the worker.          *)
ClientClose(t) ==
  /\ t \in Connections => conn[t].worker = "handling"
  /\ Begins(t, "close")
  /\ closed' = TRUE
  /\ raced' = \E u \in Threads : Connecting(u)
  /\ UNCHANGED <<made, tr, conn>>

-----------------------------------------------------------------------------
(* close(), which connect() begins with                                    *)

\* Mutant of StopHeartbeat: the event is not set.
StopHeartbeat_Not(t) ==
  /\ Moves(t, "stop", "take heartbeat")
  /\ UNCHANGED <<closed, raced, made, tr, conn>>

StopHeartbeat(t) ==
  /\ Moves(t, "stop", "take heartbeat")
  /\ conn' = [conn EXCEPT ![tr.hbStop].hbStop = TRUE]
  /\ UNCHANGED <<closed, raced, made, tr>>

TakeHeartbeat(t) ==
  /\ At(t, "take heartbeat")
  /\ call' = [call EXCEPT ![t].pc = "join heartbeat", ![t].thread = tr.hbThread]
  /\ tr' = [tr EXCEPT !.hbThread = 0]
  /\ UNCHANGED <<closed, raced, made, conn>>

(* The join ends with the thread, or after five seconds.                   *)
JoinHeartbeat(t) ==
  /\ conn[call[t].thread].beater = "gone"
  /\ Moves(t, "join heartbeat", "take client")
  /\ UNCHANGED <<closed, raced, made, tr, conn>>

JoinHeartbeatTimesOut(t) ==
  /\ conn[call[t].thread].beater \notin {"gone", "made"}
  /\ Moves(t, "join heartbeat", "take client")
  /\ UNCHANGED <<closed, raced, made, tr, conn>>

(* Joining a thread that was not started raises, which ends the call.      *)
JoinHeartbeatRaises(t) ==
  /\ conn[call[t].thread].beater = "made"
  /\ Moves(t, "join heartbeat", "idle")
  /\ UNCHANGED <<closed, raced, made, tr, conn>>

TakeClient(t) ==
  /\ At(t, "take client")
  /\ call' = [call EXCEPT ![t].pc = "close client", ![t].client = tr.client]
  /\ tr' = [tr EXCEPT !.client = 0]
  /\ UNCHANGED <<closed, raced, made, conn>>

CloseClient(t) ==
  /\ Moves(t, "close client", "join client")
  /\ conn' = [conn EXCEPT ![call[t].client].ready = "closed",
                          ![call[t].client].stop = TRUE]
  /\ UNCHANGED <<closed, raced, made, tr>>

AfterClose(t) == IF call[t].op = "connect" THEN "clear" ELSE "idle"

(* The worker is joined unless it is the caller, for five seconds at most. *)
JoinClient(t, timesOut) ==
  /\ timesOut # (call[t].client = t \/ conn[call[t].client].worker = "gone")
  /\ At(t, "join client")
  /\ call' = [call EXCEPT ![t].pc = AfterClose(t),
                          ![t].thread = 0, ![t].client = 0]
  /\ UNCHANGED <<closed, raced, made, tr, conn>>

-----------------------------------------------------------------------------
(* The rest of connect()                                                   *)

ClearSettled(t) ==
  /\ Moves(t, "clear", "forget")
  /\ tr' = [tr EXCEPT !.settled = FALSE]
  /\ UNCHANGED <<closed, raced, made, conn>>

ForgetFatal(t) ==
  /\ Moves(t, "forget", "make")
  /\ tr' = [tr EXCEPT !.fatal = 0]
  /\ UNCHANGED <<closed, raced, made, conn>>

MakeClient(t) ==
  /\ At(t, "make")
  /\ made' = made + 1
  /\ tr' = [tr EXCEPT !.client = made + 1]
  /\ call' = [call EXCEPT ![t].pc = "start", ![t].mine = made + 1]
  /\ UNCHANGED <<closed, raced, conn>>

(* client.connect() makes a stop event of its own: one a close() has set   *)
(* already is forgotten.                                                   *)
StartClient(t) ==
  /\ Moves(t, "start", "heartbeat event")
  /\ conn' = [conn EXCEPT ![call[t].mine].ready = "connecting",
                          ![call[t].mine].stop = FALSE,
                          ![call[t].mine].worker = "attempt"]
  /\ UNCHANGED <<closed, raced, made, tr>>

(* _start_heartbeat: a new stop event, a new thread, and its start.        *)
MakeHeartbeatStop(t) ==
  /\ Moves(t, "heartbeat event", "heartbeat thread")
  /\ tr' = [tr EXCEPT !.hbStop = call[t].mine]
  /\ UNCHANGED <<closed, raced, made, conn>>

MakeHeartbeat(t) ==
  /\ Moves(t, "heartbeat thread", "heartbeat start")
  /\ tr' = [tr EXCEPT !.hbThread = call[t].mine]
  /\ conn' = [conn EXCEPT ![call[t].mine].beater = "made"]
  /\ UNCHANGED <<closed, raced, made>>

(* The attribute is read again: a close() that took the thread leaves None,*)
(* which cannot be started, and connect() raises.                          *)
StartHeartbeat(t) ==
  /\ At(t, "heartbeat start")
  /\ LET h == tr.hbThread IN
       IF h = 0
       THEN /\ call' = [call EXCEPT ![t].pc = "idle", ![t].result = "raised"]
            /\ UNCHANGED conn
       ELSE /\ conn' = [conn EXCEPT ![h].beater = "waiting"]
            /\ Goto(t, "settle")
  /\ UNCHANGED <<closed, raced, made, tr>>

(* _settled.wait(timeout), then the fatal error is raised, if there is one.*)
Settle(t, timesOut) ==
  /\ At(t, "settle")
  /\ tr.settled # timesOut
  /\ call' = [call EXCEPT ![t].pc = "idle",
                          ![t].result = IF tr.fatal # 0 THEN "raised" ELSE "returned"]
  /\ UNCHANGED <<closed, raced, made, tr, conn>>

-----------------------------------------------------------------------------
(* The worker of connection n, and the handlers the transport gives it     *)

WorkerMoves(n, from, to) ==
  /\ conn[n].worker = from
  /\ conn' = [conn EXCEPT ![n].worker = to]
  /\ UNCHANGED <<closed, raced, made, call>>

(* A stop that is noticed ends the worker.                                 *)
WorkerStops(n) ==
  /\ conn[n].stop
  /\ \E from \in {"attempt", "answered", "reading"} : WorkerMoves(n, from, "gone")
  /\ UNCHANGED tr

(* _build_request_body: every request is for a session of its own.         *)
BuildRequestBody(n) ==
  /\ ~conn[n].stop
  /\ tr.session < MaxSessions
  /\ tr' = [tr EXCEPT !.session = @ + 1]
  /\ WorkerMoves(n, "attempt", "request")

RequestEnds(n) == WorkerMoves(n, "request", "answered") /\ UNCHANGED tr

(* The worker moves on, and its client's ready state with it.              *)
WorkerTurns(n, from, to, ready) ==
  /\ conn[n].worker = from
  /\ ~conn[n].stop
  /\ conn' = [conn EXCEPT ![n].worker = to, ![n].ready = ready]
  /\ UNCHANGED <<closed, raced, made, tr, call>>

(* A stream; a failure to retry after; 204; a fatal status.                *)
Answered(n) ==
  \/ WorkerTurns(n, "answered", "connected", "open")
  \/ WorkerTurns(n, "answered", "attempt", "connecting")
  \/ WorkerTurns(n, "answered", "gone", "closed")
  \/ WorkerTurns(n, "answered", "refused", conn[n].ready)

OnConnect(n) ==
  /\ WorkerMoves(n, "connected", "reading")
  /\ tr' = [tr EXCEPT !.settled = TRUE]

(* _on_message: a bundle goes to the client, whose callbacks may close it. *)
(* What is not a bundle, or not readable, is skipped: nothing changes.     *)
OnMessage(n) ==
  /\ ~conn[n].stop
  /\ WorkerMoves(n, "reading", "handling")
  /\ UNCHANGED tr

OnBundleReturns(n) ==
  /\ Idle(n)
  /\ WorkerMoves(n, "handling", "reading")
  /\ UNCHANGED tr

(* The stream ends: _should_reconnect agrees, its status is not fatal.     *)
StreamEnds(n) == WorkerTurns(n, "reading", "attempt", "connecting")

(* _should_reconnect refuses: it keeps the error, then releases connect(). *)
KeepFatal(n) ==
  /\ WorkerMoves(n, "refused", "release")
  /\ tr' = [tr EXCEPT !.fatal = n]

\* Mutant of ReleaseConnect: the waiting connect() is not told.
ReleaseConnect_Not(n) ==
  /\ conn[n].worker = "release"
  /\ conn' = [conn EXCEPT ![n].worker = "gone", ![n].ready = "closed", ![n].stop = TRUE]
  /\ UNCHANGED <<closed, raced, made, tr, call>>

ReleaseConnect(n) ==
  /\ conn[n].worker = "release"
  /\ conn' = [conn EXCEPT ![n].worker = "gone", ![n].ready = "closed", ![n].stop = TRUE]
  /\ tr' = [tr EXCEPT !.settled = TRUE]
  /\ UNCHANGED <<closed, raced, made, call>>

-----------------------------------------------------------------------------
(* The heartbeat thread of connection n                                    *)

BeaterMoves(n, from, to) ==
  /\ conn[n].beater = from
  /\ conn' = [conn EXCEPT ![n].beater = to, ![n].session = 0]
  /\ UNCHANGED <<closed, raced, made, tr, call>>

HeartbeatStops(n) == conn[n].hbStop /\ BeaterMoves(n, "waiting", "gone")

(* The interval is over: the session id is read first, then it is asked    *)
(* whether there is a connection.                                          *)
HeartbeatReads(n) ==
  /\ conn[n].beater = "waiting" /\ ~conn[n].hbStop
  /\ conn' = [conn EXCEPT ![n].beater = "check", ![n].session = tr.session]
  /\ UNCHANGED <<closed, raced, made, tr, call>>

HeartbeatChecks(n) ==
  BeaterMoves(n, "check", IF IsConnected /\ conn[n].session # 0 THEN "post" ELSE "waiting")

\* Mutant of HeartbeatPosted: a heartbeat that fails ends the loop.
HeartbeatPosted_Ends(n) == BeaterMoves(n, "post", "waiting") \/ BeaterMoves(n, "post", "gone")

(* Whether the request failed or not, the loop goes on.                    *)
HeartbeatPosted(n) == BeaterMoves(n, "post", "waiting")

-----------------------------------------------------------------------------
Init ==
  /\ closed = FALSE
  /\ raced = FALSE
  /\ made = 0
  /\ tr = [client |-> 0, settled |-> FALSE, fatal |-> 0, session |-> 0,
           hbStop |-> 0, hbThread |-> 0]
  /\ conn = [n \in 0..MaxConnects |->
               [ready |-> "closed", stop |-> TRUE, worker |-> "gone",
                beater |-> "gone", hbStop |-> n = 0, session |-> 0]]
  /\ call = [t \in Threads |->
               [pc |-> "idle", op |-> "close", thread |-> 0, client |-> 0,
                mine |-> 0, result |-> None]]

CallProceeds(t) ==
  \/ StopHeartbeat(t) \/ TakeHeartbeat(t) \/ JoinHeartbeat(t) \/ JoinHeartbeatRaises(t)
  \/ TakeClient(t) \/ CloseClient(t) \/ JoinClient(t, FALSE)
  \/ ClearSettled(t) \/ ForgetFatal(t) \/ MakeClient(t) \/ StartClient(t)
  \/ MakeHeartbeatStop(t) \/ MakeHeartbeat(t) \/ StartHeartbeat(t)
  \/ Settle(t, FALSE)

TimesOut(t) == JoinHeartbeatTimesOut(t) \/ JoinClient(t, TRUE) \/ Settle(t, TRUE)

WorkerRuns(n) ==
  \/ WorkerStops(n) \/ BuildRequestBody(n) \/ RequestEnds(n) \/ Answered(n)
  \/ OnConnect(n) \/ OnBundleReturns(n) \/ KeepFatal(n) \/ ReleaseConnect(n)

HeartbeatRuns(n) ==
  HeartbeatStops(n) \/ HeartbeatReads(n) \/ HeartbeatChecks(n) \/ HeartbeatPosted(n)

Next ==
  \/ \E t \in Callers : Initialize(t)
  \/ \E t \in Threads : ClientClose(t) \/ CallProceeds(t) \/ TimesOut(t)
  \/ \E n \in Connections : WorkerRuns(n) \/ OnMessage(n) \/ StreamEnds(n)
                            \/ HeartbeatRuns(n)

(* Threads run, callbacks return, requests end and the heartbeat's         *)
(* interval elapses; no other timeout is relied on.                        *)
Spec ==
  /\ Init /\ [][Next]_vars
  /\ \A t \in Threads : WF_vars(CallProceeds(t))
  /\ \A n \in Connections : WF_vars(WorkerRuns(n)) /\ WF_vars(HeartbeatRuns(n))

-----------------------------------------------------------------------------
(* Properties                                                              *)

(* Streams and heartbeats that run and nobody has told to stop.            *)
Streams == {n \in Connections : conn[n].worker # "gone" /\ ~conn[n].stop}
Heartbeats == {n \in Connections : conn[n].beater \notin {"gone", "made"}
                                   /\ ~conn[n].hbStop}

CloseIsOver == closed /\ \A t \in Threads : call[t].op = "close" => Idle(t)

(* However often initialize() is called again, after a timeout or a fatal  *)
(* answer, connect() leaves at most one stream and one heartbeat running;  *)
(* once close() has returned, none is: unless it raced a connect().        *)
NothingLeftRunning ==
  ~raced => /\ Cardinality(Streams) <= 1
            /\ Cardinality(Heartbeats) <= 1
            /\ CloseIsOver => Streams = {} /\ Heartbeats = {}

(* The same of every close(): "Closes all connections", types.py:432 says. *)
NothingRunsAfterClose == CloseIsOver => Streams = {} /\ Heartbeats = {}

(* A connect() that waits while its stream is refused with a fatal status  *)
(* raises, without its timeout having to elapse.                           *)
FatalRaised ==
  \A t \in Callers :
    (At(t, "settle") /\ tr.fatal = call[t].mine) ~> call[t].result = "raised"

(* As long as the stream stays open heartbeats go on, whatever became of   *)
(* earlier ones: failed, or skipped while there was no connection.         *)
HeartbeatsGoOn ==
  <>[](IsConnected /\ ~raced /\ \A t \in Threads : Idle(t))
    => []<>(\E n \in Connections : conn[n].beater = "post")
=============================================================================
