---------------------- MODULE StreamingTransportProofs ----------------------
(***************************************************************************)
(* Proofs about StreamingTransport, for any number of callers, of calls of *)
(* connect() and of requests for a stream.                                 *)
(***************************************************************************)
EXTENDS StreamingTransport, FiniteSetTheorems, TLAPS

Slots == 0..MaxConnects

(* Where a call is: in the part connect() and close() share, or between it *)
(* and the new client, or after that.                                      *)
Closing == {"stop", "take heartbeat", "join heartbeat", "take client", "close client",
            "join client"}
Preparing == {"clear", "forget", "make"}
Starting == {"start", "heartbeat event", "heartbeat thread", "heartbeat start", "settle"}
Places == {"idle"} \cup Closing \cup Preparing \cup Starting

Calls == [pc: Places, op: {"connect", "close"}, thread: Slots, client: Slots, mine: Slots,
          result: {None, "raised", "returned"}]
ReadyStates == {"closed", "connecting", "open"}
WorkerPlaces == {"gone", "attempt", "request", "answered", "connected", "reading",
                 "handling", "refused", "release"}
BeaterPlaces == {"gone", "made", "waiting", "check", "post"}
Flags == BOOLEAN
Clients == [ready: ReadyStates, stop: Flags, worker: WorkerPlaces, beater: BeaterPlaces,
            hbStop: Flags, session: Nat]
Attributes == [client: Slots, settled: BOOLEAN, fatal: Slots, session: Nat, hbStop: Slots,
               hbThread: Slots]

TypeOK ==
  /\ closed \in BOOLEAN
  /\ raced \in BOOLEAN
  /\ made \in Slots
  /\ tr \in Attributes
  /\ conn \in [Slots -> Clients]
  /\ call \in [Threads -> Calls]

(* The transport's lock-free connect() is never entered twice.             *)
OneConnect == \A t, u \in Threads : Connecting(t) /\ Connecting(u) => t = u

(* There is a number left for the client it makes.                         *)
RoomToMake ==
  \A t \in Threads :
    Connecting(t) /\ call[t].pc \in Closing \cup Preparing => made < MaxConnects

(* Only connect() goes on after the part it shares with close().           *)
ConnectsOnly ==
  \A t \in Threads : call[t].pc \in Preparing \cup Starting => call[t].op = "connect"

(* Until the client is closed only connect() runs; afterwards, unless the  *)
(* close() raced one, only that close().                                   *)
ClosedOnce ==
  /\ ~closed => ~raced /\ \A t \in Threads : ~Idle(t) => call[t].op = "connect"
  /\ closed /\ ~raced => \A t \in Threads : ~Idle(t) => call[t].op = "close"

CallInv == TypeOK /\ OneConnect /\ RoomToMake /\ ConnectsOnly /\ ClosedOnce

-----------------------------------------------------------------------------
(* What the steps do to the records.                                       *)

(* Call t goes on to place l, and changes only that.                       *)
OnlyGoes(t, l) ==
  /\ call' \in [Threads -> Calls]
  /\ \A u \in Threads : u # t => call'[u] = call[u]
  /\ call'[t].pc = l
  /\ call'[t].op = call[t].op

LEMMA GotoFacts ==
  ASSUME TypeOK, NEW t \in Threads, NEW l \in Places, Goto(t, l)
  PROVE  /\ OnlyGoes(t, l)
         /\ call'[t].client = call[t].client /\ call'[t].mine = call[t].mine
<1>1. call \in [Threads -> Calls] /\ call' = [call EXCEPT ![t].pc = l]
  BY DEF TypeOK, Goto
<1>. QED
  BY <1>1 DEF Calls, OnlyGoes

LEMMA TakeHeartbeatFacts ==
  ASSUME TypeOK, NEW t \in Threads, TakeHeartbeat(t)
  PROVE  OnlyGoes(t, "join heartbeat")
<1>1. /\ call \in [Threads -> Calls] /\ tr.hbThread \in Slots
      /\ call' = [call EXCEPT ![t].pc = "join heartbeat", ![t].thread = tr.hbThread]
  BY DEF TypeOK, TakeHeartbeat, Attributes
<1>. QED
  BY <1>1, ZenonT(60) DEF Calls, OnlyGoes, Places, Closing

LEMMA TakeClientFacts ==
  ASSUME TypeOK, NEW t \in Threads, TakeClient(t)
  PROVE  OnlyGoes(t, "close client") /\ call'[t].client = tr.client
<1>1. /\ call \in [Threads -> Calls] /\ tr.client \in Slots
      /\ call' = [call EXCEPT ![t].pc = "close client", ![t].client = tr.client]
  BY DEF TypeOK, TakeClient, Attributes
<1>. QED
  BY <1>1, ZenonT(60) DEF Calls, OnlyGoes, Places, Closing

LEMMA JoinClientFacts ==
  ASSUME TypeOK, NEW t \in Threads, NEW timesOut \in BOOLEAN, JoinClient(t, timesOut)
  PROVE  OnlyGoes(t, AfterClose(t))
<1>1. /\ call \in [Threads -> Calls]
      /\ call' = [call EXCEPT ![t].pc = AfterClose(t), ![t].thread = 0, ![t].client = 0]
  BY DEF TypeOK, JoinClient
<1>2. 0 \in Slots
  BY StreamingAssumption DEF Slots
<1>3. AfterClose(t) \in Places
  BY DEF AfterClose, Places, Preparing
<1>. QED
  BY <1>1, <1>2, <1>3, ZenonT(60) DEF Calls, OnlyGoes

LEMMA MakeClientFacts ==
  ASSUME TypeOK, NEW t \in Threads, MakeClient(t), made < MaxConnects
  PROVE  OnlyGoes(t, "start") /\ call'[t].mine = made + 1 /\ made + 1 \in Slots
<1>1. /\ call \in [Threads -> Calls] /\ made \in Slots
      /\ call' = [call EXCEPT ![t].pc = "start", ![t].mine = made + 1]
  BY DEF TypeOK, MakeClient
<1>2. made + 1 \in Slots
  BY <1>1, StreamingAssumption DEF Slots
<1>. QED
  BY <1>1, <1>2, ZenonT(60) DEF Calls, OnlyGoes, Places, Starting

(* connect() has returned or raised.                                       *)
LEMMA EndFacts ==
  ASSUME TypeOK, NEW t \in Threads, NEW r \in {"raised", "returned"},
         call' = [call EXCEPT ![t].pc = "idle", ![t].result = r]
  PROVE  OnlyGoes(t, "idle")
<1>1. call \in [Threads -> Calls]
  BY DEF TypeOK
<1>. QED
  BY <1>1, ZenonT(60) DEF Calls, OnlyGoes, Places

LEMMA BeginsFacts ==
  ASSUME TypeOK, NEW t \in Threads, NEW op \in {"connect", "close"}, Begins(t, op)
  PROVE  /\ Idle(t) /\ ~closed
         /\ call' \in [Threads -> Calls]
         /\ \A u \in Threads : u # t => call'[u] = call[u]
         /\ call'[t].pc = "stop" /\ call'[t].op = op
<1>1. /\ call \in [Threads -> Calls]
      /\ call' = [call EXCEPT ![t].pc = "stop", ![t].op = op, ![t].result = None]
  BY DEF TypeOK, Begins
<1>2. "stop" \in Places
  BY DEF Places, Closing
<1>3. /\ call' \in [Threads -> Calls]
      /\ \A u \in Threads : u # t => call'[u] = call[u]
      /\ call'[t].pc = "stop" /\ call'[t].op = op
  BY <1>1, <1>2, ZenonT(60) DEF Calls
<1>. QED
  BY <1>3 DEF Begins

-----------------------------------------------------------------------------
(* The worker and the heartbeat thread of a connection.                    *)

(* No step of theirs, nor one that stops a thread, brings to life a stream *)
(* or a heartbeat.                                                         *)
NothingStarts ==
  /\ conn' \in [Slots -> Clients]
  /\ Streams' \subseteq Streams
  /\ Heartbeats' \subseteq Heartbeats
  /\ \A n \in Slots : conn'[n].beater = "made" => conn[n].beater = "made"

Background ==
  /\ NothingStarts
  /\ tr' \in Attributes
  /\ tr'.client = tr.client /\ tr'.hbStop = tr.hbStop /\ tr'.hbThread = tr.hbThread
  /\ UNCHANGED <<closed, raced, made, call>>

LEMMA SlotFacts ==
  /\ Connections \subseteq Slots /\ Connections \subseteq Threads /\ Callers \subseteq Threads
  /\ 0 \in Slots /\ 0 \notin Connections
BY StreamingAssumption DEF Connections, Slots, Threads

LEMMA WorkerFacts ==
  ASSUME TypeOK, NEW n \in Connections,
         WorkerRuns(n) \/ OnMessage(n) \/ StreamEnds(n)
  PROVE  Background
<1>0. n \in Slots /\ conn \in [Slots -> Clients] /\ tr \in Attributes
      /\ Connections \subseteq Slots
  BY SlotFacts DEF TypeOK
<1>1. ASSUME NEW from, NEW to, WorkerMoves(n, from, to), from # "gone",
             to \in WorkerPlaces
      PROVE  NothingStarts /\ UNCHANGED <<closed, raced, made, call>>
  <2>1. /\ conn[n].worker = from /\ conn' = [conn EXCEPT ![n].worker = to]
        /\ UNCHANGED <<closed, raced, made, call>>
    BY <1>1 DEF WorkerMoves
  <2>2. /\ conn' \in [Slots -> Clients]
        /\ \A m \in Slots : m # n => conn'[m] = conn[m]
        /\ conn'[n].worker = to /\ conn'[n].stop = conn[n].stop
        /\ conn'[n].beater = conn[n].beater /\ conn'[n].hbStop = conn[n].hbStop
    BY <1>0, <1>1, <2>1 DEF Clients
  <2>. QED
    BY <1>0, <1>1, <2>1, <2>2 DEF NothingStarts, Streams, Heartbeats
<1>2. ASSUME NEW from, NEW to, NEW ready, WorkerTurns(n, from, to, ready), from # "gone",
             to \in WorkerPlaces,
             ready \in ReadyStates
      PROVE  Background
  <2>0. /\ conn[n].worker = from /\ ~conn[n].stop
        /\ UNCHANGED <<closed, raced, made, tr, call>>
    BY <1>2 DEF WorkerTurns
  <2>1. conn' = [conn EXCEPT ![n].worker = to, ![n].ready = ready]
    BY <1>2 DEF WorkerTurns
  <2>2. /\ conn' \in [Slots -> Clients]
        /\ \A m \in Slots : m # n => conn'[m] = conn[m]
        /\ conn'[n].stop = conn[n].stop
        /\ conn'[n].beater = conn[n].beater /\ conn'[n].hbStop = conn[n].hbStop
    BY <1>0, <1>2, <2>1 DEF Clients
  <2>3. NothingStarts
    BY <1>0, <1>2, <2>0, <2>2 DEF NothingStarts, Streams, Heartbeats
  <2>. QED
    BY <1>0, <2>0, <2>3 DEF Background
<1>3. ASSUME NothingStarts, UNCHANGED <<closed, raced, made, call>>,
             \/ tr' = tr
             \/ tr' = [tr EXCEPT !.session = tr.session + 1]
             \/ tr' = [tr EXCEPT !.settled = TRUE]
             \/ tr' = [tr EXCEPT !.fatal = n]
      PROVE  Background
  <2> DEFINE Kept ==
        /\ tr' \in Attributes
        /\ tr'.client = tr.client /\ tr'.hbStop = tr.hbStop /\ tr'.hbThread = tr.hbThread
  <2>1. Kept
    <3>1. CASE tr' = tr
      BY <1>0, <3>1
    <3>2. CASE tr' = [tr EXCEPT !.session = tr.session + 1]
      BY <1>0, <3>2 DEF Attributes
    <3>3. CASE tr' = [tr EXCEPT !.settled = TRUE]
      BY <1>0, <3>3 DEF Attributes
    <3>4. CASE tr' = [tr EXCEPT !.fatal = n]
      BY <1>0, <3>4 DEF Attributes
    <3>. QED
      BY <1>3, <3>1, <3>2, <3>3, <3>4
  <2>. QED
    BY <1>3, <2>1 DEF Background
<1>4. ASSUME WorkerStops(n) \/ RequestEnds(n) \/ OnMessage(n) \/ OnBundleReturns(n)
      PROVE  Background
  BY <1>1, <1>3, <1>4 DEF WorkerPlaces, WorkerStops, RequestEnds, OnMessage, OnBundleReturns
<1>5. ASSUME BuildRequestBody(n) \/ OnConnect(n) \/ KeepFatal(n) PROVE Background
  BY <1>1, <1>3, <1>5 DEF WorkerPlaces, BuildRequestBody, OnConnect, KeepFatal
<1>6. ASSUME Answered(n) \/ StreamEnds(n) PROVE Background
  <2>1. conn[n].ready \in ReadyStates
    BY <1>0 DEF Clients
  <2>. QED
    BY <1>2, <1>6, <2>1 DEF WorkerPlaces, ReadyStates, Answered, StreamEnds
<1>7. ASSUME ReleaseConnect(n) PROVE Background
  <2>1. /\ conn' = [conn EXCEPT ![n].worker = "gone", ![n].ready = "closed",
                                ![n].stop = TRUE]
        /\ tr' = [tr EXCEPT !.settled = TRUE]
        /\ UNCHANGED <<closed, raced, made, call>>
    BY <1>7 DEF ReleaseConnect
  <2>2. /\ conn' \in [Slots -> Clients]
        /\ \A m \in Slots : m # n => conn'[m] = conn[m]
        /\ conn'[n].stop = TRUE
        /\ conn'[n].beater = conn[n].beater /\ conn'[n].hbStop = conn[n].hbStop
    <3>1. "gone" \in WorkerPlaces /\ "closed" \in ReadyStates /\ TRUE \in Flags
      BY DEF WorkerPlaces, ReadyStates, Flags
    <3>. QED
      BY <1>0, <2>1, <3>1 DEF Clients
  <2>3. NothingStarts
    BY <1>0, <2>2 DEF NothingStarts, Streams, Heartbeats
  <2>4. tr' = [tr EXCEPT !.settled = TRUE] /\ UNCHANGED <<closed, raced, made, call>>
    BY <2>1
  <2>. QED
    BY <1>3, <2>3, <2>4
<1>. QED
  BY <1>4, <1>5, <1>6, <1>7 DEF WorkerRuns

LEMMA BeaterFacts ==
  ASSUME TypeOK, NEW n \in Connections, HeartbeatRuns(n)
  PROVE  Background
<1>0. n \in Slots /\ conn \in [Slots -> Clients] /\ tr \in Attributes
      /\ Connections \subseteq Slots
  BY SlotFacts DEF TypeOK
<1>1. ASSUME NEW to \in BeaterPlaces \ {"made"}, NEW s \in Nat,
             conn' = [conn EXCEPT ![n].beater = to, ![n].session = s],
             conn[n].beater \in {"waiting", "check", "post"},
             UNCHANGED <<closed, raced, made, tr, call>>
      PROVE  Background
  <2>1. /\ conn' \in [Slots -> Clients]
        /\ \A m \in Slots : m # n => conn'[m] = conn[m]
        /\ conn'[n].worker = conn[n].worker /\ conn'[n].stop = conn[n].stop
        /\ conn'[n].beater = to /\ conn'[n].hbStop = conn[n].hbStop
    BY <1>0, <1>1 DEF Clients
  <2>2. NothingStarts
    BY <1>0, <1>1, <2>1 DEF NothingStarts, Streams, Heartbeats
  <2>3. tr' = tr /\ UNCHANGED <<closed, raced, made, call>>
    BY <1>1
  <2>. QED
    BY <1>0, <2>2, <2>3 DEF Background
<1>2. CASE HeartbeatStops(n) \/ HeartbeatPosted(n)
  BY <1>1, <1>2 DEF BeaterPlaces, HeartbeatStops, HeartbeatPosted, BeaterMoves
<1>3. CASE HeartbeatChecks(n)
  BY <1>1, <1>3 DEF BeaterPlaces, HeartbeatChecks, BeaterMoves
<1>4. CASE HeartbeatReads(n)
  <2>1. tr.session \in Nat
    BY <1>0 DEF Attributes
  <2>. QED
    BY <1>1, <1>4, <2>1 DEF BeaterPlaces, HeartbeatReads
<1>. QED
  BY <1>2, <1>3, <1>4 DEF HeartbeatRuns

-----------------------------------------------------------------------------
(* What the steps of a call do to the connections.                         *)

LEMMA SameRunning ==
  ASSUME conn' = conn
  PROVE  Streams' = Streams /\ Heartbeats' = Heartbeats
BY DEF Streams, Heartbeats

(* Setting a stop event ends the heartbeat that waits for it.              *)
LEMMA StopHeartbeatFacts ==
  ASSUME TypeOK, NEW h \in Slots, conn' = [conn EXCEPT ![h].hbStop = TRUE]
  PROVE  NothingStarts /\ Heartbeats' \subseteq Heartbeats \ {h}
<1>0. conn \in [Slots -> Clients] /\ Connections \subseteq Slots /\ TRUE \in Flags
  BY SlotFacts DEF TypeOK, Flags
<1>1. /\ conn' \in [Slots -> Clients]
      /\ \A m \in Slots : m # h => conn'[m] = conn[m]
      /\ conn'[h].stop = conn[h].stop /\ conn'[h].worker = conn[h].worker
      /\ conn'[h].beater = conn[h].beater /\ conn'[h].hbStop = TRUE
  BY <1>0 DEF Clients
<1>. QED
  BY <1>0, <1>1 DEF NothingStarts, Streams, Heartbeats

(* Closing an event source client ends its stream.                         *)
LEMMA CloseClientFacts ==
  ASSUME TypeOK, NEW c \in Slots,
         conn' = [conn EXCEPT ![c].ready = "closed", ![c].stop = TRUE]
  PROVE  NothingStarts /\ Streams' \subseteq Streams \ {c}
<1>0. conn \in [Slots -> Clients] /\ Connections \subseteq Slots /\ TRUE \in Flags
      /\ "closed" \in ReadyStates
  BY SlotFacts DEF TypeOK, Flags, ReadyStates
<1>1. /\ conn' \in [Slots -> Clients]
      /\ \A m \in Slots : m # c => conn'[m] = conn[m]
      /\ conn'[c].stop = TRUE
      /\ conn'[c].beater = conn[c].beater /\ conn'[c].hbStop = conn[c].hbStop
  BY <1>0 DEF Clients
<1>. QED
  BY <1>0, <1>1 DEF NothingStarts, Streams, Heartbeats

(* Starting one brings to life no stream but its own.                      *)
LEMMA StartClientFacts ==
  ASSUME TypeOK, NEW c \in Slots,
         conn' = [conn EXCEPT ![c].ready = "connecting", ![c].stop = FALSE,
                              ![c].worker = "attempt"]
  PROVE  /\ conn' \in [Slots -> Clients]
         /\ Streams' \subseteq Streams \cup {c}
         /\ Heartbeats' \subseteq Heartbeats
         /\ \A n \in Slots : conn'[n].beater = "made" => conn[n].beater = "made"
<1>0. conn \in [Slots -> Clients] /\ Connections \subseteq Slots /\ FALSE \in Flags
      /\ "connecting" \in ReadyStates /\ "attempt" \in WorkerPlaces
  BY SlotFacts DEF TypeOK, Flags, ReadyStates, WorkerPlaces
<1>1. /\ conn' \in [Slots -> Clients]
      /\ \A m \in Slots : m # c => conn'[m] = conn[m]
      /\ conn'[c].beater = conn[c].beater /\ conn'[c].hbStop = conn[c].hbStop
  BY <1>0 DEF Clients
<1>. QED
  BY <1>0, <1>1 DEF Streams, Heartbeats

(* A heartbeat thread is made, or started: no stream is concerned, and no  *)
(* other heartbeat.                                                        *)
LEMMA BeaterSetFacts ==
  ASSUME TypeOK, NEW h \in Slots, NEW b \in {"made", "waiting"},
         conn' = [conn EXCEPT ![h].beater = b]
  PROVE  /\ conn' \in [Slots -> Clients]
         /\ Streams' = Streams
         /\ b = "made" => Heartbeats' \subseteq Heartbeats
         /\ Heartbeats' \subseteq Heartbeats \cup {h}
         /\ \A n \in Slots : n # h => conn'[n].beater = conn[n].beater
         /\ conn'[h].beater = b
<1>0. conn \in [Slots -> Clients] /\ Connections \subseteq Slots /\ b \in BeaterPlaces
  BY SlotFacts DEF TypeOK, BeaterPlaces
<1>1. /\ conn' \in [Slots -> Clients]
      /\ \A m \in Slots : m # h => conn'[m] = conn[m]
      /\ conn'[h].stop = conn[h].stop /\ conn'[h].worker = conn[h].worker
      /\ conn'[h].beater = b
  BY <1>0 DEF Clients
<1>. QED
  BY <1>0, <1>1 DEF Streams, Heartbeats

-----------------------------------------------------------------------------
(* The inductive invariant behind NothingLeftRunning.  As long as close()  *)
(* has not raced a connect() there is one call at a time, and where it is  *)
(* tells which stream and which heartbeat may be running.                  *)

OneCall == \A t, u \in Threads : ~Idle(t) /\ ~Idle(u) => t = u

(* A thread that is made and not started is the one its connect() starts.  *)
MakeStarts ==
  \A n \in Slots :
    conn[n].beater = "made"
      => \E t \in Threads : At(t, "heartbeat start") /\ call[t].mine = n

Phase(t) ==
  LET pc == call[t].pc IN
  /\ pc \in {"stop", "take heartbeat", "join heartbeat", "take client", "heartbeat event",
             "heartbeat thread", "heartbeat start", "settle"}
       => Streams \subseteq {tr.client}
  /\ pc = "close client" => Streams \subseteq {call[t].client}
  /\ pc \in {"join client", "clear", "forget", "make", "start"} => Streams = {}
  /\ pc = "start" => tr.client = call[t].mine
  /\ pc \in Starting => call[t].mine # 0
  /\ pc \in {"stop", "settle"} => Heartbeats \subseteq {tr.hbStop}
  /\ pc \notin {"idle", "stop", "settle"} => Heartbeats = {}
  /\ pc \in {"heartbeat thread", "heartbeat start"} => tr.hbStop = call[t].mine
  /\ pc = "heartbeat start" => tr.hbThread = call[t].mine

Rest ==
  (\A t \in Threads : Idle(t))
    => /\ Streams \subseteq {tr.client}
       /\ Heartbeats \subseteq {tr.hbStop}
       /\ closed => Streams = {} /\ Heartbeats = {}

RunInv == ~raced => OneCall /\ MakeStarts /\ (\A t \in Threads : Phase(t)) /\ Rest

RunningInv == CallInv /\ RunInv

-----------------------------------------------------------------------------
(* A step of a call from one place to another.                             *)

LEMMA CallGoesOn ==
  ASSUME CallInv, NEW t \in Threads, NEW l, OnlyGoes(t, l), ~Idle(t),
         l \in Closing \cup Preparing => call[t].pc \in Closing \cup Preparing,
         l \in Preparing \cup Starting => call[t].op = "connect",
         closed' = closed, raced' = raced,
         \/ made' = made
         \/ l = "start" /\ made' \in Slots,
         tr' \in Attributes, conn' \in [Slots -> Clients]
  PROVE  CallInv'
<1>1. /\ \A u \in Threads : u # t => call'[u] = call[u]
      /\ call'[t].pc = l /\ call'[t].op = call[t].op /\ call[t].pc # "idle"
  BY DEF OnlyGoes, Idle, At
<1>2. TypeOK'
  BY DEF CallInv, TypeOK, OnlyGoes
<1>3. OneConnect'
  BY <1>1 DEF CallInv, OneConnect, Connecting, Idle, At
<1>4. ConnectsOnly'
  BY <1>1 DEF CallInv, ConnectsOnly
<1>5. ClosedOnce'
  BY <1>1 DEF CallInv, ClosedOnce, Idle, At
<1>6. RoomToMake'
  <2>1. CASE made' = made
    BY <1>1, <2>1 DEF CallInv, RoomToMake, Connecting, Idle, At
  <2>2. CASE l = "start"
    <3>1. Connecting(t) /\ \A u \in Threads : u # t => ~Connecting(u)
      BY <2>2, <1>1 DEF Starting, CallInv, OneConnect, Connecting
    <3>2. l \notin Closing \cup Preparing
      BY <2>2 DEF Closing, Preparing
    <3>. QED
      BY <1>1, <3>1, <3>2 DEF RoomToMake, Connecting, Idle, At
  <2>. QED
    BY <2>1, <2>2
<1>. QED
  BY <1>2, <1>3, <1>4, <1>5, <1>6 DEF CallInv

LEMMA StillRunning ==
  ASSUME RunInv, NEW t \in Threads, NEW l, OnlyGoes(t, l), ~Idle(t), l # "idle",
         raced' = raced, ~raced => Phase(t)' /\ MakeStarts'
  PROVE  RunInv'
<1>. SUFFICES ASSUME ~raced PROVE OneCall' /\ (\A u \in Threads : Phase(u)') /\ Rest'
  BY DEF RunInv
<1>1. /\ \A u \in Threads : u # t => call'[u] = call[u] /\ call'[u].pc = "idle"
      /\ call'[t].pc = l
  BY DEF OnlyGoes, RunInv, OneCall, Idle, At
<1>2. OneCall'
  BY <1>1 DEF OneCall, Idle, At
<1>3. ASSUME NEW u \in Threads PROVE Phase(u)'
  <2>1. CASE u = t
    BY <2>1
  <2>2. CASE u # t
    BY <1>1, <2>2 DEF Phase, Starting
  <2>. QED
    BY <2>1, <2>2
<1>4. Rest'
  BY <1>1 DEF Rest, Idle, At
<1>. QED
  BY <1>2, <1>3, <1>4

LEMMA Finished ==
  ASSUME RunInv, NEW t \in Threads, OnlyGoes(t, "idle"), ~Idle(t),
         raced' = raced, ~raced => MakeStarts' /\ Rest'
  PROVE  RunInv'
<1>. SUFFICES ASSUME ~raced PROVE OneCall' /\ (\A u \in Threads : Phase(u)')
  BY DEF RunInv
<1>1. \A u \in Threads : call'[u].pc = "idle"
  BY DEF OnlyGoes, RunInv, OneCall, Idle, At
<1>. QED
  BY <1>1 DEF OneCall, Phase, Starting, Idle, At

(* A heartbeat thread not started yet is that of the call in progress.     *)
LEMMA NoneMade ==
  ASSUME RunInv, ~raced, NEW t \in Threads, ~Idle(t), call[t].pc # "heartbeat start"
  PROVE  \A n \in Slots : conn[n].beater # "made"
BY DEF RunInv, MakeStarts, OneCall, Idle, At

LEMMA NoneMadeNext ==
  ASSUME \A n \in Slots : conn[n].beater # "made",
         \A n \in Slots : conn'[n].beater = "made" => conn[n].beater = "made"
  PROVE  MakeStarts'
BY DEF MakeStarts

-----------------------------------------------------------------------------
(* The steps of close().                                                   *)

LEMMA StopHeartbeatStep ==
  ASSUME RunningInv, NEW t \in Threads, StopHeartbeat(t)
  PROVE  RunningInv'
<1>1. /\ TypeOK /\ CallInv /\ RunInv /\ call[t].pc = "stop" /\ ~Idle(t)
      /\ Goto(t, "take heartbeat")
      /\ conn' = [conn EXCEPT ![tr.hbStop].hbStop = TRUE]
      /\ closed' = closed /\ raced' = raced /\ made' = made /\ tr' = tr
  BY DEF RunningInv, CallInv, StopHeartbeat, Moves, At, Idle
<1>2. tr \in Attributes /\ tr.hbStop \in Slots
  BY <1>1 DEF TypeOK, Attributes
<1>3. OnlyGoes(t, "take heartbeat")
  BY <1>1, GotoFacts DEF Places, Closing
<1>4. NothingStarts /\ Heartbeats' \subseteq Heartbeats \ {tr.hbStop}
  BY <1>1, <1>2, StopHeartbeatFacts
<1>5. CallInv'
  <2>1. "take heartbeat" \notin Preparing \cup Starting /\ "stop" \in Closing
    BY DEF Preparing, Starting, Closing
  <2>. QED
    BY <1>1, <1>2, <1>3, <1>4, <2>1, CallGoesOn DEF NothingStarts
<1>6. ASSUME ~raced PROVE Phase(t)' /\ MakeStarts'
  <2>1. Streams \subseteq {tr.client} /\ Heartbeats \subseteq {tr.hbStop}
    BY <1>1, <1>6 DEF RunInv, Phase
  <2>2. Streams' \subseteq {tr'.client} /\ Heartbeats' = {}
    BY <1>1, <1>4, <2>1 DEF NothingStarts
  <2>3. call'[t].pc = "take heartbeat"
    BY <1>3 DEF OnlyGoes
  <2>4. Phase(t)'
    BY <2>2, <2>3 DEF Phase, Starting
  <2>5. MakeStarts'
    BY <1>1, <1>4, <1>6, NoneMade, NoneMadeNext DEF NothingStarts
  <2>. QED
    BY <2>4, <2>5
<1>. QED
  BY <1>1, <1>3, <1>5, <1>6, StillRunning DEF RunningInv

LEMMA TakeHeartbeatStep ==
  ASSUME RunningInv, NEW t \in Threads, TakeHeartbeat(t)
  PROVE  RunningInv'
<1>1. /\ TypeOK /\ CallInv /\ RunInv /\ call[t].pc = "take heartbeat" /\ ~Idle(t)
      /\ tr' = [tr EXCEPT !.hbThread = 0]
      /\ closed' = closed /\ raced' = raced /\ made' = made /\ conn' = conn
  BY DEF RunningInv, CallInv, TakeHeartbeat, At, Idle
<1>2. tr' \in Attributes /\ tr'.client = tr.client /\ conn' \in [Slots -> Clients]
  BY <1>1, SlotFacts DEF TypeOK, Attributes
<1>3. OnlyGoes(t, "join heartbeat")
  BY <1>1, TakeHeartbeatFacts
<1>5. CallInv'
  <2>1. "join heartbeat" \notin Preparing \cup Starting /\ "take heartbeat" \in Closing
    BY DEF Preparing, Starting, Closing
  <2>. QED
    BY <1>1, <1>2, <1>3, <2>1, CallGoesOn
<1>6. ASSUME ~raced PROVE Phase(t)' /\ MakeStarts'
  <2>1. Streams \subseteq {tr.client} /\ Heartbeats = {}
    BY <1>1, <1>6 DEF RunInv, Phase
  <2>2. Streams' \subseteq {tr'.client} /\ Heartbeats' = {}
    BY <1>1, <1>2, <2>1, SameRunning
  <2>3. call'[t].pc = "join heartbeat"
    BY <1>3 DEF OnlyGoes
  <2>4. Phase(t)'
    BY <2>2, <2>3 DEF Phase, Starting
  <2>5. MakeStarts'
    BY <1>1, <1>6, NoneMade, NoneMadeNext
  <2>. QED
    BY <2>4, <2>5
<1>. QED
  BY <1>1, <1>3, <1>5, <1>6, StillRunning DEF RunningInv

(* The join cannot raise while one call is made at a time.                 *)
LEMMA JoinHeartbeatStep ==
  ASSUME RunningInv, NEW t \in Threads,
         JoinHeartbeat(t) \/ JoinHeartbeatTimesOut(t) \/ JoinHeartbeatRaises(t)
  PROVE  RunningInv'
<1>1. /\ TypeOK /\ CallInv /\ RunInv /\ call[t].pc = "join heartbeat" /\ ~Idle(t)
      /\ closed' = closed /\ raced' = raced /\ made' = made /\ tr' = tr /\ conn' = conn
  BY DEF RunningInv, CallInv, JoinHeartbeat, JoinHeartbeatTimesOut, JoinHeartbeatRaises,
         Moves, At, Idle
<1>2. tr' \in Attributes /\ conn' \in [Slots -> Clients] /\ call[t].thread \in Slots
  BY <1>1 DEF TypeOK, Calls
<1>3. CASE JoinHeartbeatRaises(t)
  <2>1. OnlyGoes(t, "idle") /\ conn[call[t].thread].beater = "made"
    BY <1>1, <1>3, GotoFacts DEF Places, JoinHeartbeatRaises, Moves
  <2>2. CallInv'
    <3>1. "idle" \notin Closing \cup Preparing \cup Starting
      BY DEF Preparing, Starting, Closing
    <3>. QED
      BY <1>1, <1>2, <2>1, <3>1, CallGoesOn
  <2>3. raced
    BY <1>1, <1>2, <2>1, NoneMade
  <2>. QED
    BY <1>1, <2>2, <2>3 DEF RunningInv, RunInv
<1>4. CASE JoinHeartbeat(t) \/ JoinHeartbeatTimesOut(t)
  <2>1. OnlyGoes(t, "take client")
    BY <1>1, <1>4, GotoFacts DEF Places, Closing, JoinHeartbeat, JoinHeartbeatTimesOut, Moves
  <2>2. CallInv'
    <3>1. "take client" \notin Preparing \cup Starting /\ "join heartbeat" \in Closing
      BY DEF Preparing, Starting, Closing
    <3>. QED
      BY <1>1, <1>2, <2>1, <3>1, CallGoesOn
  <2>3. ASSUME ~raced PROVE Phase(t)' /\ MakeStarts'
    <3>1. Streams \subseteq {tr.client} /\ Heartbeats = {}
      BY <1>1, <2>3 DEF RunInv, Phase
    <3>2. Streams' \subseteq {tr'.client} /\ Heartbeats' = {}
      BY <1>1, <3>1, SameRunning
    <3>3. call'[t].pc = "take client"
      BY <2>1 DEF OnlyGoes
    <3>4. Phase(t)'
      BY <3>2, <3>3 DEF Phase, Starting
    <3>5. MakeStarts'
      BY <1>1, <2>3, NoneMade, NoneMadeNext
    <3>. QED
      BY <3>4, <3>5
  <2>. QED
    BY <1>1, <2>1, <2>2, <2>3, StillRunning DEF RunningInv
<1>. QED
  BY <1>3, <1>4

LEMMA TakeClientStep ==
  ASSUME RunningInv, NEW t \in Threads, TakeClient(t)
  PROVE  RunningInv'
<1>1. /\ TypeOK /\ CallInv /\ RunInv /\ call[t].pc = "take client" /\ ~Idle(t)
      /\ tr' = [tr EXCEPT !.client = 0]
      /\ closed' = closed /\ raced' = raced /\ made' = made /\ conn' = conn
  BY DEF RunningInv, CallInv, TakeClient, At, Idle
<1>2. tr' \in Attributes /\ conn' \in [Slots -> Clients]
  BY <1>1, SlotFacts DEF TypeOK, Attributes
<1>3. OnlyGoes(t, "close client") /\ call'[t].client = tr.client
  BY <1>1, TakeClientFacts
<1>5. CallInv'
  <2>1. "close client" \notin Preparing \cup Starting /\ "take client" \in Closing
    BY DEF Preparing, Starting, Closing
  <2>. QED
    BY <1>1, <1>2, <1>3, <2>1, CallGoesOn
<1>6. ASSUME ~raced PROVE Phase(t)' /\ MakeStarts'
  <2>1. Streams \subseteq {tr.client} /\ Heartbeats = {}
    BY <1>1, <1>6 DEF RunInv, Phase
  <2>2. Streams' \subseteq {call'[t].client} /\ Heartbeats' = {}
    BY <1>1, <1>3, <2>1, SameRunning
  <2>3. call'[t].pc = "close client"
    BY <1>3 DEF OnlyGoes
  <2>4. Phase(t)'
    BY <2>2, <2>3 DEF Phase, Starting
  <2>5. MakeStarts'
    BY <1>1, <1>6, NoneMade, NoneMadeNext
  <2>. QED
    BY <2>4, <2>5
<1>. QED
  BY <1>1, <1>3, <1>5, <1>6, StillRunning DEF RunningInv

LEMMA CloseClientStep ==
  ASSUME RunningInv, NEW t \in Threads, CloseClient(t)
  PROVE  RunningInv'
<1>1. /\ TypeOK /\ CallInv /\ RunInv /\ call[t].pc = "close client" /\ ~Idle(t)
      /\ Goto(t, "join client")
      /\ closed' = closed /\ raced' = raced /\ made' = made /\ tr' = tr
  BY DEF RunningInv, CallInv, CloseClient, Moves, At, Idle
<1>0. conn' = [conn EXCEPT ![call[t].client].ready = "closed",
                           ![call[t].client].stop = TRUE]
  BY DEF CloseClient
<1>2. tr \in Attributes /\ call[t].client \in Slots
  BY <1>1 DEF TypeOK, Calls
<1>3. OnlyGoes(t, "join client")
  BY <1>1, GotoFacts DEF Places, Closing
<1>4. NothingStarts /\ Streams' \subseteq Streams \ {call[t].client}
  BY <1>0, <1>1, <1>2, CloseClientFacts
<1>5. CallInv'
  <2>1. "join client" \notin Preparing \cup Starting /\ "close client" \in Closing
    BY DEF Preparing, Starting, Closing
  <2>2. conn' \in [Slots -> Clients]
    BY <1>4 DEF NothingStarts
  <2>. QED
    BY <1>1, <1>2, <1>3, <2>1, <2>2, CallGoesOn
<1>6. ASSUME ~raced PROVE Phase(t)' /\ MakeStarts'
  <2>1. Streams \subseteq {call[t].client} /\ Heartbeats = {}
    BY <1>1, <1>6 DEF RunInv, Phase
  <2>2. Streams' = {} /\ Heartbeats' = {}
    BY <1>4, <2>1 DEF NothingStarts
  <2>3. call'[t].pc = "join client"
    BY <1>3 DEF OnlyGoes
  <2>4. Phase(t)'
    BY <2>2, <2>3 DEF Phase, Starting
  <2>5. MakeStarts'
    BY <1>1, <1>4, <1>6, NoneMade, NoneMadeNext DEF NothingStarts
  <2>. QED
    BY <2>4, <2>5
<1>. QED
  BY <1>1, <1>3, <1>5, <1>6, StillRunning DEF RunningInv

LEMMA JoinClientStep ==
  ASSUME RunningInv, NEW t \in Threads, NEW timesOut \in BOOLEAN, JoinClient(t, timesOut)
  PROVE  RunningInv'
<1>1. /\ TypeOK /\ CallInv /\ RunInv /\ call[t].pc = "join client" /\ ~Idle(t)
      /\ closed' = closed /\ raced' = raced /\ made' = made /\ tr' = tr /\ conn' = conn
  BY DEF RunningInv, CallInv, JoinClient, At, Idle
<1>2. tr' \in Attributes /\ conn' \in [Slots -> Clients]
  BY <1>1 DEF TypeOK
<1>3. OnlyGoes(t, AfterClose(t))
  BY <1>1, JoinClientFacts
<1>4. CASE call[t].op = "connect"
  <2>1. OnlyGoes(t, "clear")
    BY <1>3, <1>4 DEF AfterClose
  <2>2. CallInv'
    <3>1. "join client" \in Closing
      BY DEF Closing
    <3>. QED
      BY <1>1, <1>2, <1>4, <2>1, <3>1, CallGoesOn
  <2>3. ASSUME ~raced PROVE Phase(t)' /\ MakeStarts'
    <3>1. Streams = {} /\ Heartbeats = {}
      BY <1>1, <2>3 DEF RunInv, Phase
    <3>2. Streams' = {} /\ Heartbeats' = {}
      BY <1>1, <3>1, SameRunning
    <3>3. call'[t].pc = "clear"
      BY <2>1 DEF OnlyGoes
    <3>4. Phase(t)'
      BY <3>2, <3>3 DEF Phase, Starting
    <3>5. MakeStarts'
      BY <1>1, <2>3, NoneMade, NoneMadeNext
    <3>. QED
      BY <3>4, <3>5
  <2>. QED
    BY <1>1, <2>1, <2>2, <2>3, StillRunning DEF RunningInv
<1>5. CASE call[t].op # "connect"
  <2>1. OnlyGoes(t, "idle")
    BY <1>3, <1>5 DEF AfterClose
  <2>2. CallInv'
    <3>1. "idle" \notin Closing \cup Preparing \cup Starting
      BY DEF Preparing, Starting, Closing
    <3>. QED
      BY <1>1, <1>2, <2>1, <3>1, CallGoesOn
  <2>3. ASSUME ~raced PROVE MakeStarts' /\ Rest'
    <3>1. Streams = {} /\ Heartbeats = {}
      BY <1>1, <2>3 DEF RunInv, Phase
    <3>2. Streams' = {} /\ Heartbeats' = {}
      BY <1>1, <3>1, SameRunning
    <3>3. Rest'
      BY <3>2 DEF Rest
    <3>4. MakeStarts'
      BY <1>1, <2>3, NoneMade, NoneMadeNext
    <3>. QED
      BY <3>3, <3>4
  <2>. QED
    BY <1>1, <2>1, <2>2, <2>3, Finished DEF RunningInv
<1>. QED
  BY <1>4, <1>5

-----------------------------------------------------------------------------
(* The other steps of connect().                                           *)

LEMMA PrepareStep ==
  ASSUME RunningInv, NEW t \in Threads, ClearSettled(t) \/ ForgetFatal(t)
  PROVE  RunningInv'
<1>1. PICK from \in {"clear", "forget"}, l \in {"forget", "make"} :
        /\ call[t].pc = from /\ Goto(t, l)
        /\ tr' = [tr EXCEPT !.settled = FALSE] \/ tr' = [tr EXCEPT !.fatal = 0]
        /\ closed' = closed /\ raced' = raced /\ made' = made /\ conn' = conn
  BY DEF ClearSettled, ForgetFatal, Moves, At
<1>0. TypeOK /\ CallInv /\ RunInv /\ ~Idle(t)
  BY <1>1 DEF RunningInv, CallInv, At, Idle
<1>2. tr' \in Attributes /\ conn' \in [Slots -> Clients]
  BY <1>0, <1>1, SlotFacts DEF TypeOK, Attributes
<1>3. OnlyGoes(t, l)
  BY <1>0, <1>1, GotoFacts DEF Places, Preparing
<1>5. CallInv'
  <2>1. from \in Preparing /\ call[t].op = "connect"
    BY <1>0, <1>1 DEF Preparing, CallInv, ConnectsOnly
  <2>. QED
    BY <1>0, <1>1, <1>2, <1>3, <2>1, CallGoesOn
<1>6. ASSUME ~raced PROVE Phase(t)' /\ MakeStarts'
  <2>1. Streams = {} /\ Heartbeats = {}
    BY <1>0, <1>1, <1>6 DEF RunInv, Phase
  <2>2. Streams' = {} /\ Heartbeats' = {}
    BY <1>1, <2>1, SameRunning
  <2>3. call'[t].pc = l
    BY <1>3 DEF OnlyGoes
  <2>4. Phase(t)'
    BY <1>1, <2>2, <2>3 DEF Phase, Starting
  <2>5. MakeStarts'
    BY <1>0, <1>1, <1>6, NoneMade, NoneMadeNext
  <2>. QED
    BY <2>4, <2>5
<1>7. l # "idle"
  BY <1>1
<1>. QED
  BY <1>0, <1>1, <1>3, <1>5, <1>6, <1>7, StillRunning DEF RunningInv

LEMMA MakeClientStep ==
  ASSUME RunningInv, NEW t \in Threads, MakeClient(t)
  PROVE  RunningInv'
<1>1. /\ TypeOK /\ CallInv /\ RunInv /\ call[t].pc = "make" /\ ~Idle(t)
      /\ tr' = [tr EXCEPT !.client = made + 1] /\ made' = made + 1
      /\ closed' = closed /\ raced' = raced /\ conn' = conn
  BY DEF RunningInv, CallInv, MakeClient, At, Idle
<1>0. "make" \in Preparing /\ call[t].op = "connect" /\ made < MaxConnects
  BY <1>1 DEF Preparing, CallInv, ConnectsOnly, RoomToMake, Connecting
<1>3. OnlyGoes(t, "start") /\ call'[t].mine = made + 1 /\ made + 1 \in Slots
  BY <1>0, <1>1, MakeClientFacts
<1>2. tr' \in Attributes /\ conn' \in [Slots -> Clients] /\ tr'.client = made + 1
  BY <1>1, <1>3 DEF TypeOK, Attributes
<1>5. CallInv'
  <2>1. "start" \notin Closing \cup Preparing
    BY DEF Closing, Preparing
  <2>. QED
    BY <1>0, <1>1, <1>2, <1>3, <2>1, CallGoesOn
<1>6. ASSUME ~raced PROVE Phase(t)' /\ MakeStarts'
  <2>1. Streams = {} /\ Heartbeats = {}
    BY <1>1, <1>6 DEF RunInv, Phase
  <2>2. Streams' = {} /\ Heartbeats' = {}
    BY <1>1, <2>1, SameRunning
  <2>3. call'[t].pc = "start" /\ call'[t].mine = tr'.client
    BY <1>2, <1>3 DEF OnlyGoes
  <2>4. call'[t].mine # 0
    <3>1. made \in Nat
      BY <1>1, StreamingAssumption DEF TypeOK, Slots
    <3>. QED
      BY <1>3, <3>1
  <2>5. Phase(t)'
    BY <2>2, <2>3, <2>4 DEF Phase
  <2>6. MakeStarts'
    BY <1>1, <1>6, NoneMade, NoneMadeNext
  <2>. QED
    BY <2>5, <2>6
<1>. QED
  BY <1>1, <1>3, <1>5, <1>6, StillRunning DEF RunningInv

LEMMA StartClientStep ==
  ASSUME RunningInv, NEW t \in Threads, StartClient(t)
  PROVE  RunningInv'
<1>1. /\ TypeOK /\ CallInv /\ RunInv /\ call[t].pc = "start" /\ ~Idle(t)
      /\ Goto(t, "heartbeat event")
      /\ closed' = closed /\ raced' = raced /\ made' = made /\ tr' = tr
  BY DEF RunningInv, CallInv, StartClient, Moves, At, Idle
<1>0. conn' = [conn EXCEPT ![call[t].mine].ready = "connecting",
                           ![call[t].mine].stop = FALSE,
                           ![call[t].mine].worker = "attempt"]
  BY DEF StartClient
<1>2. tr' \in Attributes /\ call[t].mine \in Slots
  BY <1>1 DEF TypeOK, Calls
<1>3. OnlyGoes(t, "heartbeat event") /\ call'[t].mine = call[t].mine
  BY <1>1, GotoFacts DEF Places, Starting
<1>4. /\ conn' \in [Slots -> Clients]
      /\ Streams' \subseteq Streams \cup {call[t].mine}
      /\ Heartbeats' \subseteq Heartbeats
      /\ \A n \in Slots : conn'[n].beater = "made" => conn[n].beater = "made"
  BY <1>0, <1>1, <1>2, StartClientFacts
<1>5. CallInv'
  <2>1. /\ "heartbeat event" \notin Closing \cup Preparing
        /\ call[t].op = "connect"
    BY <1>1 DEF Closing, Preparing, Starting, CallInv, ConnectsOnly
  <2>. QED
    BY <1>1, <1>2, <1>3, <1>4, <2>1, CallGoesOn
<1>6. ASSUME ~raced PROVE Phase(t)' /\ MakeStarts'
  <2>1. Streams = {} /\ Heartbeats = {} /\ tr.client = call[t].mine /\ call[t].mine # 0
    BY <1>1, <1>6 DEF RunInv, Phase, Starting
  <2>2. Streams' \subseteq {tr'.client} /\ Heartbeats' = {}
    BY <1>1, <1>4, <2>1
  <2>3. call'[t].pc = "heartbeat event" /\ call'[t].mine # 0
    BY <1>3, <2>1 DEF OnlyGoes
  <2>4. Phase(t)'
    BY <2>2, <2>3 DEF Phase
  <2>5. MakeStarts'
    BY <1>1, <1>4, <1>6, NoneMade, NoneMadeNext
  <2>. QED
    BY <2>4, <2>5
<1>. QED
  BY <1>1, <1>3, <1>5, <1>6, StillRunning DEF RunningInv

LEMMA MakeHeartbeatStopStep ==
  ASSUME RunningInv, NEW t \in Threads, MakeHeartbeatStop(t)
  PROVE  RunningInv'
<1>1. /\ TypeOK /\ CallInv /\ RunInv /\ call[t].pc = "heartbeat event" /\ ~Idle(t)
      /\ Goto(t, "heartbeat thread") /\ tr' = [tr EXCEPT !.hbStop = call[t].mine]
      /\ closed' = closed /\ raced' = raced /\ made' = made /\ conn' = conn
  BY DEF RunningInv, CallInv, MakeHeartbeatStop, Moves, At, Idle
<1>0. tr \in Attributes /\ conn' \in [Slots -> Clients] /\ call[t].mine \in Slots
  BY <1>1 DEF TypeOK, Calls
<1>2. tr' \in Attributes /\ tr'.client = tr.client /\ tr'.hbStop = call[t].mine
  BY <1>0, <1>1 DEF Attributes
<1>3. OnlyGoes(t, "heartbeat thread") /\ call'[t].mine = call[t].mine
  BY <1>1, GotoFacts DEF Places, Starting
<1>5. CallInv'
  <2>1. /\ "heartbeat thread" \notin Closing \cup Preparing
        /\ call[t].op = "connect"
    BY <1>1 DEF Closing, Preparing, Starting, CallInv, ConnectsOnly
  <2>. QED
    BY <1>0, <1>1, <1>2, <1>3, <2>1, CallGoesOn
<1>6. ASSUME ~raced PROVE Phase(t)' /\ MakeStarts'
  <2>1. Streams \subseteq {tr.client} /\ Heartbeats = {} /\ call[t].mine # 0
    BY <1>1, <1>6 DEF RunInv, Phase, Starting
  <2>2. Streams' \subseteq {tr'.client} /\ Heartbeats' = {}
    BY <1>1, <1>2, <2>1, SameRunning
  <2>3. call'[t].pc = "heartbeat thread" /\ call'[t].mine # 0 /\ tr'.hbStop = call'[t].mine
    BY <1>2, <1>3, <2>1 DEF OnlyGoes
  <2>4. Phase(t)'
    BY <2>2, <2>3 DEF Phase
  <2>5. MakeStarts'
    BY <1>1, <1>6, NoneMade, NoneMadeNext
  <2>. QED
    BY <2>4, <2>5
<1>. QED
  BY <1>1, <1>3, <1>5, <1>6, StillRunning DEF RunningInv

LEMMA MakeHeartbeatStep ==
  ASSUME RunningInv, NEW t \in Threads, MakeHeartbeat(t)
  PROVE  RunningInv'
<1>1. /\ TypeOK /\ CallInv /\ RunInv /\ call[t].pc = "heartbeat thread" /\ ~Idle(t)
      /\ Goto(t, "heartbeat start") /\ tr' = [tr EXCEPT !.hbThread = call[t].mine]
      /\ conn' = [conn EXCEPT ![call[t].mine].beater = "made"]
      /\ closed' = closed /\ raced' = raced /\ made' = made
  BY DEF RunningInv, CallInv, MakeHeartbeat, Moves, At, Idle
<1>0. tr \in Attributes /\ call[t].mine \in Slots
  BY <1>1 DEF TypeOK, Calls
<1>2. /\ tr' \in Attributes /\ tr'.client = tr.client /\ tr'.hbStop = tr.hbStop
      /\ tr'.hbThread = call[t].mine
  BY <1>0, <1>1 DEF Attributes
<1>3. OnlyGoes(t, "heartbeat start") /\ call'[t].mine = call[t].mine
  BY <1>1, GotoFacts DEF Places, Starting
<1>4. /\ conn' \in [Slots -> Clients]
      /\ Streams' = Streams /\ Heartbeats' \subseteq Heartbeats
      /\ \A n \in Slots : n # call[t].mine => conn'[n].beater = conn[n].beater
  BY <1>0, <1>1, BeaterSetFacts
<1>5. CallInv'
  <2>1. /\ "heartbeat start" \notin Closing \cup Preparing
        /\ call[t].op = "connect"
    BY <1>1 DEF Closing, Preparing, Starting, CallInv, ConnectsOnly
  <2>. QED
    BY <1>1, <1>2, <1>3, <1>4, <2>1, CallGoesOn
<1>6. ASSUME ~raced PROVE Phase(t)' /\ MakeStarts'
  <2>1. /\ Streams \subseteq {tr.client} /\ Heartbeats = {} /\ call[t].mine # 0
        /\ tr.hbStop = call[t].mine
    BY <1>1, <1>6 DEF RunInv, Phase, Starting
  <2>2. Streams' \subseteq {tr'.client} /\ Heartbeats' = {}
    BY <1>2, <1>4, <2>1
  <2>3. /\ call'[t].pc = "heartbeat start" /\ call'[t].mine # 0
        /\ tr'.hbStop = call'[t].mine /\ tr'.hbThread = call'[t].mine
    BY <1>2, <1>3, <2>1 DEF OnlyGoes
  <2>4. Phase(t)'
    BY <2>2, <2>3 DEF Phase
  <2>5. \A n \in Slots : conn[n].beater # "made"
    BY <1>1, <1>6, NoneMade
  <2>6. MakeStarts'
    BY <1>3, <1>4, <2>3, <2>5 DEF MakeStarts, At
  <2>. QED
    BY <2>4, <2>6
<1>. QED
  BY <1>1, <1>3, <1>5, <1>6, StillRunning DEF RunningInv

(* While one call is made at a time the thread it starts is its own.       *)
LEMMA StartHeartbeatStep ==
  ASSUME RunningInv, NEW t \in Threads, StartHeartbeat(t)
  PROVE  RunningInv'
<1>1. /\ TypeOK /\ CallInv /\ RunInv /\ call[t].pc = "heartbeat start" /\ ~Idle(t)
      /\ closed' = closed /\ raced' = raced /\ made' = made /\ tr' = tr
  BY DEF RunningInv, CallInv, StartHeartbeat, At, Idle
<1>0. tr' \in Attributes /\ conn \in [Slots -> Clients] /\ tr.hbThread \in Slots
  BY <1>1 DEF TypeOK, Attributes
<1>2. call[t].op = "connect"
  BY <1>1 DEF Starting, CallInv, ConnectsOnly
<1>3. ASSUME ~raced
      PROVE  /\ Streams \subseteq {tr.client} /\ Heartbeats = {} /\ call[t].mine # 0
             /\ tr.hbStop = call[t].mine /\ tr.hbThread = call[t].mine
  BY <1>1, <1>3 DEF RunInv, Phase, Starting
<1>4. CASE tr.hbThread = 0
  <2>1. /\ call' = [call EXCEPT ![t].pc = "idle", ![t].result = "raised"]
        /\ conn' = conn
    BY <1>4 DEF StartHeartbeat
  <2>2. OnlyGoes(t, "idle")
    BY <1>1, <2>1, EndFacts
  <2>3. CallInv'
    <3>1. "idle" \notin Closing \cup Preparing \cup Starting
      BY DEF Preparing, Starting, Closing
    <3>2. conn' \in [Slots -> Clients]
      BY <1>0, <2>1
    <3>. QED
      BY <1>0, <1>1, <2>2, <3>1, <3>2, CallGoesOn
  <2>4. raced
    BY <1>3, <1>4
  <2>. QED
    BY <1>1, <2>3, <2>4 DEF RunningInv, RunInv
<1>5. CASE tr.hbThread # 0
  <2>1. conn' = [conn EXCEPT ![tr.hbThread].beater = "waiting"] /\ Goto(t, "settle")
    BY <1>5 DEF StartHeartbeat
  <2>2. OnlyGoes(t, "settle") /\ call'[t].mine = call[t].mine
    BY <1>1, <2>1, GotoFacts DEF Places, Starting
  <2>3. /\ conn' \in [Slots -> Clients]
        /\ Streams' = Streams /\ Heartbeats' \subseteq Heartbeats \cup {tr.hbThread}
        /\ \A n \in Slots : n # tr.hbThread => conn'[n].beater = conn[n].beater
        /\ conn'[tr.hbThread].beater = "waiting"
    BY <1>0, <1>1, <2>1, BeaterSetFacts
  <2>4. CallInv'
    <3>1. "settle" \notin Closing \cup Preparing
      BY DEF Closing, Preparing
    <3>. QED
      BY <1>0, <1>1, <1>2, <2>2, <2>3, <3>1, CallGoesOn
  <2>5. ASSUME ~raced PROVE Phase(t)' /\ MakeStarts'
    <3>1. Streams' \subseteq {tr'.client} /\ Heartbeats' \subseteq {tr'.hbStop}
      BY <1>1, <1>3, <2>3, <2>5
    <3>2. call'[t].pc = "settle" /\ call'[t].mine # 0
      BY <1>3, <2>2, <2>5 DEF OnlyGoes
    <3>3. Phase(t)'
      BY <3>1, <3>2 DEF Phase
    <3>4. \A n \in Slots : conn[n].beater = "made" => n = tr.hbThread
      BY <1>1, <1>3, <2>5 DEF RunInv, MakeStarts, OneCall, Idle, At
    <3>5. MakeStarts'
      BY <2>3, <3>4 DEF MakeStarts
    <3>. QED
      BY <3>3, <3>5
  <2>. QED
    BY <1>1, <2>2, <2>4, <2>5, StillRunning DEF RunningInv
<1>. QED
  BY <1>4, <1>5

LEMMA SettleStep ==
  ASSUME RunningInv, NEW t \in Threads, NEW timesOut \in BOOLEAN, Settle(t, timesOut)
  PROVE  RunningInv'
<1>1. /\ TypeOK /\ CallInv /\ RunInv /\ call[t].pc = "settle" /\ ~Idle(t)
      /\ closed' = closed /\ raced' = raced /\ made' = made /\ tr' = tr /\ conn' = conn
  BY DEF RunningInv, CallInv, Settle, At, Idle
<1>2. tr' \in Attributes /\ conn' \in [Slots -> Clients]
  BY <1>1 DEF TypeOK
<1>3. OnlyGoes(t, "idle")
  <2>1. PICK r \in {"raised", "returned"} :
          call' = [call EXCEPT ![t].pc = "idle", ![t].result = r]
    BY DEF Settle
  <2>. QED
    BY <1>1, <2>1, EndFacts
<1>4. CallInv'
  <2>1. "idle" \notin Closing \cup Preparing \cup Starting
    BY DEF Preparing, Starting, Closing
  <2>. QED
    BY <1>1, <1>2, <1>3, <2>1, CallGoesOn
<1>5. ASSUME ~raced PROVE MakeStarts' /\ Rest'
  <2>1. Streams \subseteq {tr.client} /\ Heartbeats \subseteq {tr.hbStop}
    BY <1>1, <1>5 DEF RunInv, Phase
  <2>2. call[t].op = "connect"
    BY <1>1 DEF Starting, CallInv, ConnectsOnly
  <2>3. ~closed
    BY <1>1, <1>5, <2>2 DEF CallInv, ClosedOnce
  <2>4. Rest'
    BY <1>1, <2>1, <2>3, SameRunning DEF Rest
  <2>5. MakeStarts'
    BY <1>1, <1>5, NoneMade, NoneMadeNext
  <2>. QED
    BY <2>4, <2>5
<1>. QED
  BY <1>1, <1>3, <1>4, <1>5, Finished DEF RunningInv

-----------------------------------------------------------------------------
(* A call begins; a thread of a connection runs.                           *)

(* Both begin only when no call is in progress, or close() races one.      *)
LEMMA BeginStep ==
  ASSUME RunningInv, NEW t \in Threads, Initialize(t) \/ ClientClose(t)
  PROVE  RunningInv'
<1>0. TypeOK /\ CallInv /\ RunInv /\ tr' = tr /\ conn' = conn /\ made' = made
  BY DEF RunningInv, CallInv, Initialize, ClientClose
<1>1. PICK op \in {"connect", "close"} :
        /\ Begins(t, op)
        /\ op = "connect" => /\ made < MaxConnects /\ closed' = closed /\ raced' = raced
                             /\ \A u \in Threads : ~Connecting(u)
        /\ op = "close" => closed' = TRUE /\ raced' = \E u \in Threads : Connecting(u)
  BY DEF Initialize, ClientClose
<1>2. /\ Idle(t) /\ ~closed /\ call' \in [Threads -> Calls]
      /\ \A u \in Threads : u # t => call'[u] = call[u]
      /\ call'[t].pc = "stop" /\ call'[t].op = op
  BY <1>0, <1>1, BeginsFacts
<1>3. ~raced /\ \A u \in Threads : ~Idle(u) => Connecting(u)
  BY <1>0, <1>2 DEF CallInv, ClosedOnce, Connecting
<1>4. CallInv'
  <2>1. TypeOK'
    BY <1>0, <1>1, <1>2 DEF TypeOK
  <2>2. OneConnect'
    BY <1>0, <1>1, <1>2 DEF CallInv, OneConnect, Connecting, Idle, At
  <2>3. RoomToMake'
    BY <1>0, <1>1, <1>2 DEF CallInv, RoomToMake, Connecting, Idle, At
  <2>4. ConnectsOnly'
    BY <1>0, <1>2 DEF CallInv, ConnectsOnly, Preparing, Starting
  <2>5. ClosedOnce'
    <3>1. CASE op = "connect"
      BY <1>1, <1>2, <1>3, <3>1 DEF ClosedOnce, Connecting, Idle, At
    <3>2. CASE op = "close"
      BY <1>1, <1>2, <1>3, <3>2 DEF ClosedOnce, Idle, At
    <3>. QED
      BY <3>1, <3>2
  <2>. QED
    BY <2>1, <2>2, <2>3, <2>4, <2>5 DEF CallInv
<1>5. ASSUME ~raced' PROVE OneCall' /\ MakeStarts' /\ (\A u \in Threads : Phase(u)') /\ Rest'
  <2>1. \A u \in Threads : Idle(u)
    BY <1>1, <1>3, <1>5
  <2>2. Streams \subseteq {tr.client} /\ Heartbeats \subseteq {tr.hbStop}
    BY <1>0, <1>3, <2>1 DEF RunInv, Rest
  <2>3. Streams' \subseteq {tr'.client} /\ Heartbeats' \subseteq {tr'.hbStop}
    BY <1>0, <2>2, SameRunning
  <2>4. \A u \in Threads : u # t => call'[u].pc = "idle"
    BY <1>2, <2>1 DEF Idle, At
  <2>5. OneCall'
    BY <2>4 DEF OneCall, Idle, At
  <2>6. MakeStarts'
    BY <1>0, <1>3, <2>1 DEF RunInv, MakeStarts, Idle, At
  <2>7. ASSUME NEW u \in Threads PROVE Phase(u)'
    <3>1. CASE u = t
      BY <1>2, <2>3, <3>1 DEF Phase, Starting
    <3>2. CASE u # t
      BY <2>4, <3>2 DEF Phase, Starting
    <3>. QED
      BY <3>1, <3>2
  <2>8. Rest'
    BY <1>2 DEF Rest, Idle, At
  <2>. QED
    BY <2>5, <2>6, <2>7, <2>8
<1>. QED
  BY <1>4, <1>5 DEF RunningInv, RunInv

LEMMA BackgroundStep ==
  ASSUME RunningInv, Background
  PROVE  RunningInv'
<1>1. /\ CallInv /\ RunInv /\ tr' \in Attributes /\ conn' \in [Slots -> Clients]
      /\ tr'.client = tr.client /\ tr'.hbStop = tr.hbStop /\ tr'.hbThread = tr.hbThread
      /\ closed' = closed /\ raced' = raced /\ made' = made /\ call' = call
      /\ Streams' \subseteq Streams /\ Heartbeats' \subseteq Heartbeats
      /\ \A n \in Slots : conn'[n].beater = "made" => conn[n].beater = "made"
  BY DEF RunningInv, Background, NothingStarts
<1>2. CallInv'
  BY <1>1 DEF CallInv, TypeOK, OneConnect, RoomToMake, ConnectsOnly, ClosedOnce,
              Connecting, Idle, At
<1>3. ASSUME ~raced PROVE OneCall' /\ MakeStarts' /\ (\A u \in Threads : Phase(u)') /\ Rest'
  <2>1. OneCall /\ MakeStarts /\ (\A u \in Threads : Phase(u)) /\ Rest
    BY <1>1, <1>3 DEF RunInv
  <2>2. OneCall' /\ MakeStarts'
    BY <1>1, <2>1 DEF OneCall, MakeStarts, Idle, At
  <2>3. ASSUME NEW u \in Threads PROVE Phase(u)'
    <3>1. Phase(u)
      BY <2>1
    <3>. QED
      BY <1>1, <3>1 DEF Phase
  <2>4. Rest'
    BY <1>1, <2>1 DEF Rest, Idle, At
  <2>. QED
    BY <2>2, <2>3, <2>4
<1>. QED
  BY <1>1, <1>2, <1>3 DEF RunningInv, RunInv

-----------------------------------------------------------------------------
LEMMA RunningInit ==
  Init => RunningInv
<1>. SUFFICES ASSUME Init PROVE RunningInv
  OBVIOUS
<1>1. \A t \in Threads : call[t].pc = "idle" /\ call[t].op = "close"
  BY DEF Init
<1>2. /\ \A n \in Slots : conn[n].worker = "gone" /\ conn[n].beater = "gone"
      /\ closed = FALSE /\ raced = FALSE
  BY DEF Init, Slots
<1>3. TypeOK
  <2>1. 0 \in Slots /\ 0 \in Nat /\ {TRUE, FALSE} \subseteq Flags
    BY SlotFacts DEF Flags
  <2>2. tr \in Attributes
    BY <2>1 DEF Init, Attributes
  <2>3. call \in [Threads -> Calls]
    BY <2>1 DEF Init, Calls, Places
  <2>4. conn \in [Slots -> Clients]
    <3>1. \A n \in Slots :
            [ready |-> "closed", stop |-> TRUE, worker |-> "gone", beater |-> "gone",
             hbStop |-> n = 0, session |-> 0] \in Clients
      BY <2>1 DEF Clients, ReadyStates, WorkerPlaces, BeaterPlaces, Flags
    <3>. QED
      BY <3>1 DEF Init, Slots
  <2>. QED
    BY <1>2, <2>1, <2>2, <2>3, <2>4 DEF Init, TypeOK
<1>4. CallInv
  BY <1>1, <1>2, <1>3 DEF CallInv, OneConnect, RoomToMake, ConnectsOnly, ClosedOnce,
                          Connecting, Idle, At, Preparing, Starting
<1>5. Streams = {} /\ Heartbeats = {}
  BY <1>2, SlotFacts DEF Streams, Heartbeats
<1>6. RunInv
  BY <1>1, <1>2, <1>5 DEF RunInv, OneCall, MakeStarts, Phase, Rest, Starting, Idle, At
<1>. QED
  BY <1>4, <1>6 DEF RunningInv

LEMMA RunningNext ==
  RunningInv /\ [Next]_vars => RunningInv'
<1>. SUFFICES ASSUME RunningInv, [Next]_vars PROVE RunningInv'
  OBVIOUS
<1>0. TypeOK
  BY DEF RunningInv, CallInv
<1>1. ASSUME NEW t \in Threads, CallProceeds(t) \/ TimesOut(t) PROVE RunningInv'
  <2>1. CASE StopHeartbeat(t)
    BY <2>1, StopHeartbeatStep
  <2>2. CASE TakeHeartbeat(t)
    BY <2>2, TakeHeartbeatStep
  <2>3. CASE JoinHeartbeat(t) \/ JoinHeartbeatTimesOut(t) \/ JoinHeartbeatRaises(t)
    BY <2>3, JoinHeartbeatStep
  <2>4. CASE TakeClient(t)
    BY <2>4, TakeClientStep
  <2>5. CASE CloseClient(t)
    BY <2>5, CloseClientStep
  <2>6. CASE JoinClient(t, FALSE) \/ JoinClient(t, TRUE)
    BY <2>6, JoinClientStep
  <2>7. CASE ClearSettled(t) \/ ForgetFatal(t)
    BY <2>7, PrepareStep
  <2>8. CASE MakeClient(t)
    BY <2>8, MakeClientStep
  <2>9. CASE StartClient(t)
    BY <2>9, StartClientStep
  <2>10. CASE MakeHeartbeatStop(t)
    BY <2>10, MakeHeartbeatStopStep
  <2>11. CASE MakeHeartbeat(t)
    BY <2>11, MakeHeartbeatStep
  <2>12. CASE StartHeartbeat(t)
    BY <2>12, StartHeartbeatStep
  <2>13. CASE Settle(t, FALSE) \/ Settle(t, TRUE)
    BY <2>13, SettleStep
  <2>. QED
    BY <1>1, <2>1, <2>2, <2>3, <2>4, <2>5, <2>6, <2>7, <2>8, <2>9, <2>10, <2>11, <2>12,
       <2>13 DEF CallProceeds, TimesOut
<1>2. ASSUME NEW t \in Threads, Initialize(t) \/ ClientClose(t) PROVE RunningInv'
  BY <1>2, BeginStep
<1>3. ASSUME NEW n \in Connections,
             WorkerRuns(n) \/ OnMessage(n) \/ StreamEnds(n) \/ HeartbeatRuns(n)
      PROVE  RunningInv'
  BY <1>0, <1>3, WorkerFacts, BeaterFacts, BackgroundStep
<1>4. CASE UNCHANGED vars
  <2>1. Background
    BY <1>0, <1>4, SameRunning DEF Background, NothingStarts, TypeOK, vars
  <2>. QED
    BY <2>1, BackgroundStep
<1>. QED
  BY <1>1, <1>2, <1>3, <1>4, SlotFacts DEF Next

LEMMA RunningAlways == Spec => []RunningInv
BY RunningInit, RunningNext, PTL DEF Spec

(* TypeOK holds of every behaviour, whether or not close() races a         *)
(* connect(): what the transport's attributes may hold, where its calls    *)
(* and its threads may be.                                                 *)
THEOREM TypeCorrect == Spec => []TypeOK
<1>1. RunningInv => TypeOK
  BY DEF RunningInv, CallInv
<1>. QED
  BY <1>1, RunningAlways, PTL

(* NothingLeftRunning: however often and from whatever threads connect()   *)
(* is called, one after the other, it leaves at most one stream and one    *)
(* heartbeat running, and a close() that raced none of them leaves none.   *)
THEOREM NothingLeftBehind == Spec => []NothingLeftRunning
<1>1. RunningInv => NothingLeftRunning
  <2>. SUFFICES ASSUME RunningInv, ~raced
                PROVE  /\ Cardinality(Streams) <= 1
                       /\ Cardinality(Heartbeats) <= 1
                       /\ CloseIsOver => Streams = {} /\ Heartbeats = {}
    BY DEF NothingLeftRunning
  <2>0. OneCall /\ (\A t \in Threads : Phase(t)) /\ Rest /\ CallInv
    BY DEF RunningInv, RunInv
  <2>1. ASSUME NEW S, NEW x, S \subseteq {x} PROVE Cardinality(S) <= 1
    BY <2>1, FS_Singleton, FS_Subset, FS_EmptySet
  <2>2. (\E x : Streams \subseteq {x}) /\ (\E x : Heartbeats \subseteq {x})
    <3>1. CASE \A t \in Threads : Idle(t)
      BY <2>0, <3>1 DEF Rest
    <3>2. ASSUME NEW t \in Threads, ~Idle(t)
          PROVE  (\E x : Streams \subseteq {x}) /\ (\E x : Heartbeats \subseteq {x})
      <4>1. call[t].pc \in Closing \cup Preparing \cup Starting
        BY <2>0, <3>2 DEF CallInv, TypeOK, Calls, Places, Idle, At
      <4>2. Phase(t)
        BY <2>0
      <4>. QED
        BY <4>1, <4>2 DEF Phase, Closing, Preparing, Starting
    <3>. QED
      BY <3>1, <3>2
  <2>3. CloseIsOver => Streams = {} /\ Heartbeats = {}
    <3>1. CloseIsOver => closed /\ \A t \in Threads : Idle(t)
      BY <2>0 DEF CloseIsOver, CallInv, ClosedOnce
    <3>. QED
      BY <2>0, <3>1 DEF Rest
  <2>. QED
    BY <2>1, <2>2, <2>3
<1>. QED
  BY <1>1, RunningAlways, PTL
=============================================================================
