-------------------------- MODULE PollingTransport --------------------------
(***************************************************************************)
(* The polling transport, configdirector/_transport/polling.py, with the   *)
(* slices of initialize(), close() and _on_bundle() that drive it: threads *)
(* that call initialize(), one that calls close(), and the polling threads *)
(* the transport starts.                                                   *)
(*                                                                         *)
(* Every action is one critical section of the transport's lock, or one    *)
(* step between two of them.  The server's configuration is abstracted to  *)
(* a history of edits 1..serverVer; a timestamp is the number of edits the *)
(* server had when it answered, 0 standing for None.  A client in polling  *)
(* mode has a positive interval (_resolve_polling_interval), so connect()  *)
(* always goes on to start a polling thread.                               *)
(***************************************************************************)
EXTENDS Naturals

CONSTANTS
  Initializers,      \* threads that call initialize()
  Closer,            \* the thread that calls close()
  Pollers,           \* threads _start_polling may create
  None,              \* Python's None: no thread
  Faults,            \* what may go wrong with a request, see Faulty
  MaxVer,            \* bound: edits on the server
  MaxInits           \* bound: calls of initialize() in a behaviour

ASSUME PollingAssumption ==
  /\ Initializers \cap Pollers = {}
  /\ Closer \notin Initializers \cup Pollers
  /\ None \notin Pollers
  /\ Faults \subseteq {"transient", "body", "fatal"}
  /\ MaxVer \in Nat \ {0}
  /\ MaxInits \in Nat

Threads == Initializers \cup {Closer} \cup Pollers

VARIABLES
  serverVer,    \* edits the server has
  ts,           \* _last_update_timestamp
  fatal,        \* _fatal
  stop,         \* _stop, one event shared by all polling threads
  thread,       \* _thread
  pc,           \* per thread: where it is
  since,        \* per thread: the timestamp its request carries
  bundle,       \* per thread: the bundle its response carried
  joining,      \* per thread: the thread close() took and joins
  clientClosed, \* the client's _closed
  served,       \* the edits reflected in the client's config state
  inits,        \* calls of initialize() so far
  overlapped,   \* history: two requests were between sending and handing over
  raced         \* history: the client was closed while initialize() ran

transportVars == <<ts, fatal, stop, thread>>
callVars == <<since, bundle, joining>>
clientVars == <<clientClosed, served>>
history == <<overlapped, raced>>
vars == <<serverVer, transportVars, pc, callVars, clientVars, inits, history>>

Bundle == [from: 0..MaxVer, to: 0..MaxVer, stamped: BOOLEAN]
NoBundle == [from |-> 0, to |-> 0, stamped |-> FALSE]

Alive(p) == pc[p] \notin {"unborn", "dead", "broken"}
Initializing(i) == pc[i] # "idle"
Requesting(t) == pc[t] \in {"waiting", "store", "apply"}
Races == raced' = (raced \/ \E i \in Initializers : Initializing(i))
Goto(t, l) == pc' = [pc EXCEPT ![t] = l]

(* Where a thread goes when _fetch() has returned or raised a              *)
(* ConfigDirectorConnectionError: back to its loop, or on to start one.    *)
AfterFetch(t) == IF t \in Initializers THEN "started?" ELSE "again?"

-----------------------------------------------------------------------------
(* initialize() and the polling loop                                       *)

(* initialize(): _raise_if_closed, then connect().                         *)
Initialize(i) ==
  /\ pc[i] = "idle"
  /\ inits < MaxInits
  /\ ~clientClosed
  /\ inits' = inits + 1
  /\ Goto(i, "fetch")
  /\ UNCHANGED <<serverVer, transportVars, callVars, clientVars, history>>

(* connect(), finally: polling starts unless the transport failed fatally. *)
MayStart(i) ==
  /\ pc[i] = "started?"
  /\ Goto(i, IF fatal THEN "idle" ELSE "start")
  /\ UNCHANGED <<serverVer, transportVars, callVars, clientVars, inits, history>>

(* _start_polling: nothing to do when there is a thread.                   *)
StartPollingAgain(i) ==
  /\ pc[i] = "start"
  /\ thread # None
  /\ Goto(i, "idle")
  /\ UNCHANGED <<serverVer, transportVars, callVars, clientVars, inits, history>>

StartPolling(i, p) ==
  /\ pc[i] = "start"
  /\ thread = None
  /\ pc[p] = "unborn"
  /\ stop' = FALSE
  /\ thread' = p
  /\ pc' = [pc EXCEPT ![i] = "idle", ![p] = "sleeping"]
  /\ UNCHANGED <<serverVer, ts, fatal, callVars, clientVars, inits, history>>

(* _poll: _stop.wait(interval) timed out or found the event set.           *)
Wake(p) ==
  /\ pc[p] = "sleeping"
  /\ Goto(p, IF stop THEN "dead" ELSE "fetch")
  /\ UNCHANGED <<serverVer, transportVars, callVars, clientVars, inits, history>>

\* Mutant of PollAgain: the loop does not look at _fatal.
PollAgain_Forever(p) ==
  /\ pc[p] = "again?"
  /\ Goto(p, "sleeping")
  /\ UNCHANGED <<serverVer, transportVars, callVars, clientVars, inits, history>>

(* _poll: the end of the loop's body.                                      *)
PollAgain(p) ==
  /\ pc[p] = "again?"
  /\ Goto(p, IF fatal THEN "dead" ELSE "sleeping")
  /\ UNCHANGED <<serverVer, transportVars, callVars, clientVars, inits, history>>

-----------------------------------------------------------------------------
(* _fetch by thread t                                                      *)

FetchBegins(t) ==
  /\ pc[t] = "fetch"
  /\ Goto(t, IF fatal THEN AfterFetch(t) ELSE "post")
  /\ UNCHANGED <<serverVer, transportVars, callVars, clientVars, inits, history>>

(* _post reads the timestamp under the lock and sends the request.         *)
Post(t) ==
  /\ pc[t] = "post"
  /\ since' = [since EXCEPT ![t] = ts]
  /\ overlapped' = (overlapped \/ \E u \in Threads : Requesting(u))
  /\ Goto(t, "waiting")
  /\ UNCHANGED <<serverVer, transportVars, bundle, joining, clientVars, inits, raced>>

(* 204: the server has nothing newer.                                      *)
NothingNewer(t) ==
  /\ pc[t] = "waiting"
  /\ since[t] = serverVer
  /\ since' = [since EXCEPT ![t] = 0]
  /\ Goto(t, AfterFetch(t))
  /\ UNCHANGED <<serverVer, transportVars, bundle, joining, clientVars, inits, history>>

(* 200: a full bundle, or a delta of the edits since the timestamp.  A     *)
(* bundle need not carry a timestamp.                                      *)
Answer(t, from, stamped) ==
  /\ pc[t] = "waiting"
  /\ from \in {0, since[t]}
  /\ since[t] # serverVer
  /\ bundle' = [bundle EXCEPT ![t] = [from |-> from, to |-> serverVer,
                                      stamped |-> stamped]]
  /\ since' = [since EXCEPT ![t] = 0]
  /\ Goto(t, "store")
  /\ UNCHANGED <<serverVer, transportVars, joining, clientVars, inits, history>>

\* Mutant of Faulty: every failure ends the polling thread.
Faulty_EndsPolling(t, fault) ==
  /\ pc[t] = "waiting"
  /\ fault \in Faults
  /\ since' = [since EXCEPT ![t] = 0]
  /\ Goto(t, IF t \in Pollers THEN "dead" ELSE AfterFetch(t))
  /\ UNCHANGED <<serverVer, transportVars, bundle, joining, clientVars, inits, history>>

\* Mutant of Faulty: the timestamp of a response that is then found unusable
\* is kept.
Faulty_KeepsTimestamp(t, fault) ==
  /\ pc[t] = "waiting"
  /\ fault \in Faults
  /\ ts' = serverVer
  /\ Goto(t, AfterFetch(t))
  /\ UNCHANGED <<serverVer, fatal, stop, thread, callVars, clientVars, inits, history>>

(* "transient": no connection, a timeout, 429, 5xx, an oversized or        *)
(* unparsable body, all ConfigDirectorConnectionErrors.  "body": reading   *)
(* the body failed; that urllib3 error is outside post()'s except clauses, *)
(* so it is no ConfigDirectorConnectionError, and _poll() returns on it,   *)
(* leaving _thread set: nothing starts polling again.                      *)
(* "fatal": any other 4xx, or an unusable URL.                             *)
Faulty(t, fault) ==
  /\ pc[t] = "waiting"
  /\ fault \in Faults
  /\ Goto(t, CASE fault = "transient" -> AfterFetch(t)
               [] fault = "body" -> IF t \in Pollers THEN "broken" ELSE AfterFetch(t)
               [] fault = "fatal" -> "fail")
  /\ since' = [since EXCEPT ![t] = 0]
  /\ UNCHANGED <<serverVer, transportVars, bundle, joining, clientVars, inits, history>>

StoreTimestamp(t) ==
  /\ pc[t] = "store"
  /\ ts' = IF bundle[t].stamped THEN bundle[t].to ELSE ts
  /\ Goto(t, "apply")
  /\ UNCHANGED <<serverVer, fatal, stop, thread, callVars, clientVars, inits, history>>

(* What the client serves once it has applied b.                           *)
Served(b) ==
  IF clientClosed THEN served
  ELSE (IF b.from = 0 THEN {} ELSE served) \cup (b.from + 1)..b.to

(* on_bundle, and the callbacks it runs, which may call close().           *)
ApplyBundle(t) ==
  /\ pc[t] = "apply"
  /\ served' = Served(bundle[t])
  /\ bundle' = [bundle EXCEPT ![t] = NoBundle]
  /\ Goto(t, AfterFetch(t))
  /\ UNCHANGED <<serverVer, transportVars, since, joining, clientClosed, inits, history>>

ApplyBundleAndClose(t) ==
  /\ pc[t] = "apply"
  /\ ~clientClosed
  /\ served' = Served(bundle[t])
  /\ clientClosed' = TRUE
  /\ bundle' = [bundle EXCEPT ![t] = NoBundle]
  /\ Goto(t, "take")
  /\ Races
  /\ UNCHANGED <<serverVer, transportVars, since, joining, inits, overlapped>>

(* _fail_fatally: set the flag, then close the transport.                  *)
FailFatally(t) ==
  /\ pc[t] = "fail"
  /\ fatal' = TRUE
  /\ Goto(t, "take")
  /\ UNCHANGED <<serverVer, ts, stop, thread, callVars, clientVars, inits, history>>

-----------------------------------------------------------------------------
(* close()                                                                 *)

(* The client's close(), then the transport's.                             *)
Close ==
  /\ pc[Closer] = "idle"
  /\ clientClosed' = TRUE
  /\ IF clientClosed THEN raced' = raced ELSE Races
  /\ Goto(Closer, IF clientClosed THEN "done" ELSE "take")
  /\ UNCHANGED <<serverVer, transportVars, callVars, served, inits, overlapped>>

TakeThread(t) ==
  /\ pc[t] = "take"
  /\ joining' = [joining EXCEPT ![t] = thread]
  /\ thread' = None
  /\ Goto(t, "stop")
  /\ UNCHANGED <<serverVer, ts, fatal, stop, since, bundle, clientVars, inits, history>>

\* Mutant of SetStop: the event is not set.
SetStop_Not(t) ==
  /\ pc[t] = "stop"
  /\ Goto(t, "join")
  /\ UNCHANGED <<serverVer, transportVars, callVars, clientVars, inits, history>>

(* _stop.set() also ends every wait in progress, whatever becomes of the   *)
(* event afterwards.                                                       *)
SetStop(t) ==
  /\ pc[t] = "stop"
  /\ stop' = TRUE
  /\ pc' = [u \in Threads |-> IF u = t THEN "join"
                              ELSE IF pc[u] = "sleeping" THEN "dead" ELSE pc[u]]
  /\ UNCHANGED <<serverVer, ts, fatal, thread, callVars, clientVars, inits, history>>

\* Mutant of Joinable: a polling thread joins itself.
Joinable_Self(t) == joining[t] # None

(* Whether close() has a thread to wait for: never the current one.        *)
Joinable(t) == joining[t] \notin {None, t}

JoinEnds(t) ==
  /\ pc[t] = "join"
  /\ Joinable(t) => ~Alive(joining[t])
  /\ Goto(t, IF t = Closer THEN "done" ELSE AfterFetch(t))
  /\ joining' = [joining EXCEPT ![t] = None]
  /\ UNCHANGED <<serverVer, transportVars, since, bundle, clientVars, inits, history>>

JoinTimesOut(t) ==
  /\ pc[t] = "join"
  /\ Joinable(t)
  /\ Alive(joining[t])
  /\ Goto(t, IF t = Closer THEN "done" ELSE AfterFetch(t))
  /\ joining' = [joining EXCEPT ![t] = None]
  /\ UNCHANGED <<serverVer, transportVars, since, bundle, clientVars, inits, history>>

-----------------------------------------------------------------------------
(* The server.                                                             *)
Edit ==
  /\ serverVer < MaxVer
  /\ serverVer' = serverVer + 1
  /\ UNCHANGED <<transportVars, pc, callVars, clientVars, inits, history>>

Init ==
  /\ serverVer = 1
  /\ ts = 0
  /\ fatal = FALSE
  /\ stop = FALSE
  /\ thread = None
  /\ pc = [t \in Threads |-> IF t \in Pollers THEN "unborn" ELSE "idle"]
  /\ since = [t \in Threads |-> 0]
  /\ bundle = [t \in Threads |-> NoBundle]
  /\ joining = [t \in Threads |-> None]
  /\ clientClosed = FALSE
  /\ served = {}
  /\ inits = 0
  /\ overlapped = FALSE
  /\ raced = FALSE

Answered(t) == \/ NothingNewer(t)
               \/ \E from \in 0..MaxVer, stamped \in BOOLEAN : Answer(t, from, stamped)

Responds(t) == Answered(t) \/ \E fault \in Faults : Faulty(t, fault)

(* What a thread does by itself once it has been called or started.        *)
Runs(t) ==
  \/ FetchBegins(t) \/ Post(t) \/ StoreTimestamp(t) \/ ApplyBundle(t)
  \/ FailFatally(t) \/ TakeThread(t) \/ SetStop(t) \/ JoinEnds(t)

Continues(t) ==
  \/ Runs(t)
  \/ t \in Pollers /\ (Wake(t) \/ PollAgain(t))
  \/ t \in Initializers /\ \/ MayStart(t) \/ StartPollingAgain(t)
                           \/ \E p \in Pollers : StartPolling(t, p)

Next ==
  \/ Edit
  \/ Close
  \/ \E i \in Initializers : Initialize(i)
  \/ \E t \in Threads : \/ Responds(t)
                        \/ Continues(t)
                        \/ ApplyBundleAndClose(t)
                        \/ JoinTimesOut(t)

(* Runnable threads run, a request ends (every one has a timeout), and the *)
(* network and the server are not down forever: a thread that asks again   *)
(* and again is answered (so its requests end, too).  Nobody has to call   *)
(* initialize() or close().                                                *)
Fairness ==
  /\ \A t \in Threads : WF_vars(Continues(t))
  /\ \A i \in Initializers : WF_vars(Responds(i))
  /\ \A p \in Pollers : SF_vars(Answered(p))

Spec == Init /\ [][Next]_vars /\ Fairness

-----------------------------------------------------------------------------
(* Properties                                                              *)

(* The shape of the transport's attributes and of the threads' places; the *)
(* client never serves an edit that was not made.                          *)
TypeOK ==
  /\ serverVer \in 0..MaxVer
  /\ ts \in 0..MaxVer
  /\ fatal \in BOOLEAN
  /\ stop \in BOOLEAN
  /\ thread \in Pollers \cup {None}
  /\ pc \in [Threads -> {"idle", "fetch", "post", "waiting", "store", "apply",
                         "fail", "take", "stop", "join", "done", "started?",
                         "start", "unborn", "sleeping", "again?", "dead", "broken"}]
  /\ since \in [Threads -> 0..MaxVer]
  /\ bundle \in [Threads -> Bundle]
  /\ joining \in [Threads -> Pollers \cup {None}]
  /\ clientClosed \in BOOLEAN
  /\ served \subseteq 1..MaxVer
  /\ inits \in 0..MaxInits
  /\ overlapped \in BOOLEAN
  /\ raced \in BOOLEAN

(* The timestamp the transport sends never claims edits the client does    *)
(* not serve: the server would withhold them from then on.  Between        *)
(* storing a timestamp and handing its bundle over it is ahead; a closed   *)
(* client ignores bundles.  It is what _post() relies on, whatever number  *)
(* of threads call initialize(), as they may (types.py, "safe to share     *)
(* across threads").  The code does not keep it: two requests under way at *)
(* once leave _last_update_timestamp and _on_bundle() to run in an order   *)
(* of their own.                                                           *)
TimestampNotAhead ==
  (\A t \in Threads : pc[t] # "apply") /\ ~clientClosed => 1..ts \subseteq served

(* TimestampNotAhead as long as no two threads were between reading the    *)
(* timestamp in _post() and handing their bundle over at the same time.    *)
TimestampNotAheadAlone == ~overlapped => TimestampNotAhead

(* A failure that is worth retrying does not end the connection: an edit   *)
(* is eventually served, by an open client, whatever requests fail before. *)
(* Two things stand in the way in this code: an answer whose body cannot   *)
(* be read, after which _poll() returns for good, and requests of two      *)
(* threads that overlapped, see TimestampNotAhead.                         *)
EditsAreServed ==
  \A n \in 1..MaxVer :
    (inits > 0 /\ serverVer >= n)
      ~> \/ n \in served \/ clientClosed \/ fatal
         \/ overlapped \/ \E p \in Pollers : pc[p] = "broken"

(* After an unrecoverable error no polling thread stays alive, even one an *)
(* initialize() call started after looking at _fatal too early.            *)
FatalEndsPolling == fatal ~> [](\A p \in Pollers : ~Alive(p))

(* After close() has returned polling ends for good, whatever the polling  *)
(* threads and the requests were at, unless an initialize() was under way  *)
(* when it was called: that one may clear the event close() has just set,  *)
(* or start a thread close() does not know of.                             *)
QuietAfterClose ==
  (clientClosed /\ pc[Closer] = "done") ~> (raced \/ [](\A p \in Pollers : ~Alive(p)))

(* close() of the transport returns without running into its timeout, from *)
(* whatever thread it is called: the thread it joins ends, and is never    *)
(* the one that joins.  An initialize() under way when the client was      *)
(* closed may have cleared the event that would have ended it.             *)
CloseReturns == \A t \in Threads : pc[t] = "join" ~> (pc[t] # "join" \/ raced)
=============================================================================
