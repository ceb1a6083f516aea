----------------------- MODULE PollingTransportProofs -----------------------
(***************************************************************************)
(* Proofs about PollingTransport, for any number of threads, of edits on   *)
(* the server and whatever faults requests may meet.                       *)
(***************************************************************************)
EXTENDS PollingTransport, TLAPS

Places == {"idle", "fetch", "post", "waiting", "store", "apply", "fail", "take", "stop",
           "join", "done", "started?", "start", "unborn", "sleeping", "again?", "dead",
           "broken"}

-----------------------------------------------------------------------------
(* Type correctness.                                                       *)

LEMMA ThreadFacts ==
  /\ Closer \in Threads /\ Initializers \subseteq Threads /\ Pollers \subseteq Threads
  /\ Threads = Initializers \cup Pollers \cup {Closer}
  /\ Closer \notin Initializers \cup Pollers
  /\ Initializers \cap Pollers = {}
BY PollingAssumption DEF Threads

LEMMA GotoType ==
  ASSUME TypeOK, NEW t \in Threads, NEW l \in Places, Goto(t, l)
  PROVE  pc' \in [Threads -> Places]
BY DEF TypeOK, Goto, Places

(* A step that leaves the data alone and moves threads about.              *)
LEMMA OnlyPlaces ==
  ASSUME TypeOK, pc' \in [Threads -> Places],
         UNCHANGED <<serverVer, transportVars, callVars, clientVars, inits, history>>
  PROVE  TypeOK'
BY DEF TypeOK, Places, transportVars, callVars, clientVars, history

LEMMA TypeInit == Init => TypeOK
<1>. SUFFICES ASSUME Init PROVE TypeOK
  OBVIOUS
<1>1. serverVer \in 0..MaxVer /\ 0 \in 0..MaxVer /\ 0 \in 0..MaxInits
  BY PollingAssumption DEF Init
<1>2. NoBundle \in Bundle
  BY <1>1 DEF NoBundle, Bundle
<1>. QED
  BY <1>1, <1>2 DEF Init, TypeOK

LEMMA TypeStep == TypeOK /\ [Next]_vars => TypeOK'
<1>. SUFFICES ASSUME TypeOK, [Next]_vars PROVE TypeOK'
  OBVIOUS
<1>0. /\ \A t \in Threads : AfterFetch(t) \in Places
      /\ pc \in [Threads -> Places] /\ 0 \in 0..MaxVer /\ NoBundle \in Bundle
  <2>1. 0 \in 0..MaxVer
    BY PollingAssumption
  <2>. QED
    BY <2>1 DEF AfterFetch, Places, TypeOK, NoBundle, Bundle
<1>1. ASSUME NEW t \in Threads, MayStart(t) \/ StartPollingAgain(t) \/ Wake(t) \/ PollAgain(t)
      PROVE  TypeOK'
  <2>1. PICK l \in Places : Goto(t, l)
    BY <1>1 DEF MayStart, StartPollingAgain, Wake, PollAgain, Places
  <2>. QED
    BY <1>1, <2>1, GotoType, OnlyPlaces DEF MayStart, StartPollingAgain, Wake, PollAgain
<1>2. ASSUME NEW t \in Threads, FetchBegins(t) PROVE TypeOK'
  <2>1. PICK l \in Places : Goto(t, l)
    BY <1>0, <1>2 DEF FetchBegins, Places
  <2>. QED
    BY <1>2, <2>1, GotoType, OnlyPlaces DEF FetchBegins
<1>3. ASSUME NEW t \in Threads, NEW l \in Places, Goto(t, l),
             NEW v \in 0..MaxVer, since' = [since EXCEPT ![t] = v],
             overlapped' \in BOOLEAN,
             UNCHANGED <<serverVer, transportVars, bundle, joining, clientVars, inits, raced>>
      PROVE  TypeOK'
  <2>1. pc' \in [Threads -> Places]
    BY <1>3, GotoType
  <2>. QED
    BY <1>3, <2>1 DEF TypeOK, Places, transportVars, clientVars, history
<1>4. ASSUME NEW t \in Threads, Post(t) \/ NothingNewer(t) \/ \E f \in Faults : Faulty(t, f)
      PROVE  TypeOK'
  <2>1. ts \in 0..MaxVer /\ overlapped \in BOOLEAN
    BY DEF TypeOK
  <2>2. CASE Post(t)
    <3>1. overlapped' \in BOOLEAN
      BY <2>2 DEF Post
    <3>. QED
      BY <1>3, <2>1, <2>2, <3>1 DEF Post, Places
  <2>3. CASE NothingNewer(t)
    BY <1>0, <1>3, <2>1, <2>3 DEF NothingNewer, history
  <2>4. ASSUME NEW f \in Faults, Faulty(t, f) PROVE TypeOK'
    <3>1. f \in {"transient", "body", "fatal"}
      BY PollingAssumption
    <3>2. PICK l \in Places : Goto(t, l)
      BY <1>0, <2>4, <3>1 DEF Faulty, Places
    <3>. QED
      BY <1>0, <1>3, <2>1, <2>4, <3>2 DEF Faulty, history
  <2>. QED
    BY <1>4, <2>2, <2>3, <2>4
<1>5. ASSUME NEW t \in Threads, NEW from \in 0..MaxVer, NEW stamped \in BOOLEAN,
             Answer(t, from, stamped)
      PROVE  TypeOK'
  <2>0. Goto(t, "store") /\ serverVer \in 0..MaxVer /\ "store" \in Places
    BY <1>5 DEF Answer, TypeOK, Places
  <2>1. pc' \in [Threads -> Places]
    BY <2>0, GotoType
  <2>2. [from |-> from, to |-> serverVer, stamped |-> stamped] \in Bundle
    BY <2>0 DEF Bundle
  <2>3. bundle' \in [Threads -> Bundle] /\ since' \in [Threads -> 0..MaxVer]
    BY <1>0, <1>5, <2>2 DEF Answer, TypeOK
  <2>. QED
    BY <1>5, <2>1, <2>3 DEF Answer, TypeOK, Places, transportVars, clientVars, history
<1>6. ASSUME NEW t \in Threads, StoreTimestamp(t) PROVE TypeOK'
  <2>1. pc' \in [Threads -> Places]
    BY <1>6, GotoType DEF StoreTimestamp, Places
  <2>2. ts' \in 0..MaxVer
    BY <1>6 DEF StoreTimestamp, TypeOK, Bundle
  <2>. QED
    BY <1>6, <2>1, <2>2 DEF StoreTimestamp, TypeOK, Places, callVars, clientVars, history
<1>7. ASSUME NEW t \in Threads, ApplyBundle(t) \/ ApplyBundleAndClose(t) PROVE TypeOK'
  <2>1. PICK l \in Places : Goto(t, l)
    BY <1>0, <1>7 DEF ApplyBundle, ApplyBundleAndClose, Places
  <2>2. pc' \in [Threads -> Places]
    BY <2>1, GotoType
  <2>3. bundle[t].from \in 0..MaxVer /\ bundle[t].to \in 0..MaxVer /\ served \subseteq 1..MaxVer
    BY DEF TypeOK, Bundle
  <2>4. served' \subseteq 1..MaxVer
    <3>1. (bundle[t].from + 1)..bundle[t].to \subseteq 1..MaxVer
      BY <2>3, PollingAssumption
    <3>. QED
      BY <1>7, <2>3, <3>1 DEF ApplyBundle, ApplyBundleAndClose, Served
  <2>5. bundle' \in [Threads -> Bundle] /\ clientClosed' \in BOOLEAN
    BY <1>0, <1>7 DEF ApplyBundle, ApplyBundleAndClose, TypeOK
  <2>6. raced' \in BOOLEAN
    BY <1>7 DEF ApplyBundle, ApplyBundleAndClose, TypeOK, Races, history
  <2>. QED
    BY <1>7, <2>2, <2>4, <2>5, <2>6
       DEF ApplyBundle, ApplyBundleAndClose, TypeOK, Places, transportVars, history
<1>8. ASSUME NEW t \in Threads, FailFatally(t) PROVE TypeOK'
  <2>1. pc' \in [Threads -> Places]
    BY <1>8, GotoType DEF FailFatally, Places
  <2>. QED
    BY <1>8, <2>1 DEF FailFatally, TypeOK, Places, callVars, clientVars, history
<1>9. ASSUME Close PROVE TypeOK'
  <2>1. PICK l \in Places : Goto(Closer, l)
    BY <1>9 DEF Close, Places
  <2>2. pc' \in [Threads -> Places]
    BY <2>1, GotoType, ThreadFacts
  <2>3. raced' \in BOOLEAN
    BY <1>9 DEF Close, TypeOK, Races
  <2>. QED
    BY <1>9, <2>2, <2>3 DEF Close, TypeOK, Places, transportVars, callVars
<1>10. ASSUME NEW t \in Threads, TakeThread(t) PROVE TypeOK'
  <2>1. pc' \in [Threads -> Places]
    BY <1>10, GotoType DEF TakeThread, Places
  <2>. QED
    BY <1>10, <2>1 DEF TakeThread, TypeOK, Places, clientVars, history
<1>11. ASSUME NEW t \in Threads, SetStop(t) PROVE TypeOK'
  <2>1. pc' \in [Threads -> Places]
    BY <1>0, <1>11 DEF SetStop, Places
  <2>. QED
    BY <1>11, <2>1 DEF SetStop, TypeOK, Places, callVars, clientVars, history
<1>12. ASSUME NEW t \in Threads, JoinEnds(t) \/ JoinTimesOut(t) PROVE TypeOK'
  <2>1. PICK l \in Places : Goto(t, l)
    BY <1>0, <1>12 DEF JoinEnds, JoinTimesOut, Places
  <2>2. pc' \in [Threads -> Places]
    BY <2>1, GotoType
  <2>. QED
    BY <1>12, <2>2 DEF JoinEnds, JoinTimesOut, TypeOK, Places, transportVars, clientVars, history
<1>13. ASSUME NEW i \in Initializers, Initialize(i) PROVE TypeOK'
  <2>1. pc' \in [Threads -> Places]
    BY <1>13, GotoType, ThreadFacts DEF Initialize, Places
  <2>2. inits' \in 0..MaxInits
    BY <1>13, PollingAssumption DEF Initialize, TypeOK
  <2>. QED
    BY <1>13, <2>1, <2>2 DEF Initialize, TypeOK, Places, transportVars, callVars, clientVars, history
<1>14. ASSUME NEW i \in Initializers, NEW p \in Pollers, StartPolling(i, p) PROVE TypeOK'
  <2>1. pc' \in [Threads -> Places]
    BY <1>0, <1>14, ThreadFacts DEF StartPolling, Places
  <2>. QED
    BY <1>14, <2>1 DEF StartPolling, TypeOK, Places, callVars, clientVars, history
<1>15. ASSUME Edit PROVE TypeOK'
  <2>1. serverVer' \in 0..MaxVer
    BY <1>15, PollingAssumption DEF Edit, TypeOK
  <2>. QED
    BY <1>15, <2>1 DEF Edit, TypeOK, transportVars, callVars, clientVars, history
<1>16. CASE UNCHANGED vars
  BY <1>16 DEF vars, TypeOK, transportVars, callVars, clientVars, history
<1>. QED
  BY <1>1, <1>2, <1>4, <1>5, <1>6, <1>7, <1>8, <1>9, <1>10, <1>11, <1>12, <1>13, <1>14,
     <1>15, <1>16, ThreadFacts DEF Next, Responds, Answered, Continues, Runs

(* TypeOK: the transport's attributes and its threads keep their shape,    *)
(* and the client never serves an edit that was not made.                  *)
THEOREM TypeCorrect == Spec => []TypeOK
BY TypeInit, TypeStep, PTL DEF Spec

-----------------------------------------------------------------------------
(* The inductive invariant behind TimestampNotAheadAlone: until requests   *)
(* overlap, one thread at a time is between reading the timestamp and      *)
(* handing its bundle over.                                                *)

OneRequest == \A t, u \in Threads : Requesting(t) /\ Requesting(u) => t = u

(* What is asked for, and what a bundle is a delta of, is served; a bundle *)
(* goes at least as far as the timestamp, which is not ahead of the server.*)
Stamps ==
  /\ ts <= serverVer
  /\ \A t \in Threads : pc[t] = "waiting" => since[t] <= ts
  /\ \A t \in Threads :
       pc[t] \in {"store", "apply"}
         => /\ ts <= bundle[t].to /\ bundle[t].to <= serverVer
            /\ ~clientClosed => 1..bundle[t].from \subseteq served
  /\ ~clientClosed /\ (\A t \in Threads : pc[t] # "apply") => 1..ts \subseteq served

FetchInv == TypeOK /\ (~overlapped => OneRequest /\ Stamps)

Holding == {"waiting", "store", "apply"}

LEMMA Numbers ==
  ASSUME TypeOK
  PROVE  /\ ts \in Nat /\ serverVer \in Nat
         /\ \A t \in Threads : /\ since[t] \in Nat
                               /\ bundle[t].from \in Nat /\ bundle[t].to \in Nat
BY PollingAssumption DEF TypeOK, Bundle

(* A step that has nothing to do with a request under way.                 *)
LEMMA RequestsKept ==
  ASSUME FetchInv, TypeOK', overlapped' = overlapped, serverVer <= serverVer', ts' = ts,
         served' = served, clientClosed => clientClosed',
         \A t \in Threads : pc'[t] \in Holding => /\ pc'[t] = pc[t] /\ since'[t] = since[t]
                                                  /\ bundle'[t] = bundle[t],
         \A t \in Threads : pc[t] = "apply" => pc'[t] = "apply"
  PROVE  FetchInv'
<1>. SUFFICES ASSUME ~overlapped PROVE OneRequest' /\ Stamps'
  BY DEF FetchInv
<1>1. /\ TypeOK /\ OneRequest /\ Stamps
      /\ ts \in Nat /\ serverVer \in Nat /\ serverVer' \in Nat
      /\ \A t \in Threads : bundle[t].to \in Nat
  BY Numbers, PollingAssumption DEF FetchInv, TypeOK
<1>2. OneRequest'
  BY <1>1 DEF OneRequest, Requesting, Holding
<1>3. ts' <= serverVer'
  BY <1>1 DEF Stamps
<1>4. \A t \in Threads : pc'[t] = "waiting" => since'[t] <= ts'
  BY <1>1 DEF Stamps, Holding
<1>5. ASSUME NEW t \in Threads, pc'[t] \in {"store", "apply"}
      PROVE  /\ ts' <= bundle'[t].to /\ bundle'[t].to <= serverVer'
             /\ ~clientClosed' => 1..bundle'[t].from \subseteq served'
  BY <1>1, <1>5 DEF Stamps, Holding
<1>6. ~clientClosed' /\ (\A t \in Threads : pc'[t] # "apply") => 1..ts' \subseteq served'
  BY <1>1 DEF Stamps
<1>. QED
  BY <1>2, <1>3, <1>4, <1>5, <1>6 DEF Stamps

(* The same, of one thread that goes where no request is under way.        *)
LEMMA Elsewhere ==
  ASSUME FetchInv, TypeOK', NEW t \in Threads, NEW l, Goto(t, l), l \notin Holding,
         pc[t] # "apply", overlapped' = overlapped, serverVer' = serverVer, ts' = ts,
         bundle' = bundle, served' = served, clientClosed => clientClosed',
         \A u \in Threads : u # t => since'[u] = since[u]
  PROVE  FetchInv'
<1>1. pc'[t] = l /\ \A u \in Threads : u # t => pc'[u] = pc[u]
  BY DEF FetchInv, TypeOK, Goto
<1>2. serverVer <= serverVer'
  BY Numbers DEF FetchInv
<1>. QED
  BY <1>1, <1>2, RequestsKept

(* A thread that makes a request is the only one, and stays it.            *)
LEMMA StaysAlone ==
  ASSUME TypeOK, OneRequest, NEW t \in Threads, Requesting(t), NEW l, Goto(t, l)
  PROVE  /\ OneRequest' /\ pc'[t] = l
         /\ \A u \in Threads : u # t => pc[u] \notin Holding /\ pc'[u] = pc[u]
<1>1. pc'[t] = l /\ \A u \in Threads : u # t => pc'[u] = pc[u]
  BY DEF TypeOK, Goto
<1>2. \A u \in Threads : u # t => pc[u] \notin Holding
  BY DEF OneRequest, Requesting, Holding
<1>. QED
  BY <1>1, <1>2 DEF OneRequest, Requesting, Holding

-----------------------------------------------------------------------------
(* The steps that carry a timestamp or a bundle.                           *)

LEMMA PostStep ==
  ASSUME FetchInv, TypeOK', NEW t \in Threads, Post(t)
  PROVE  FetchInv'
<1>. SUFFICES ASSUME ~overlapped' PROVE OneRequest' /\ Stamps'
  BY DEF FetchInv
<1>1. /\ pc[t] = "post" /\ Goto(t, "waiting") /\ since' = [since EXCEPT ![t] = ts]
      /\ serverVer' = serverVer /\ ts' = ts /\ bundle' = bundle /\ served' = served
      /\ clientClosed' = clientClosed
  BY DEF Post, transportVars, clientVars
<1>2. ~overlapped /\ \A u \in Threads : pc[u] \notin Holding
  BY DEF Post, Requesting, Holding
<1>3. TypeOK /\ Stamps
  BY <1>2 DEF FetchInv
<1>4. pc'[t] = "waiting" /\ \A u \in Threads : u # t => pc'[u] = pc[u]
  BY <1>1, <1>3 DEF TypeOK, Goto
<1>5. since'[t] = ts /\ ts \in Nat
  BY <1>1, <1>3, Numbers DEF TypeOK
<1>6. OneRequest'
  BY <1>2, <1>4 DEF OneRequest, Requesting, Holding
<1>7. Stamps'
  BY <1>1, <1>2, <1>3, <1>4, <1>5 DEF Stamps, Holding
<1>. QED
  BY <1>6, <1>7

LEMMA AnswerStep ==
  ASSUME FetchInv, TypeOK', NEW t \in Threads, NEW from \in 0..MaxVer, NEW stamped \in BOOLEAN,
         Answer(t, from, stamped)
  PROVE  FetchInv'
<1>1. /\ pc[t] = "waiting" /\ Goto(t, "store") /\ from \in {0, since[t]}
      /\ serverVer' = serverVer /\ ts' = ts /\ served' = served
      /\ clientClosed' = clientClosed /\ overlapped' = overlapped
  BY DEF Answer, transportVars, clientVars, history
<1>. SUFFICES ASSUME ~overlapped PROVE OneRequest' /\ Stamps'
  BY <1>1 DEF FetchInv
<1>2. TypeOK /\ OneRequest /\ Stamps /\ Requesting(t)
  BY <1>1 DEF FetchInv, Requesting
<1>3. /\ OneRequest' /\ pc'[t] = "store"
      /\ \A u \in Threads : u # t => pc[u] \notin Holding /\ pc'[u] = pc[u]
  BY <1>1, <1>2, StaysAlone
<1>4. ts \in Nat /\ serverVer \in Nat /\ since[t] \in Nat
  BY <1>2, Numbers
<1>5. bundle'[t].from = from /\ bundle'[t].to = serverVer
  BY <1>2 DEF Answer, TypeOK
<1>7. ts <= serverVer /\ since[t] <= ts /\ from \in Nat /\ from <= ts
  BY <1>1, <1>2, <1>4 DEF Stamps
<1>8. ~clientClosed => 1..ts \subseteq served
  BY <1>1, <1>2, <1>3 DEF Stamps, Holding
<1>9. ~clientClosed => 1..from \subseteq served
  <2>1. 1..from \subseteq 1..ts
    BY <1>4, <1>7
  <2>. QED
    BY <1>8, <2>1
<1>10. Stamps'
  <2>1. ts' <= serverVer'
    BY <1>1, <1>7
  <2>2. \A u \in Threads : pc'[u] # "waiting" /\ pc'[u] # "apply"
    BY <1>3 DEF Holding
  <2>3. ASSUME NEW u \in Threads, pc'[u] \in {"store", "apply"}
        PROVE  /\ ts' <= bundle'[u].to /\ bundle'[u].to <= serverVer'
               /\ ~clientClosed' => 1..bundle'[u].from \subseteq served'
    <3>1. u = t
      BY <1>3, <2>3 DEF Holding
    <3>. QED
      BY <1>1, <1>4, <1>5, <1>7, <1>9, <3>1
  <2>. QED
    BY <1>1, <1>8, <2>1, <2>2, <2>3 DEF Stamps
<1>. QED
  BY <1>3, <1>10

LEMMA StoreStep ==
  ASSUME FetchInv, TypeOK', NEW t \in Threads, StoreTimestamp(t)
  PROVE  FetchInv'
<1>1. /\ pc[t] = "store" /\ Goto(t, "apply")
      /\ ts' = IF bundle[t].stamped THEN bundle[t].to ELSE ts
      /\ serverVer' = serverVer /\ bundle' = bundle /\ served' = served
      /\ clientClosed' = clientClosed /\ overlapped' = overlapped
  BY DEF StoreTimestamp, callVars, clientVars, history
<1>. SUFFICES ASSUME ~overlapped PROVE OneRequest' /\ Stamps'
  BY <1>1 DEF FetchInv
<1>2. TypeOK /\ OneRequest /\ Stamps /\ Requesting(t)
  BY <1>1 DEF FetchInv, Requesting
<1>3. /\ OneRequest' /\ pc'[t] = "apply"
      /\ \A u \in Threads : u # t => pc[u] \notin Holding /\ pc'[u] = pc[u]
  BY <1>1, <1>2, StaysAlone
<1>4. ts \in Nat /\ serverVer \in Nat /\ bundle[t].to \in Nat
  BY <1>2, Numbers
<1>6. /\ ts <= bundle[t].to /\ bundle[t].to <= serverVer
      /\ ~clientClosed => 1..bundle[t].from \subseteq served
  BY <1>1, <1>2 DEF Stamps
<1>7. ts' <= bundle[t].to /\ ts' <= serverVer'
  BY <1>1, <1>4, <1>6
<1>8. Stamps'
  BY <1>1, <1>3, <1>6, <1>7 DEF Stamps, Holding
<1>. QED
  BY <1>3, <1>8

(* The bundle reaches from what is served to the timestamp, or further.    *)
LEMMA ApplyStep ==
  ASSUME FetchInv, TypeOK', NEW t \in Threads, ApplyBundle(t) \/ ApplyBundleAndClose(t)
  PROVE  FetchInv'
<1>1. PICK l \in {AfterFetch(t), "take"} :
      /\ pc[t] = "apply" /\ Goto(t, l)
      /\ served' = Served(bundle[t])
      /\ serverVer' = serverVer /\ ts' = ts /\ overlapped' = overlapped
      /\ clientClosed => clientClosed'
  BY DEF ApplyBundle, ApplyBundleAndClose, transportVars, history
<1>. SUFFICES ASSUME ~overlapped PROVE OneRequest' /\ Stamps'
  BY <1>1 DEF FetchInv
<1>2. TypeOK /\ OneRequest /\ Stamps /\ Requesting(t)
  BY <1>1 DEF FetchInv, Requesting
<1>3. /\ OneRequest' /\ pc'[t] = l
      /\ \A u \in Threads : u # t => pc[u] \notin Holding /\ pc'[u] = pc[u]
  BY <1>1, <1>2, StaysAlone
<1>4. ts \in Nat /\ bundle[t].to \in Nat /\ bundle[t].from \in Nat
  BY <1>2, Numbers
<1>5. \A u \in Threads : pc'[u] \notin Holding
  BY <1>1, <1>3 DEF Holding, AfterFetch
<1>6. ts <= bundle[t].to /\ ts <= serverVer
      /\ (~clientClosed => 1..bundle[t].from \subseteq served)
  BY <1>1, <1>2 DEF Stamps
<1>7. ASSUME ~clientClosed PROVE 1..ts \subseteq served'
  <2>1. /\ served' = (IF bundle[t].from = 0 THEN {} ELSE served)
                       \cup (bundle[t].from + 1)..bundle[t].to
    BY <1>1, <1>7 DEF Served
  <2>2. ASSUME NEW n \in 1..ts PROVE n \in served'
    <3>1. n \in 1..bundle[t].from \/ n \in (bundle[t].from + 1)..bundle[t].to
      BY <1>4, <1>6
    <3>2. bundle[t].from = 0 => n \notin 1..bundle[t].from
      BY <1>4
    <3>. QED
      BY <1>6, <1>7, <2>1, <3>1, <3>2
  <2>. QED
    BY <2>2
<1>8. Stamps'
  BY <1>1, <1>5, <1>6, <1>7 DEF Stamps, Holding
<1>. QED
  BY <1>3, <1>8

-----------------------------------------------------------------------------
(* The other steps.                                                        *)

LEMMA LoopStep ==
  ASSUME FetchInv, TypeOK', NEW t \in Threads,
         \/ Wake(t) \/ PollAgain(t) \/ MayStart(t) \/ StartPollingAgain(t)
         \/ FetchBegins(t) \/ FailFatally(t) \/ TakeThread(t) \/ Initialize(t)
  PROVE  FetchInv'
<1>1. PICK l \in {"idle", "start", "dead", "fetch", "sleeping", AfterFetch(t), "post", "take",
                  "stop"} :
        /\ Goto(t, l) /\ pc[t] # "apply"
        /\ serverVer' = serverVer /\ ts' = ts /\ since' = since /\ bundle' = bundle
        /\ served' = served /\ clientClosed' = clientClosed /\ overlapped' = overlapped
  BY DEF Wake, PollAgain, MayStart, StartPollingAgain, FetchBegins, FailFatally, TakeThread,
         Initialize, transportVars, callVars, clientVars, history
<1>2. l \notin Holding
  BY <1>1 DEF Holding, AfterFetch
<1>. QED
  BY <1>1, <1>2, Elsewhere

LEMMA NoBundleStep ==
  ASSUME FetchInv, TypeOK', NEW t \in Threads,
         NothingNewer(t) \/ \E f \in Faults : Faulty(t, f)
  PROVE  FetchInv'
<1>0. since \in [Threads -> 0..MaxVer]
  BY DEF FetchInv, TypeOK
<1>1. PICK l \in {AfterFetch(t), "broken", "fail"} :
        /\ Goto(t, l) /\ pc[t] = "waiting"
        /\ since' = [since EXCEPT ![t] = 0]
        /\ serverVer' = serverVer /\ ts' = ts /\ overlapped' = overlapped
        /\ bundle' = bundle /\ served' = served /\ clientClosed' = clientClosed
  <2>1. CASE NothingNewer(t)
    BY <2>1 DEF NothingNewer, transportVars, clientVars, history
  <2>2. ASSUME NEW f \in Faults, Faulty(t, f)
        PROVE  \E l \in {AfterFetch(t), "broken", "fail"} :
                 /\ Goto(t, l) /\ pc[t] = "waiting"
                 /\ since' = [since EXCEPT ![t] = 0]
                 /\ serverVer' = serverVer /\ ts' = ts /\ overlapped' = overlapped
                 /\ bundle' = bundle /\ served' = served /\ clientClosed' = clientClosed
    <3>1. f \in {"transient", "body", "fatal"}
      BY PollingAssumption
    <3>. QED
      BY <2>2, <3>1 DEF Faulty, transportVars, clientVars, history
  <2>. QED
    BY <2>1, <2>2
<1>2. l \notin Holding
  BY <1>1 DEF Holding, AfterFetch
<1>3. \A u \in Threads : u # t => since'[u] = since[u]
  BY <1>0, <1>1
<1>. QED
  BY <1>1, <1>2, <1>3, Elsewhere

LEMMA JoinStep ==
  ASSUME FetchInv, TypeOK', NEW t \in Threads, JoinEnds(t) \/ JoinTimesOut(t)
  PROVE  FetchInv'
<1>1. PICK l \in {"done", AfterFetch(t)} :
        /\ Goto(t, l) /\ pc[t] = "join" /\ overlapped' = overlapped
        /\ serverVer' = serverVer /\ ts' = ts /\ since' = since
        /\ bundle' = bundle /\ served' = served /\ clientClosed' = clientClosed
  BY DEF JoinEnds, JoinTimesOut, transportVars, clientVars, history
<1>2. l \notin Holding
  BY <1>1 DEF Holding, AfterFetch
<1>. QED
  BY <1>1, <1>2, Elsewhere

LEMMA CloseStep ==
  ASSUME FetchInv, TypeOK', Close
  PROVE  FetchInv'
<1>1. PICK l \in {"done", "take"} :
        /\ Goto(Closer, l) /\ pc[Closer] = "idle" /\ clientClosed' = TRUE
        /\ overlapped' = overlapped /\ serverVer' = serverVer /\ ts' = ts
        /\ since' = since /\ bundle' = bundle /\ served' = served
  BY DEF Close, transportVars, callVars
<1>2. l \notin Holding
  BY <1>1 DEF Holding
<1>. QED
  BY <1>1, <1>2, Elsewhere, ThreadFacts

(* Setting the event ends threads that wait; none of them is in _fetch().  *)
LEMMA SetStopStep ==
  ASSUME FetchInv, TypeOK', NEW t \in Threads, SetStop(t)
  PROVE  FetchInv'
<1>1. /\ pc[t] = "stop" /\ overlapped' = overlapped
      /\ \A u \in Threads : pc'[u] = IF u = t THEN "join"
                                     ELSE IF pc[u] = "sleeping" THEN "dead" ELSE pc[u]
      /\ serverVer' = serverVer /\ ts' = ts /\ since' = since
      /\ bundle' = bundle /\ served' = served /\ clientClosed' = clientClosed
  BY DEF SetStop, callVars, clientVars, history
<1>2. serverVer <= serverVer'
  BY <1>1, Numbers DEF FetchInv
<1>3. \A u \in Threads : pc'[u] \in Holding => pc'[u] = pc[u]
  BY <1>1 DEF Holding
<1>4. \A u \in Threads : pc[u] = "apply" => pc'[u] = "apply"
  BY <1>1
<1>. QED
  BY <1>1, <1>2, <1>3, <1>4, RequestsKept

LEMMA StartPollingStep ==
  ASSUME FetchInv, TypeOK', NEW i \in Initializers, NEW p \in Pollers, StartPolling(i, p)
  PROVE  FetchInv'
<1>1. /\ pc[i] = "start" /\ pc[p] = "unborn" /\ overlapped' = overlapped
      /\ pc' = [pc EXCEPT ![i] = "idle", ![p] = "sleeping"]
      /\ serverVer' = serverVer /\ ts' = ts /\ since' = since
      /\ bundle' = bundle /\ served' = served /\ clientClosed' = clientClosed
  BY DEF StartPolling, callVars, clientVars, history
<1>2. /\ pc'[i] = "idle" /\ pc'[p] = "sleeping"
      /\ \A u \in Threads : u \notin {i, p} => pc'[u] = pc[u]
  BY <1>1, ThreadFacts DEF FetchInv, TypeOK
<1>3. serverVer <= serverVer'
  BY <1>1, Numbers DEF FetchInv
<1>4. \A u \in Threads : pc'[u] \in Holding => pc'[u] = pc[u]
  BY <1>1, <1>2 DEF Holding
<1>5. \A u \in Threads : pc[u] = "apply" => pc'[u] = "apply"
  BY <1>1, <1>2
<1>. QED
  BY <1>1, <1>3, <1>4, <1>5, RequestsKept

LEMMA StillStep ==
  ASSUME FetchInv, TypeOK', Edit \/ UNCHANGED vars
  PROVE  FetchInv'
<1>1. /\ serverVer' = serverVer \/ serverVer' = serverVer + 1
      /\ pc' = pc /\ ts' = ts /\ since' = since /\ overlapped' = overlapped
      /\ bundle' = bundle /\ served' = served /\ clientClosed' = clientClosed
  BY DEF Edit, vars, transportVars, callVars, clientVars, history
<1>2. serverVer <= serverVer'
  BY <1>1, Numbers DEF FetchInv
<1>. QED
  BY <1>1, <1>2, RequestsKept

-----------------------------------------------------------------------------
LEMMA FetchInit == Init => FetchInv
<1>. SUFFICES ASSUME Init PROVE FetchInv
  OBVIOUS
<1>1. (\A t \in Threads : pc[t] \notin Holding) /\ ts = 0 /\ serverVer = 1
  BY DEF Init, Holding
<1>2. OneRequest
  BY <1>1 DEF OneRequest, Requesting, Holding
<1>3. Stamps
  <2>1. 1..ts = {} /\ ts <= serverVer
    BY <1>1
  <2>. QED
    BY <1>1, <2>1 DEF Stamps, Holding
<1>. QED
  BY <1>2, <1>3, TypeInit DEF FetchInv

LEMMA FetchStep == FetchInv /\ [Next]_vars => FetchInv'
<1>. SUFFICES ASSUME FetchInv, [Next]_vars PROVE FetchInv'
  OBVIOUS
<1>0. TypeOK'
  BY TypeStep DEF FetchInv
<1>1. ASSUME NEW t \in Threads, Responds(t) PROVE FetchInv'
  BY <1>0, <1>1, NoBundleStep, AnswerStep DEF Responds, Answered
<1>2. ASSUME NEW t \in Threads, Runs(t) PROVE FetchInv'
  BY <1>0, <1>2, LoopStep, PostStep, StoreStep, ApplyStep, SetStopStep, JoinStep DEF Runs
<1>3. ASSUME NEW t \in Threads, Continues(t) PROVE FetchInv'
  BY <1>0, <1>2, <1>3, LoopStep, StartPollingStep DEF Continues
<1>4. ASSUME NEW i \in Initializers, Initialize(i) PROVE FetchInv'
  BY <1>0, <1>4, LoopStep, ThreadFacts
<1>. QED
  BY <1>0, <1>1, <1>3, <1>4, ApplyStep, JoinStep, CloseStep, StillStep DEF Next

(* TimestampNotAheadAlone: however many threads call initialize(), however *)
(* often, whatever requests fail, whoever closes the client and however    *)
(* many edits are made, the timestamp _post() sends claims no edit the     *)
(* client does not serve, until two threads were between reading it and    *)
(* handing their bundle over at the same time.  (Once they were, it may:   *)
(* TimestampNotAhead does not hold.)                                       *)
THEOREM AheadOnlyByOverlap == Spec => []TimestampNotAheadAlone
<1>1. FetchInv => TimestampNotAheadAlone
  BY DEF FetchInv, Stamps, TimestampNotAhead, TimestampNotAheadAlone
<1>. QED
  BY <1>1, FetchInit, FetchStep, PTL DEF Spec
=============================================================================
