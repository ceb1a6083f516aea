---------------------- MODULE InMemoryConnectionProofs ----------------------
(***************************************************************************)
(* Proofs about InMemoryConnection, for any keys, threads of the test and  *)
(* threads that initialize, and for any number of operations and attempts. *)
(***************************************************************************)
EXTENDS InMemoryConnection, SequenceTheorems, TLAPS

Values == [Keys -> Nat]
Updates == [kind: {"none", "full", "delta"}, configs: Values]
Places == {"idle", "deliver", "drain", "hand over", "settle", "connect", "picked up", "close"}
Settled == {"completed", "failed", "ended"}
Calls == [pc: Places, update: Updates, attempt: Nat, settles: Nat, outcome: Settled]

TypeOK ==
  /\ ops \in Nat
  /\ state \in [configs: Values, armed: {"none", "hold", "failure"}, held: Nat,
                connected: BOOLEAN]
  /\ queue \in [pending: Seq(Updates), delivering: BOOLEAN]
  /\ attempts \in [Attempts -> {"unmade", "held", "free", "refused"} \cup Settled]
  /\ call \in [Threads -> Calls]
  /\ client \in [served: Values, closed: BOOLEAN]
  /\ overlapped \in BOOLEAN

-----------------------------------------------------------------------------
(* The queue.  The thread that found _delivering down drains it, alone,    *)
(* and stays until the queue is empty.                                     *)
Draining(t) == call[t].pc \in {"drain", "hand over"}

OneDrains == \A t, u \in Threads : Draining(t) /\ Draining(u) => t = u
DrainedWhileDelivering ==
  /\ \A t \in Threads : Draining(t) => queue.delivering
  /\ queue.delivering => \E t \in Threads : Draining(t)
  /\ queue.pending # <<>> => queue.delivering

(* One thread at a time has an update it has not queued.                   *)
OneBuilds ==
  ~overlapped => \A t, u \in Threads : At(t, "deliver") /\ At(u, "deliver") => t = u

-----------------------------------------------------------------------------
(* Updates on their way to the client: the one being handed over, those    *)
(* that are queued, the one that was built.  The last of them to say       *)
(* something of a key says what is stored under it; when none does, the    *)
(* client serves that already.                                             *)
Mentions(update, k) == update.kind = "full" \/ update.configs[k] # 0

BuiltFor(k) == \E t \in Threads : At(t, "deliver") /\ Mentions(call[t].update, k)
QueuedFor(k) == \E i \in 1..Len(queue.pending) : Mentions(queue.pending[i], k)
HandedOverFor(k) == \E t \in Threads : At(t, "hand over") /\ Mentions(call[t].update, k)
LastQueued(k, i) == /\ Mentions(queue.pending[i], k)
                    /\ \A j \in 1..Len(queue.pending) : i < j => ~Mentions(queue.pending[j], k)

BuiltIsStored(k) ==
  \A t \in Threads : At(t, "deliver") /\ Mentions(call[t].update, k)
                       => call[t].update.configs[k] = state.configs[k]
QueuedIsStored(k) ==
  ~BuiltFor(k) => \A i \in 1..Len(queue.pending) :
                    LastQueued(k, i) => queue.pending[i].configs[k] = state.configs[k]
HandedOverIsStored(k) ==
  ~BuiltFor(k) /\ ~QueuedFor(k)
    => \A t \in Threads : At(t, "hand over") /\ Mentions(call[t].update, k)
                            => call[t].update.configs[k] = state.configs[k]
ServedIsStored(k) ==
  ~BuiltFor(k) /\ ~QueuedFor(k) /\ ~HandedOverFor(k)
    => client.served[k] = state.configs[k]

OnTheWay(k) ==
  BuiltIsStored(k) /\ QueuedIsStored(k) /\ HandedOverIsStored(k) /\ ServedIsStored(k)

Current == state.connected /\ ~client.closed /\ ~overlapped
AllOnTheWay == Current => \A k \in Keys : OnTheWay(k)

DeliveryInv == TypeOK /\ OneDrains /\ DrainedWhileDelivering /\ OneBuilds /\ AllOnTheWay

-----------------------------------------------------------------------------
(* Types                                                                   *)

LEMMA RestType == Rest \in Calls /\ NoUpdate \in Updates
BY DEF Rest, NoUpdate, Calls, Updates, Values, Places, Settled

LEMMA FullType == ASSUME NEW configs \in Values PROVE Full(configs) \in Updates
BY DEF Full, Updates

LEMMA DeltaType == ASSUME NEW k \in Keys, NEW v \in Nat PROVE Delta(k, v) \in Updates
BY DEF Delta, NoUpdate, Updates, Values

(* What a thread becomes is where it then is; the others stay.             *)
LEMMA Others ==
  ASSUME TypeOK, NEW t \in Threads, NEW record, Becomes(t, record)
  PROVE  call'[t] = record /\ \A u \in Threads : u # t => call'[u] = call[u]
BY DEF TypeOK, Becomes

(* A call keeps its type when its place and its update change.             *)
LEMMA CallType ==
  ASSUME NEW record \in Calls, NEW pc \in Places, NEW update \in Updates
  PROVE  /\ [record EXCEPT !.pc = pc, !.update = update] \in Calls
         /\ [record EXCEPT !.pc = pc] \in Calls
BY DEF Calls

LEMMA DeliversType ==
  ASSUME TypeOK, NEW t \in Threads, NEW update \in Updates, NEW record \in Calls,
         Delivers(t, update, record)
  PROVE  /\ call' \in [Threads -> Calls] /\ overlapped' \in BOOLEAN
         /\ call'[t] = [record EXCEPT !.pc = "deliver", !.update = update]
         /\ \A u \in Threads : u # t => call'[u] = call[u]
<1>1. [record EXCEPT !.pc = "deliver", !.update = update] \in Calls
  BY CallType DEF Places
<1>2. call' \in [Threads -> Calls]
  BY <1>1 DEF TypeOK, Delivers, Becomes
<1>3. overlapped' \in BOOLEAN
  BY DEF TypeOK, Delivers
<1>. QED
  BY <1>2, <1>3, Others DEF Delivers

(* The calls a thread can come to be in.                                   *)
LEMMA NewCalls ==
  ASSUME NEW n \in Nat, NEW m \in Nat, NEW pc \in Places, NEW outcome \in Settled
  PROVE  /\ [Rest EXCEPT !.settles = n, !.outcome = outcome] \in Calls
         /\ [Rest EXCEPT !.pc = pc, !.settles = n, !.outcome = outcome] \in Calls
         /\ [Rest EXCEPT !.pc = pc, !.settles = n, !.attempt = m] \in Calls
         /\ [Rest EXCEPT !.pc = pc, !.settles = n] \in Calls
         /\ [Rest EXCEPT !.pc = pc, !.attempt = m] \in Calls
         /\ [Rest EXCEPT !.pc = pc] \in Calls
BY RestType DEF Rest, Calls

LEMMA DeliveredType ==
  ASSUME TypeOK, NEW t \in Threads
  PROVE  Delivered(t) \in Calls
BY RestType, CallType DEF Delivered, TypeOK, Places

(* The three operations that change values are one kind of step.           *)
Change(t) ==
  \E configs \in Values, armed \in {"none", "hold", "failure"}, update \in Updates :
    /\ Changes(t, configs, armed, update)
    /\ \A k \in Keys : Mentions(update, k) => update.configs[k] = configs[k]
    /\ \A k \in Keys : ~Mentions(update, k) => configs[k] = state.configs[k]

LEMMA ChangeSteps ==
  ASSUME TypeOK, NEW t \in Testers,
         \/ \E k \in Keys : SetValue(t, k) \/ RemoveValue(t, k)
         \/ \E keys \in SUBSET Keys : ReplaceValues(t, keys)
  PROVE  Change(t)
<1>0. ops \in Nat /\ ops + 1 \in Nat /\ state.configs \in Values
      /\ state.armed \in {"none", "hold", "failure"}
  BY DEF TypeOK
<1>1. CASE \E k \in Keys : SetValue(t, k)
  <2>1. PICK k \in Keys : SetValue(t, k)
    BY <1>1
  <2> DEFINE configs == [state.configs EXCEPT ![k] = ops + 1]
             update == Delta(k, ops + 1)
  <2>2. Changes(t, configs, state.armed, update)
    BY <2>1 DEF SetValue
  <2>3. configs \in Values /\ update \in Updates
    BY <1>0, DeltaType DEF Values
  <2>4. /\ update.kind = "delta"
        /\ update.configs[k] = ops + 1
        /\ \A l \in Keys : l # k => update.configs[l] = 0
    BY DEF Delta, NoUpdate
  <2>5. configs[k] = ops + 1 /\ \A l \in Keys : l # k => configs[l] = state.configs[l]
    BY <1>0 DEF Values
  <2>6. ops + 1 # 0
    BY <1>0
  <2>7. \A l \in Keys : Mentions(update, l) <=> l = k
    BY <2>4, <2>6 DEF Mentions
  <2> HIDE DEF configs, update
  <2>. QED
    BY <1>0, <2>2, <2>3, <2>4, <2>5, <2>7 DEF Change
<1>2. CASE \E k \in Keys : RemoveValue(t, k)
  <2>1. PICK k \in Keys : RemoveValue(t, k)
    BY <1>2
  <2> DEFINE configs == [state.configs EXCEPT ![k] = 0]
  <2>2. Changes(t, configs, state.armed, Full(configs))
    BY <2>1 DEF RemoveValue
  <2>3. configs \in Values
    BY <1>0 DEF Values
  <2> HIDE DEF configs
  <2>4. Full(configs) \in Updates /\ Full(configs).configs = configs
    BY <2>3, FullType DEF Full
  <2>5. \A l \in Keys : Mentions(Full(configs), l)
    BY DEF Full, Mentions
  <2>. QED
    BY <1>0, <2>2, <2>3, <2>4, <2>5 DEF Change
<1>3. CASE \E keys \in SUBSET Keys : ReplaceValues(t, keys)
  <2>1. PICK keys \in SUBSET Keys : ReplaceValues(t, keys)
    BY <1>3
  <2> DEFINE configs == [k \in Keys |-> IF k \in keys THEN ops + 1 ELSE 0]
  <2>2. Changes(t, configs, "none", Full(configs))
    BY <2>1 DEF ReplaceValues
  <2>3. configs \in Values
    BY <1>0 DEF Values
  <2> HIDE DEF configs
  <2>4. Full(configs) \in Updates /\ Full(configs).configs = configs
    BY <2>3, FullType DEF Full
  <2>5. \A l \in Keys : Mentions(Full(configs), l)
    BY DEF Full, Mentions
  <2>. QED
    BY <1>0, <2>2, <2>3, <2>4, <2>5 DEF Change
<1>. QED
  BY <1>1, <1>2, <1>3

(* The steps of Next, for one thread.                                      *)
Steps(t) ==
  \/ Change(t)
  \/ HoldInitialization(t) \/ CompleteInitialization(t) \/ FailInitialization(t) \/ Close(t)
  \/ Initialize(t) \/ HeldTimesOut(t)
  \/ Proceeds(t)

LEMMA NextSteps ==
  ASSUME TypeOK, Next
  PROVE  \E t \in Threads : Steps(t)
<1>1. Testers \subseteq Threads /\ Initializers \subseteq Threads
  BY DEF Threads
<1>2. CASE \E t \in Testers :
       \/ \E k \in Keys : SetValue(t, k) \/ RemoveValue(t, k)
       \/ \E keys \in SUBSET Keys : ReplaceValues(t, keys)
  BY <1>1, <1>2, ChangeSteps DEF Steps
<1>3. CASE \E t \in Testers : \/ HoldInitialization(t) \/ CompleteInitialization(t)
                              \/ FailInitialization(t) \/ Close(t)
  BY <1>1, <1>3 DEF Steps
<1>4. CASE \E t \in Initializers : Initialize(t) \/ HeldTimesOut(t)
  BY <1>1, <1>4 DEF Steps
<1>5. CASE \E t \in Threads : Proceeds(t)
  BY <1>5 DEF Steps
<1>. QED
  BY <1>2, <1>3, <1>4, <1>5 DEF Next

LEMMA TypeInit ==
  ASSUME Init
  PROVE  TypeOK
<1>1. NoUpdate.configs \in Values
  BY DEF NoUpdate, Values
<1>2. queue \in [pending: Seq(Updates), delivering: BOOLEAN]
  <2>1. <<>> \in Seq(Updates)
    BY EmptySeq
  <2>. QED
    BY <2>1 DEF Init
<1>3. [k \in Keys |-> IF k \in Given THEN 1 ELSE 0] \in Values
  BY DEF Values
<1>4. state \in [configs: Values, armed: {"none", "hold", "failure"}, held: Nat,
                 connected: BOOLEAN]
  BY <1>3 DEF Init
<1>. QED
  BY <1>1, <1>2, <1>4, RestType DEF Init, TypeOK, Settled

LEMMA TypeSteps ==
  ASSUME TypeOK, NEW t \in Threads, Steps(t)
  PROVE  TypeOK'
<1>0. /\ ops \in Nat /\ state.configs \in Values /\ state.held \in Nat
      /\ call \in [Threads -> Calls] /\ call[t] \in Calls
      /\ call[t].settles \in Nat /\ call[t].attempt \in Nat /\ call[t].outcome \in Settled
      /\ call[t].update \in Updates
  BY DEF TypeOK, Calls
<1>1. CASE Change(t)
  <2>1. PICK configs \in Values, armed \in {"none", "hold", "failure"}, update \in Updates :
          Changes(t, configs, armed, update)
    BY <1>1 DEF Change
  <2>2. call' \in [Threads -> Calls] /\ overlapped' \in BOOLEAN
    BY <2>1, RestType, DeliversType DEF Changes, TypeOK
  <2>3. state' \in [configs: Values, armed: {"none", "hold", "failure"}, held: Nat,
                    connected: BOOLEAN]
    BY <2>1 DEF Changes, TypeOK
  <2>4. ops' \in Nat
    BY <1>0, <2>1 DEF Changes
  <2>. QED
    BY <2>1, <2>2, <2>3, <2>4 DEF Changes, TypeOK
<1>2. CASE HoldInitialization(t)
  BY <1>2 DEF HoldInitialization, TypeOK
<1>3. CASE CompleteInitialization(t)
  <2>1. CASE state.held # 0
    <3> DEFINE record == [Rest EXCEPT !.settles = state.held, !.outcome = "completed"]
    <3>1. record \in Calls
      BY <1>0, NewCalls DEF Settled, Places
    <3>2. Delivers(t, Full(state.configs), record)
      BY <1>3, <2>1 DEF CompleteInitialization
    <3> HIDE DEF record
    <3>3. call' \in [Threads -> Calls] /\ overlapped' \in BOOLEAN
      BY <1>0, <3>1, <3>2, DeliversType, FullType
    <3>4. state' \in [configs: Values, armed: {"none", "hold", "failure"}, held: Nat,
                      connected: BOOLEAN]
      <4>1. state' = [state EXCEPT !.held = 0, !.connected = TRUE]
        BY <1>3, <2>1 DEF CompleteInitialization
      <4>. QED
        BY <4>1 DEF TypeOK
    <3>. QED
      BY <1>3, <3>3, <3>4 DEF CompleteInitialization, TypeOK
  <2>2. CASE state.held = 0
    BY <1>3, <2>2 DEF CompleteInitialization, TypeOK
  <2>. QED
    BY <2>1, <2>2
<1>4. CASE FailInitialization(t)
  <2>1. call' \in [Threads -> Calls]
    <3>1. [Rest EXCEPT !.pc = "settle", !.settles = state.held, !.outcome = "failed"] \in Calls
      BY <1>0, NewCalls DEF Settled, Places
    <3>. QED
      BY <1>0, <1>4, <3>1 DEF FailInitialization, Becomes
  <2>2. state' \in [configs: Values, armed: {"none", "hold", "failure"}, held: Nat,
                    connected: BOOLEAN]
    BY <1>4 DEF FailInitialization, TypeOK
  <2>. QED
    BY <1>4, <2>1, <2>2 DEF FailInitialization, TypeOK
<1>5. CASE Close(t)
  <2>1. call' \in [Threads -> Calls]
    <3>1. [Rest EXCEPT !.pc = "close"] \in Calls
      BY <1>0, NewCalls DEF Settled, Places
    <3>. QED
      BY <1>0, <1>5, <3>1 DEF Close, Becomes
  <2>. QED
    BY <1>5, <2>1 DEF Close, TypeOK
<1>6. CASE Initialize(t)
  <2>1. call' \in [Threads -> Calls]
    <3>1. [Rest EXCEPT !.pc = "connect"] \in Calls
      BY <1>0, NewCalls DEF Settled, Places
    <3>. QED
      BY <1>0, <1>6, <3>1 DEF Initialize, Becomes
  <2>. QED
    BY <1>6, <2>1 DEF Initialize, TypeOK
<1>7. CASE HeldTimesOut(t)
  <2>1. call' \in [Threads -> Calls]
    BY <1>0, <1>7, RestType DEF HeldTimesOut, Becomes
  <2>. QED
    BY <1>0, <1>7, <2>1 DEF HeldTimesOut, TypeOK, Settled
<1>8. CASE Settle(t)
  <2>1. call' \in [Threads -> Calls]
    <3> DEFINE pc == IF call[t].attempt # 0 THEN "picked up" ELSE Rest.pc
    <3>1. [Rest EXCEPT !.pc = pc, !.attempt = call[t].attempt] \in Calls
      BY <1>0, NewCalls DEF Settled, Places, Rest
    <3>2. call' = [call EXCEPT ![t] = [Rest EXCEPT !.pc = pc, !.attempt = call[t].attempt]]
      BY <1>8 DEF Settle, Becomes
    <3>. QED
      BY <1>0, <3>1, <3>2
  <2>. QED
    BY <1>0, <1>8, <2>1 DEF Settle, TypeOK
<1>9. CASE CloseTransport(t)
  <2>1. call' \in [Threads -> Calls]
    <3>1. [Rest EXCEPT !.pc = "settle", !.settles = state.held] \in Calls
      BY <1>0, NewCalls DEF Settled, Places
    <3>. QED
      BY <1>0, <1>9, <3>1, RestType DEF CloseTransport, Becomes
  <2>. QED
    BY <1>9, <2>1 DEF CloseTransport, TypeOK
<1>10. CASE \E n \in Attempts : Connect(t, n)
  <2>1. PICK n \in Attempts : Connect(t, n)
    BY <1>10
  <2>2. n \in Nat
    BY InMemoryAssumption DEF Attempts
  <2>3. call' \in [Threads -> Calls]
    <3> DEFINE pc == IF state.held # 0 THEN "settle" ELSE "picked up"
    <3>1. [Rest EXCEPT !.pc = pc, !.settles = state.held, !.attempt = n] \in Calls
      BY <1>0, <2>2, NewCalls DEF Settled, Places
    <3>. QED
      BY <1>0, <2>1, <3>1 DEF Connect, TakesOver, Becomes
  <2>4. state' \in [configs: Values, armed: {"none", "hold", "failure"}, held: Nat,
                    connected: BOOLEAN]
    BY <2>1, <2>2 DEF Connect, TakesOver, TypeOK
  <2>. QED
    BY <2>1, <2>3, <2>4 DEF Connect, TakesOver, TypeOK
<1>11. CASE ConnectRaises(t) \/ HeldSettled(t)
  <2>1. call' \in [Threads -> Calls]
    BY <1>0, <1>11, RestType DEF ConnectRaises, HeldSettled, Becomes
  <2>. QED
    BY <1>11, <2>1 DEF ConnectRaises, HeldSettled, TypeOK
<1>12. CASE Connected(t)
  <2>1. call' \in [Threads -> Calls] /\ overlapped' \in BOOLEAN
    BY <1>0, <1>12, RestType, DeliversType, FullType DEF Connected
  <2>. QED
    BY <1>12, <2>1 DEF Connected, TypeOK
<1>13. CASE Enqueue(t)
  <2>1. call' \in [Threads -> Calls]
    <3>1. [call[t] EXCEPT !.pc = "drain", !.update = NoUpdate] \in Calls
      BY <1>0, RestType, CallType DEF Places
    <3>. QED
      BY <1>0, <1>13, <3>1, DeliveredType DEF Enqueue, Becomes
  <2>2. queue' \in [pending: Seq(Updates), delivering: BOOLEAN]
    <3>1. Append(queue.pending, call[t].update) \in Seq(Updates)
      BY <1>0, AppendProperties DEF TypeOK
    <3>. QED
      BY <1>13, <3>1 DEF Enqueue
  <2>. QED
    BY <1>13, <2>1, <2>2 DEF Enqueue, TypeOK
<1>14. CASE TakeUpdate(t)
  <2>0. queue.pending \in Seq(Updates) /\ queue.delivering \in BOOLEAN
    BY DEF TypeOK
  <2>1. CASE queue.pending = <<>>
    <3>1. call' \in [Threads -> Calls]
      BY <1>0, <1>14, <2>1, DeliveredType DEF TakeUpdate, Becomes
    <3>2. queue' \in [pending: Seq(Updates), delivering: BOOLEAN]
      BY <1>14, <2>1 DEF TakeUpdate, TypeOK
    <3>. QED
      BY <1>14, <3>1, <3>2 DEF TakeUpdate, TypeOK
  <2>2. CASE queue.pending # <<>>
    <3>0. Head(queue.pending) \in Updates /\ Tail(queue.pending) \in Seq(Updates)
      BY <2>0, <2>2, HeadTailProperties
    <3>1. call' \in [Threads -> Calls]
      <4>1. [call[t] EXCEPT !.pc = "hand over", !.update = Head(queue.pending)] \in Calls
        BY <1>0, <3>0, CallType DEF Places
      <4>. QED
        BY <1>0, <1>14, <2>2, <4>1 DEF TakeUpdate, Becomes
    <3>2. queue' \in [pending: Seq(Updates), delivering: BOOLEAN]
      BY <1>14, <2>2, <3>0 DEF TakeUpdate, TypeOK
    <3>. QED
      BY <1>14, <3>1, <3>2 DEF TakeUpdate, TypeOK
  <2>. QED
    BY <2>1, <2>2
<1>15. CASE HandOver(t)
  <2>1. call' \in [Threads -> Calls]
    <3>1. [call[t] EXCEPT !.pc = "drain", !.update = NoUpdate] \in Calls
      BY <1>0, RestType, CallType DEF Places
    <3>. QED
      BY <1>0, <1>15, <3>1 DEF HandOver, Becomes
  <2>2. client' \in [served: Values, closed: BOOLEAN]
    <3> DEFINE u == call[t].update.configs
    <3>1. u \in Values
      BY <1>0 DEF Updates
    <3>2. [k \in Keys |-> IF u[k] # 0 THEN u[k] ELSE client.served[k]] \in Values
      BY <3>1 DEF Values, TypeOK
    <3>. QED
      BY <1>15, <3>1, <3>2 DEF HandOver, TypeOK
  <2>. QED
    BY <1>15, <2>1, <2>2 DEF HandOver, TypeOK
<1>. QED
  BY <1>1, <1>2, <1>3, <1>4, <1>5, <1>6, <1>7, <1>8, <1>9, <1>10, <1>11, <1>12, <1>13,
     <1>14, <1>15 DEF Steps, Proceeds

-----------------------------------------------------------------------------
(* What the steps come to, for the delivery of updates: a step leaves it   *)
(* alone, builds an update, or is one of _deliver.                         *)
Elsewhere(place) == place \notin {"deliver", "drain", "hand over"}

LeavesAlone(t) ==
  /\ queue' = queue /\ overlapped' = overlapped /\ client'.served = client.served
  /\ Current' => Current /\ state'.configs = state.configs
  /\ Elsewhere(call[t].pc) /\ Elsewhere(call'[t].pc)
  /\ \A u \in Threads : u # t => call'[u] = call[u]

Builds(t) ==
  /\ queue' = queue /\ client' = client
  /\ overlapped' = (overlapped \/ \E u \in Threads \ {t} : At(u, "deliver"))
  /\ Elsewhere(call[t].pc) /\ call'[t].pc = "deliver"
  /\ \A u \in Threads : u # t => call'[u] = call[u]
  /\ \A k \in Keys : Mentions(call'[t].update, k)
                       => call'[t].update.configs[k] = state'.configs[k]
  /\ \A k \in Keys : ~Mentions(call'[t].update, k)
                       => state.connected /\ state'.configs[k] = state.configs[k]

(* A thread that has built a full update of what is stored.                *)
LEMMA BuildsFull ==
  ASSUME TypeOK, NEW t \in Threads, NEW record \in Calls,
         Delivers(t, Full(state.configs), record),
         state'.configs = state.configs, Elsewhere(call[t].pc),
         queue' = queue, client' = client
  PROVE  Builds(t)
<1>1. state.configs \in Values
  BY DEF TypeOK
<1>2. /\ call'[t] = [record EXCEPT !.pc = "deliver", !.update = Full(state.configs)]
      /\ \A u \in Threads : u # t => call'[u] = call[u]
  BY <1>1, FullType, DeliversType
<1>3. call'[t].pc = "deliver" /\ call'[t].update = Full(state.configs)
  BY <1>2 DEF Calls
<1>4. \A k \in Keys : Mentions(Full(state.configs), k)
  BY DEF Mentions, Full
<1>5. Full(state.configs).configs = state.configs
  BY DEF Full
<1>. QED
  BY <1>2, <1>3, <1>4, <1>5 DEF Builds, Delivers

LEMMA DeliveryKinds ==
  ASSUME TypeOK, NEW t \in Threads, Steps(t)
  PROVE  LeavesAlone(t) \/ Builds(t) \/ Enqueue(t) \/ TakeUpdate(t) \/ HandOver(t)
<1>1. CASE Change(t)
  <2>1. PICK configs \in Values, armed \in {"none", "hold", "failure"}, update \in Updates :
          /\ Changes(t, configs, armed, update)
          /\ \A k \in Keys : Mentions(update, k) => update.configs[k] = configs[k]
          /\ \A k \in Keys : ~Mentions(update, k) => configs[k] = state.configs[k]
    BY <1>1 DEF Change
  <2>2. state' = [state EXCEPT !.configs = configs, !.armed = armed] /\ call[t].pc = "idle"
    BY <2>1 DEF Changes, At
  <2>3. state'.configs = configs /\ state'.connected = state.connected
    BY <2>2 DEF TypeOK
  <2>4. Elsewhere(call[t].pc)
    BY <2>2 DEF Elsewhere
  <2>5. CASE state.connected
    <3>1. Delivers(t, update, Rest)
      BY <2>1, <2>5 DEF Changes
    <3>2. /\ call'[t] = [Rest EXCEPT !.pc = "deliver", !.update = update]
          /\ \A u \in Threads : u # t => call'[u] = call[u]
      BY <3>1, RestType, DeliversType
    <3>3. call'[t].pc = "deliver" /\ call'[t].update = update
      BY <3>2 DEF Rest
    <3>4. queue' = queue /\ client' = client
      BY <2>1 DEF Changes
    <3>. QED
      BY <2>1, <2>3, <2>4, <2>5, <3>1, <3>2, <3>3, <3>4 DEF Builds, Delivers
  <2>6. CASE ~state.connected
    <3>1. UNCHANGED <<call, overlapped, queue, client>>
      BY <2>1, <2>6 DEF Changes
    <3>2. ~Current'
      BY <2>3, <2>6 DEF Current
    <3>. QED
      BY <2>4, <3>1, <3>2 DEF LeavesAlone
  <2>. QED
    BY <2>5, <2>6
<1>2. CASE HoldInitialization(t)
  <2>1. /\ call[t].pc = "idle" /\ state' = [state EXCEPT !.armed = "hold"]
        /\ UNCHANGED <<queue, call, client, overlapped>>
    BY <1>2 DEF HoldInitialization, At
  <2>2. state'.configs = state.configs /\ state'.connected = state.connected
    BY <2>1 DEF TypeOK
  <2>. QED
    BY <2>1, <2>2 DEF LeavesAlone, Current, Elsewhere
<1>3. CASE CompleteInitialization(t)
  <2>0. call[t].pc = "idle" /\ UNCHANGED <<queue, client>> /\ state.held \in Nat
    BY <1>3 DEF CompleteInitialization, At, TypeOK
  <2>1. CASE state.held # 0
    <3> DEFINE record == [Rest EXCEPT !.settles = state.held, !.outcome = "completed"]
    <3>1. record \in Calls
      BY <2>0, NewCalls DEF Settled, Places
    <3>2. Delivers(t, Full(state.configs), record)
      BY <1>3, <2>1 DEF CompleteInitialization
    <3>3. state' = [state EXCEPT !.held = 0, !.connected = TRUE]
      BY <1>3, <2>1 DEF CompleteInitialization
    <3>4. state'.configs = state.configs
      BY <3>3 DEF TypeOK
    <3> HIDE DEF record
    <3>. QED
      BY <2>0, <3>1, <3>2, <3>4, BuildsFull DEF Elsewhere
  <2>2. CASE state.held = 0
    <3>1. state' = [state EXCEPT !.armed = "none"] /\ UNCHANGED <<call, overlapped>>
      BY <1>3, <2>2 DEF CompleteInitialization
    <3>2. state'.configs = state.configs /\ state'.connected = state.connected
      BY <3>1 DEF TypeOK
    <3>. QED
      BY <2>0, <3>1, <3>2 DEF LeavesAlone, Current, Elsewhere
  <2>. QED
    BY <2>1, <2>2
<1>4. CASE FailInitialization(t)
  <2>1. call[t].pc = "idle" /\ UNCHANGED <<queue, client, overlapped>>
    BY <1>4 DEF FailInitialization, At
  <2>2. state'.configs = state.configs /\ state'.connected = state.connected
    BY <1>4 DEF FailInitialization, TypeOK
  <2>3. /\ call'[t].pc \in {"idle", "settle"}
        /\ \A u \in Threads : u # t => call'[u] = call[u]
    BY <1>4, <2>1, Others DEF FailInitialization, Rest
  <2>. QED
    BY <2>1, <2>2, <2>3 DEF LeavesAlone, Current, Elsewhere
<1>5. CASE Close(t)
  <2>1. /\ call[t].pc = "idle" /\ UNCHANGED <<queue, state, overlapped>>
        /\ Becomes(t, [Rest EXCEPT !.pc = "close"])
    BY <1>5 DEF Close, At
  <2>2. client'.served = client.served /\ client'.closed
    BY <1>5 DEF Close, TypeOK
  <2>3. /\ call'[t].pc = "close"
        /\ \A u \in Threads : u # t => call'[u] = call[u]
    BY <2>1, Others DEF Rest
  <2>. QED
    BY <2>1, <2>2, <2>3 DEF LeavesAlone, Current, Elsewhere
<1>6. CASE Initialize(t)
  <2>1. /\ call[t].pc = "idle" /\ UNCHANGED <<queue, state, client, overlapped>>
        /\ Becomes(t, [Rest EXCEPT !.pc = "connect"])
    BY <1>6 DEF Initialize, At
  <2>2. /\ call'[t].pc = "connect"
        /\ \A u \in Threads : u # t => call'[u] = call[u]
    BY <2>1, Others DEF Rest
  <2>. QED
    BY <2>1, <2>2 DEF LeavesAlone, Current, Elsewhere
<1>7. CASE HeldTimesOut(t)
  <2>1. call[t].pc = "picked up" /\ UNCHANGED <<queue, client, overlapped>> /\ Becomes(t, Rest)
    BY <1>7 DEF HeldTimesOut, At
  <2>2. state'.configs = state.configs /\ state'.connected = state.connected
    BY <1>7 DEF HeldTimesOut, TypeOK
  <2>3. /\ call'[t].pc = "idle"
        /\ \A u \in Threads : u # t => call'[u] = call[u]
    <3>1. call'[t] = Rest /\ \A u \in Threads : u # t => call'[u] = call[u]
      BY <2>1, Others
    <3>. QED
      BY <3>1 DEF Rest
  <2>. QED
    BY <2>1, <2>2, <2>3 DEF LeavesAlone, Current, Elsewhere
<1>8. CASE Settle(t)
  <2>1. call[t].pc = "settle" /\ UNCHANGED <<queue, state, client, overlapped>>
    BY <1>8 DEF Settle, At
  <2>2. /\ call'[t].pc \in {"idle", "picked up"}
        /\ \A u \in Threads : u # t => call'[u] = call[u]
    <3> DEFINE record == [Rest EXCEPT !.pc = IF call[t].attempt # 0 THEN "picked up" ELSE @,
                                      !.attempt = call[t].attempt]
    <3>1. Becomes(t, record)
      BY <1>8 DEF Settle
    <3>2. record.pc \in {"idle", "picked up"}
      BY DEF Rest
    <3> HIDE DEF record
    <3>. QED
      BY <3>1, <3>2, Others
  <2>. QED
    BY <2>1, <2>2 DEF LeavesAlone, Current, Elsewhere
<1>9. CASE CloseTransport(t)
  <2>1. call[t].pc = "close" /\ UNCHANGED <<queue, client, overlapped>>
    BY <1>9 DEF CloseTransport, At
  <2>2. ~state'.connected
    BY <1>9 DEF CloseTransport, TypeOK
  <2>3. /\ call'[t].pc \in {"idle", "settle"}
        /\ \A u \in Threads : u # t => call'[u] = call[u]
    <3> DEFINE record == IF state.held = 0 THEN Rest
                         ELSE [Rest EXCEPT !.pc = "settle", !.settles = state.held]
    <3>1. Becomes(t, record)
      BY <1>9 DEF CloseTransport
    <3>2. record.pc \in {"idle", "settle"}
      BY DEF Rest
    <3> HIDE DEF record
    <3>. QED
      BY <3>1, <3>2, Others
  <2>. QED
    BY <2>1, <2>2, <2>3 DEF LeavesAlone, Current, Elsewhere
<1>10. CASE \E n \in Attempts : Connect(t, n)
  <2>0. PICK n \in Attempts : Connect(t, n)
    BY <1>10
  <2>1. call[t].pc = "connect" /\ UNCHANGED <<queue, client, overlapped>>
    BY <2>0 DEF Connect, TakesOver, At
  <2>2. ~state'.connected
    BY <2>0 DEF Connect, TakesOver, TypeOK
  <2>3. /\ call'[t].pc \in {"picked up", "settle"}
        /\ \A u \in Threads : u # t => call'[u] = call[u]
    <3> DEFINE record == [Rest EXCEPT !.pc = IF state.held # 0 THEN "settle" ELSE "picked up",
                                      !.settles = state.held, !.attempt = n]
    <3>1. Becomes(t, record)
      BY <2>0 DEF Connect, TakesOver
    <3>2. record.pc \in {"picked up", "settle"}
      BY DEF Rest
    <3> HIDE DEF record
    <3>. QED
      BY <3>1, <3>2, Others
  <2>. QED
    BY <2>1, <2>2, <2>3 DEF LeavesAlone, Current, Elsewhere
<1>11. CASE ConnectRaises(t) \/ HeldSettled(t)
  <2>1. /\ call[t].pc = "picked up" /\ UNCHANGED <<queue, state, client, overlapped>>
        /\ Becomes(t, Rest)
    BY <1>11 DEF ConnectRaises, HeldSettled, At
  <2>2. /\ call'[t].pc = "idle"
        /\ \A u \in Threads : u # t => call'[u] = call[u]
    <3>1. call'[t] = Rest /\ \A u \in Threads : u # t => call'[u] = call[u]
      BY <2>1, Others
    <3>. QED
      BY <3>1 DEF Rest
  <2>. QED
    BY <2>1, <2>2 DEF LeavesAlone, Current, Elsewhere
<1>12. CASE Connected(t)
  <2>1. /\ call[t].pc = "picked up" /\ queue' = queue /\ client' = client
        /\ state' = [state EXCEPT !.connected = TRUE]
        /\ Delivers(t, Full(state.configs), Rest)
    BY <1>12 DEF Connected, At
  <2>2. state'.configs = state.configs
    BY <2>1 DEF TypeOK
  <2>. QED
    BY <2>1, <2>2, RestType, BuildsFull DEF Elsewhere
<1>. QED
  BY <1>1, <1>2, <1>3, <1>4, <1>5, <1>6, <1>7, <1>8, <1>9, <1>10, <1>11, <1>12
     DEF Steps, Proceeds

(* What the three steps of _deliver do to the thread that takes them.      *)
LEMMA EnqueueStep ==
  ASSUME TypeOK, NEW t \in Threads, Enqueue(t)
  PROVE  /\ call[t].pc = "deliver"
         /\ queue'.pending = Append(queue.pending, call[t].update) /\ queue'.delivering
         /\ call'[t].pc \in IF queue.delivering THEN {"idle", "settle"} ELSE {"drain"}
         /\ \A u \in Threads : u # t => call'[u] = call[u]
         /\ UNCHANGED <<state, client, overlapped>>
<1> DEFINE record == IF queue.delivering THEN Delivered(t)
                     ELSE [call[t] EXCEPT !.pc = "drain", !.update = NoUpdate]
<1>1. call[t] \in Calls
  BY DEF TypeOK
<1>2. Becomes(t, record) /\ call[t].pc = "deliver" /\ UNCHANGED <<state, client, overlapped>>
  BY DEF Enqueue, At
<1>3. queue' = [pending |-> Append(queue.pending, call[t].update), delivering |-> TRUE]
  BY DEF Enqueue
<1>4. record.pc \in IF queue.delivering THEN {"idle", "settle"} ELSE {"drain"}
  BY <1>1 DEF Delivered, Calls
<1> HIDE DEF record
<1>. QED
  BY <1>2, <1>3, <1>4, Others

LEMMA TakeStep ==
  ASSUME TypeOK, NEW t \in Threads, TakeUpdate(t)
  PROVE  /\ call[t].pc = "drain"
         /\ \/ /\ queue.pending = <<>> /\ queue'.pending = <<>> /\ ~queue'.delivering
               /\ call'[t].pc \in {"idle", "settle"}
            \/ /\ queue.pending # <<>> /\ queue'.pending = Tail(queue.pending)
               /\ queue'.delivering = queue.delivering
               /\ call'[t].pc = "hand over" /\ call'[t].update = Head(queue.pending)
         /\ \A u \in Threads : u # t => call'[u] = call[u]
         /\ UNCHANGED <<state, client, overlapped>>
<1>1. call[t] \in Calls
  BY DEF TypeOK
<1>2. call[t].pc = "drain" /\ UNCHANGED <<state, client, overlapped>>
  BY DEF TakeUpdate, At
<1>3. CASE queue.pending = <<>>
  <2>1. queue' = [queue EXCEPT !.delivering = FALSE] /\ Becomes(t, Delivered(t))
    BY <1>3 DEF TakeUpdate
  <2>2. queue'.pending = queue.pending /\ ~queue'.delivering
    BY <2>1 DEF TypeOK
  <2>3. Delivered(t).pc \in {"idle", "settle"}
    BY <1>1 DEF Delivered, Calls
  <2>. QED
    BY <1>2, <1>3, <2>1, <2>2, <2>3, Others
<1>4. CASE queue.pending # <<>>
  <2> DEFINE record == [call[t] EXCEPT !.pc = "hand over", !.update = Head(queue.pending)]
  <2>1. queue' = [queue EXCEPT !.pending = Tail(queue.pending)] /\ Becomes(t, record)
    BY <1>4 DEF TakeUpdate
  <2>2. queue'.pending = Tail(queue.pending) /\ queue'.delivering = queue.delivering
    BY <2>1 DEF TypeOK
  <2>3. record.pc = "hand over" /\ record.update = Head(queue.pending)
    BY <1>1 DEF Calls
  <2> HIDE DEF record
  <2>4. call'[t] = record /\ \A u \in Threads : u # t => call'[u] = call[u]
    BY <2>1, Others
  <2>. QED
    BY <1>2, <1>4, <2>2, <2>3, <2>4
<1>. QED
  BY <1>3, <1>4

LEMMA HandOverStep ==
  ASSUME TypeOK, NEW t \in Threads, HandOver(t)
  PROVE  /\ call[t].pc = "hand over"
         /\ client'.closed = client.closed
         /\ ~client.closed =>
              \A k \in Keys : client'.served[k] = IF Mentions(call[t].update, k)
                                                  THEN call[t].update.configs[k]
                                                  ELSE client.served[k]
         /\ call'[t].pc = "drain"
         /\ \A u \in Threads : u # t => call'[u] = call[u]
         /\ UNCHANGED <<state, queue, overlapped>>
<1>1. call[t] \in Calls /\ call[t].update \in Updates
  BY DEF TypeOK, Calls
<1>2. call[t].pc = "hand over" /\ UNCHANGED <<state, queue, overlapped>>
  BY DEF HandOver, At
<1> DEFINE record == [call[t] EXCEPT !.pc = "drain", !.update = NoUpdate]
           u == call[t].update.configs
<1>3. Becomes(t, record)
  BY DEF HandOver
<1>4. record.pc = "drain"
  BY <1>1 DEF Calls
<1>5. CASE client.closed
  <2>1. client' = client
    BY <1>5 DEF HandOver
  <2> HIDE DEF record
  <2>. QED
    BY <1>2, <1>3, <1>4, <1>5, <2>1, Others
<1>6. CASE ~client.closed
  <2>1. client' = [client EXCEPT !.served =
                     IF call[t].update.kind = "full" THEN u
                     ELSE [k \in Keys |-> IF u[k] # 0 THEN u[k] ELSE client.served[k]]]
    BY <1>6 DEF HandOver
  <2>2. client'.closed = client.closed
    BY <2>1 DEF TypeOK
  <2>3. client'.served = IF call[t].update.kind = "full" THEN u
                         ELSE [k \in Keys |-> IF u[k] # 0 THEN u[k] ELSE client.served[k]]
    BY <2>1 DEF TypeOK
  <2>4. \A k \in Keys : client'.served[k] = IF Mentions(call[t].update, k)
                                            THEN u[k] ELSE client.served[k]
    BY <2>3 DEF Mentions
  <2> HIDE DEF record
  <2>. QED
    BY <1>2, <1>3, <1>4, <2>2, <2>4, Others
<1>. QED
  BY <1>5, <1>6

-----------------------------------------------------------------------------
(* One thread drains the queue; one thread builds an update.               *)
LEMMA DrainingKept ==
  ASSUME TypeOK, OneDrains, DrainedWhileDelivering, NEW t \in Threads,
         LeavesAlone(t) \/ Builds(t) \/ Enqueue(t) \/ TakeUpdate(t) \/ HandOver(t)
  PROVE  OneDrains' /\ DrainedWhileDelivering'
<1>1. CASE LeavesAlone(t)
  BY <1>1 DEF LeavesAlone, Elsewhere, OneDrains, DrainedWhileDelivering, Draining
<1>2. CASE Builds(t)
  BY <1>2 DEF Builds, Elsewhere, OneDrains, DrainedWhileDelivering, Draining
<1>3. CASE Enqueue(t)
  <2>1. CASE queue.delivering
    BY <1>3, <2>1, EnqueueStep DEF OneDrains, DrainedWhileDelivering, Draining
  <2>2. CASE ~queue.delivering
    BY <1>3, <2>2, EnqueueStep DEF OneDrains, DrainedWhileDelivering, Draining
  <2>. QED
    BY <2>1, <2>2
<1>4. CASE TakeUpdate(t)
  BY <1>4, TakeStep, ZenonT(60) DEF OneDrains, DrainedWhileDelivering, Draining
<1>5. CASE HandOver(t)
  BY <1>5, HandOverStep, ZenonT(60) DEF OneDrains, DrainedWhileDelivering, Draining
<1>. QED
  BY <1>1, <1>2, <1>3, <1>4, <1>5

LEMMA OneBuildsKept ==
  ASSUME TypeOK, OneBuilds, NEW t \in Threads,
         LeavesAlone(t) \/ Builds(t) \/ Enqueue(t) \/ TakeUpdate(t) \/ HandOver(t)
  PROVE  OneBuilds'
<1>1. CASE LeavesAlone(t)
  BY <1>1 DEF LeavesAlone, Elsewhere, OneBuilds, At
<1>2. CASE Builds(t)
  BY <1>2, ZenonT(60) DEF Builds, Elsewhere, OneBuilds, At
<1>3. CASE Enqueue(t)
  BY <1>3, EnqueueStep DEF OneBuilds, At
<1>4. CASE TakeUpdate(t)
  BY <1>4, TakeStep DEF OneBuilds, At
<1>5. CASE HandOver(t)
  BY <1>5, HandOverStep, ZenonT(60) DEF OneBuilds, At
<1>. QED
  BY <1>1, <1>2, <1>3, <1>4, <1>5

-----------------------------------------------------------------------------
(* The last update on its way that mentions a key carries its value.       *)
LEMMA LeftOnTheWay ==
  ASSUME NEW t \in Threads, NEW k \in Keys, LeavesAlone(t), Current', OnTheWay(k)
  PROVE  OnTheWay(k)'
<1>1. /\ queue' = queue /\ client'.served = client.served /\ state'.configs = state.configs
      /\ call[t].pc \notin {"deliver", "drain", "hand over"}
      /\ call'[t].pc \notin {"deliver", "drain", "hand over"}
      /\ \A u \in Threads : u # t => call'[u] = call[u]
  BY DEF LeavesAlone, Elsewhere
<1>2. BuiltFor(k)' <=> BuiltFor(k)
  BY <1>1 DEF BuiltFor, At, Mentions
<1>3. HandedOverFor(k)' <=> HandedOverFor(k)
  BY <1>1 DEF HandedOverFor, At, Mentions
<1>4. QueuedFor(k)' <=> QueuedFor(k)
  BY <1>1 DEF QueuedFor, Mentions
<1>5. BuiltIsStored(k)'
  BY <1>1 DEF OnTheWay, BuiltIsStored, At, Mentions
<1>6. QueuedIsStored(k)'
  BY <1>1, <1>2 DEF OnTheWay, QueuedIsStored, LastQueued, Mentions
<1>7. HandedOverIsStored(k)'
  BY <1>1, <1>2, <1>4 DEF OnTheWay, HandedOverIsStored, At, Mentions
<1>8. ServedIsStored(k)'
  BY <1>1, <1>2, <1>3, <1>4 DEF OnTheWay, ServedIsStored
<1>. QED
  BY <1>5, <1>6, <1>7, <1>8 DEF OnTheWay

LEMMA BuiltOnTheWay ==
  ASSUME AllOnTheWay, NEW t \in Threads, NEW k \in Keys, Builds(t), Current'
  PROVE  OnTheWay(k)'
<1>1. /\ queue' = queue /\ client' = client
      /\ ~overlapped /\ ~client.closed
      /\ \A u \in Threads : u # t => call[u].pc # "deliver" /\ call'[u] = call[u]
      /\ call[t].pc \notin {"deliver", "drain", "hand over"} /\ call'[t].pc = "deliver"
  BY DEF Builds, Elsewhere, Current, At
<1>2. BuiltIsStored(k)'
  BY <1>1 DEF Builds, BuiltIsStored, At
<1>3. CASE Mentions(call'[t].update, k)
  <2>1. BuiltFor(k)'
    BY <1>1, <1>3 DEF BuiltFor, At, Mentions
  <2>. QED
    BY <1>2, <2>1 DEF OnTheWay, QueuedIsStored, HandedOverIsStored, ServedIsStored
<1>4. CASE ~Mentions(call'[t].update, k)
  <2>1. state.connected /\ state'.configs[k] = state.configs[k]
    BY <1>4 DEF Builds
  <2>2. OnTheWay(k) /\ ~BuiltFor(k)
    BY <1>1, <2>1 DEF AllOnTheWay, Current, BuiltFor, At
  <2>3. HandedOverFor(k)' <=> HandedOverFor(k)
    BY <1>1 DEF HandedOverFor, At, Mentions
  <2>4. QueuedFor(k)' <=> QueuedFor(k)
    BY <1>1 DEF QueuedFor, Mentions
  <2>5. QueuedIsStored(k)'
    BY <1>1, <2>1, <2>2 DEF OnTheWay, QueuedIsStored, LastQueued, Mentions
  <2>6. HandedOverIsStored(k)'
    BY <1>1, <2>1, <2>2, <2>4 DEF OnTheWay, HandedOverIsStored, At, Mentions
  <2>7. ServedIsStored(k)'
    BY <1>1, <2>1, <2>2, <2>3, <2>4 DEF OnTheWay, ServedIsStored
  <2>. QED
    BY <1>2, <2>5, <2>6, <2>7 DEF OnTheWay
<1>. QED
  BY <1>3, <1>4

LEMMA EnqueuedOnTheWay ==
  ASSUME TypeOK, OneBuilds, NEW t \in Threads, NEW k \in Keys, Enqueue(t), Current',
         OnTheWay(k)
  PROVE  OnTheWay(k)'
<1> DEFINE update == call[t].update
           old == queue.pending
           new == queue'.pending
<1>1. /\ call[t].pc = "deliver" /\ new = Append(old, update)
      /\ call'[t].pc \notin {"deliver", "hand over"}
      /\ \A u \in Threads : u # t => call'[u] = call[u]
      /\ state' = state /\ client' = client /\ ~overlapped
  BY EnqueueStep DEF Current
<1>2. \A u \in Threads : u # t => call[u].pc # "deliver"
  BY <1>1 DEF OneBuilds, At
<1>3. ~BuiltFor(k)' /\ BuiltIsStored(k)'
  BY <1>1, <1>2 DEF BuiltFor, BuiltIsStored, At
<1>4. BuiltFor(k) <=> Mentions(update, k)
  BY <1>1, <1>2 DEF BuiltFor, At
<1>5. HandedOverFor(k)' <=> HandedOverFor(k)
  BY <1>1 DEF HandedOverFor, At, Mentions
<1>6. old \in Seq(Updates) /\ update \in Updates
  BY DEF TypeOK, Calls
<1>a. new = Append(old, update)
  BY <1>1
<1> HIDE DEF old, new, update
<1>7. /\ Len(old) \in Nat /\ Len(new) = Len(old) + 1 /\ new[Len(old) + 1] = update
      /\ \A i \in 1..Len(old) : new[i] = old[i]
  BY <1>6, <1>a
<1>8. QueuedFor(k)' <=> QueuedFor(k) \/ Mentions(update, k)
  <2>1. QueuedFor(k)' <=> \E i \in 1..Len(new) : Mentions(new[i], k)
    BY DEF QueuedFor, Mentions, new
  <2>2. QueuedFor(k) <=> \E i \in 1..Len(old) : Mentions(old[i], k)
    BY DEF QueuedFor, old
  <2>. QED
    BY <1>7, <2>1, <2>2
<1>9. QueuedIsStored(k)'
  <2> SUFFICES ASSUME NEW i \in 1..Len(new), Mentions(new[i], k),
                      \A j \in 1..Len(new) : i < j => ~Mentions(new[j], k)
               PROVE  new[i].configs[k] = state.configs[k]
    BY <1>1 DEF QueuedIsStored, LastQueued, Mentions, new
  <2>1. CASE i = Len(old) + 1
    <3>1. update.configs[k] = state.configs[k]
      BY <1>1, <1>7, <2>1 DEF OnTheWay, BuiltIsStored, At, update
    <3>. QED
      BY <1>7, <2>1, <3>1
  <2>2. CASE i # Len(old) + 1
    <3>1. i \in 1..Len(old) /\ i < Len(old) + 1
      BY <1>7, <2>2
    <3>2. ~Mentions(update, k)
      BY <1>7, <3>1
    <3>3. Mentions(old[i], k) /\ \A j \in 1..Len(old) : i < j => ~Mentions(old[j], k)
      BY <1>7, <3>1
    <3>4. LastQueued(k, i)
      BY <3>3 DEF LastQueued, old
    <3>5. old[i].configs[k] = state.configs[k]
      BY <1>4, <3>1, <3>2, <3>4 DEF OnTheWay, QueuedIsStored, old
    <3>. QED
      BY <1>7, <3>1, <3>5
  <2>. QED
    BY <2>1, <2>2
<1>10. HandedOverIsStored(k)'
  BY <1>1, <1>4, <1>8 DEF OnTheWay, HandedOverIsStored, At, Mentions
<1>11. ServedIsStored(k)'
  BY <1>1, <1>4, <1>5, <1>8 DEF OnTheWay, ServedIsStored
<1>. QED
  BY <1>3, <1>9, <1>10, <1>11 DEF OnTheWay

LEMMA TakenOnTheWay ==
  ASSUME TypeOK, OneDrains, NEW t \in Threads, NEW k \in Keys, TakeUpdate(t), OnTheWay(k)
  PROVE  OnTheWay(k)'
<1> DEFINE old == queue.pending
           new == queue'.pending
<1>1. /\ call[t].pc = "drain"
      /\ \A u \in Threads : u # t => call'[u] = call[u]
      /\ state' = state /\ client' = client /\ call'[t].pc # "deliver"
  BY TakeStep
<1>2. \A u \in Threads : call[u].pc # "hand over"
  BY <1>1 DEF OneDrains, Draining
<1>3. (BuiltFor(k)' <=> BuiltFor(k)) /\ BuiltIsStored(k)'
  BY <1>1 DEF OnTheWay, BuiltFor, BuiltIsStored, At, Mentions
<1>4. ~HandedOverFor(k)
  BY <1>2 DEF HandedOverFor, At
<1>5. CASE old = <<>>
  <2>1. new = old /\ call'[t].pc # "hand over"
    BY <1>5, TakeStep
  <2>2. QueuedFor(k)' <=> QueuedFor(k)
    BY <2>1 DEF QueuedFor, Mentions
  <2>3. QueuedIsStored(k)'
    BY <1>1, <1>3, <2>1, ZenonT(60) DEF OnTheWay, QueuedIsStored, LastQueued, Mentions
  <2>4. HandedOverIsStored(k)'
    BY <1>1, <1>2, <2>1 DEF HandedOverIsStored, At
  <2>5. ServedIsStored(k)'
    BY <1>1, <1>3, <1>4, <2>2 DEF OnTheWay, ServedIsStored
  <2>. QED
    BY <1>3, <2>3, <2>4, <2>5 DEF OnTheWay
<1>6. CASE old # <<>>
  <2>1. /\ new = Tail(old) /\ call'[t].pc = "hand over" /\ call'[t].update = Head(old)
    BY <1>6, TakeStep
  <2>a. old \in Seq(Updates) /\ old # <<>> /\ new = Tail(old)
    BY <1>6, <2>1 DEF TypeOK
  <2> HIDE DEF old, new
  <2>2. /\ Len(old) \in Nat /\ Len(old) > 0 /\ Len(new) = Len(old) - 1
        /\ Head(old) = old[1] /\ \A i \in 1..Len(new) : new[i] = old[i + 1]
    BY <2>a
  <2>3. QueuedFor(k) <=> Mentions(Head(old), k) \/ \E i \in 1..Len(new) : Mentions(new[i], k)
    <3>1. QueuedFor(k) <=> \E i \in 1..Len(old) : Mentions(old[i], k)
      BY DEF QueuedFor, old
    <3>2. ASSUME NEW i \in 1..Len(old), Mentions(old[i], k)
          PROVE  Mentions(Head(old), k) \/ \E j \in 1..Len(new) : Mentions(new[j], k)
      <4>1. CASE i = 1
        BY <2>2, <3>2, <4>1
      <4>2. CASE i # 1
        <5>1. i - 1 \in 1..Len(new) /\ (i - 1) + 1 = i
          BY <2>2, <4>2
        <5>. QED
          BY <2>2, <3>2, <5>1
      <4>. QED
        BY <4>1, <4>2
    <3>3. ASSUME NEW i \in 1..Len(new), Mentions(new[i], k)
          PROVE  \E j \in 1..Len(old) : Mentions(old[j], k)
      <4>1. i + 1 \in 1..Len(old) /\ Mentions(old[i + 1], k)
        BY <2>2, <3>3
      <4>. QED
        BY <4>1
    <3>4. 1 \in 1..Len(old)
      BY <2>2
    <3>. QED
      BY <2>2, <3>1, <3>2, <3>3, <3>4
  <2>4. QueuedFor(k)' <=> \E i \in 1..Len(new) : Mentions(new[i], k)
    BY DEF QueuedFor, Mentions, new
  <2>5. HandedOverFor(k)' <=> Mentions(Head(old), k)
    BY <1>1, <1>2, <2>1 DEF HandedOverFor, At, Mentions
  <2>6. QueuedIsStored(k)'
    <3> SUFFICES ASSUME ~BuiltFor(k), NEW i \in 1..Len(new), Mentions(new[i], k),
                        \A j \in 1..Len(new) : i < j => ~Mentions(new[j], k)
                 PROVE  new[i].configs[k] = state.configs[k]
      BY <1>1, <1>3 DEF QueuedIsStored, LastQueued, Mentions, new
    <3>1. i + 1 \in 1..Len(old) /\ old[i + 1] = new[i]
      BY <2>2
    <3>2. ASSUME NEW j \in 1..Len(old), i + 1 < j
          PROVE  ~Mentions(old[j], k)
      <4>1. j - 1 \in 1..Len(new) /\ i < j - 1 /\ (j - 1) + 1 = j
        BY <2>2, <3>2
      <4>2. new[j - 1] = old[j]
        BY <2>2, <4>1
      <4>. QED
        BY <4>1, <4>2
    <3>3. LastQueued(k, i + 1)
      BY <3>1, <3>2 DEF LastQueued, old
    <3>. QED
      BY <3>1, <3>3 DEF OnTheWay, QueuedIsStored, old
  <2>7. HandedOverIsStored(k)'
    <3> SUFFICES ASSUME ~BuiltFor(k), ~QueuedFor(k)', Mentions(Head(old), k)
                 PROVE  Head(old).configs[k] = state.configs[k]
      BY <1>1, <1>2, <1>3, <2>1 DEF HandedOverIsStored, At, Mentions
    <3>1. 1 \in 1..Len(old)
      BY <2>2
    <3>2. ASSUME NEW j \in 1..Len(old), 1 < j
          PROVE  ~Mentions(old[j], k)
      <4>1. j - 1 \in 1..Len(new) /\ (j - 1) + 1 = j
        BY <2>2, <3>2
      <4>2. new[j - 1] = old[j]
        BY <2>2, <4>1
      <4>. QED
        BY <2>4, <4>1, <4>2
    <3>3. LastQueued(k, 1)
      BY <2>2, <3>2 DEF LastQueued, old
    <3>. QED
      BY <2>2, <3>1, <3>3 DEF OnTheWay, QueuedIsStored, old
  <2>8. ServedIsStored(k)'
    BY <1>1, <1>3, <1>4, <2>3, <2>4, <2>5 DEF OnTheWay, ServedIsStored
  <2>. QED
    BY <1>3, <2>6, <2>7, <2>8 DEF OnTheWay
<1>. QED
  BY <1>5, <1>6

LEMMA HandedOverOnTheWay ==
  ASSUME TypeOK, OneDrains, NEW t \in Threads, NEW k \in Keys, HandOver(t), Current',
         OnTheWay(k)
  PROVE  OnTheWay(k)'
<1>1. /\ call[t].pc = "hand over" /\ call'[t].pc = "drain"
      /\ \A u \in Threads : u # t => call'[u] = call[u]
      /\ state' = state /\ queue' = queue
      /\ client'.served[k] = IF Mentions(call[t].update, k) THEN call[t].update.configs[k]
                             ELSE client.served[k]
  BY HandOverStep DEF Current
<1>2. \A u \in Threads : u # t => call[u].pc # "hand over"
  BY <1>1 DEF OneDrains, Draining
<1>3. (BuiltFor(k)' <=> BuiltFor(k)) /\ BuiltIsStored(k)'
  BY <1>1 DEF OnTheWay, BuiltFor, BuiltIsStored, At, Mentions
<1>4. QueuedFor(k)' <=> QueuedFor(k)
  BY <1>1 DEF QueuedFor, Mentions
<1>5. QueuedIsStored(k)'
  BY <1>1, <1>3 DEF OnTheWay, QueuedIsStored, LastQueued, Mentions
<1>6. HandedOverIsStored(k)' /\ (HandedOverFor(k) <=> Mentions(call[t].update, k))
  BY <1>1, <1>2 DEF HandedOverIsStored, HandedOverFor, At
<1>7. ServedIsStored(k)'
  <2> SUFFICES ASSUME ~BuiltFor(k), ~QueuedFor(k)
               PROVE  client'.served[k] = state.configs[k]
    BY <1>1, <1>3, <1>4 DEF ServedIsStored
  <2>1. CASE Mentions(call[t].update, k)
    BY <1>1, <2>1 DEF OnTheWay, HandedOverIsStored, At
  <2>2. CASE ~Mentions(call[t].update, k)
    BY <1>1, <1>6, <2>2 DEF OnTheWay, ServedIsStored
  <2>. QED
    BY <2>1, <2>2
<1>. QED
  BY <1>3, <1>5, <1>6, <1>7 DEF OnTheWay

-----------------------------------------------------------------------------
LEMMA DeliveryInit ==
  ASSUME Init
  PROVE  DeliveryInv
<1>1. TypeOK
  BY TypeInit
<1>2. \A t \in Threads : call[t].pc = "idle"
  BY DEF Init, Rest
<1>3. OneDrains /\ OneBuilds
  BY <1>2 DEF OneDrains, OneBuilds, Draining, At
<1>4. queue.pending = <<>> /\ ~queue.delivering /\ ~state.connected
  BY DEF Init
<1>5. DrainedWhileDelivering /\ AllOnTheWay
  BY <1>2, <1>4 DEF DrainedWhileDelivering, Draining, AllOnTheWay, Current
<1>. QED
  BY <1>1, <1>3, <1>5 DEF DeliveryInv

LEMMA DeliveryNext ==
  ASSUME DeliveryInv, [Next]_vars
  PROVE  DeliveryInv'
<1>0. TypeOK /\ OneDrains /\ DrainedWhileDelivering /\ OneBuilds /\ AllOnTheWay
  BY DEF DeliveryInv
<1>1. CASE Next
  <2>1. PICK t \in Threads : Steps(t)
    BY <1>0, <1>1, NextSteps
  <2>2. TypeOK'
    BY <1>0, <2>1, TypeSteps
  <2>3. LeavesAlone(t) \/ Builds(t) \/ Enqueue(t) \/ TakeUpdate(t) \/ HandOver(t)
    BY <1>0, <2>1, DeliveryKinds
  <2>4. OneDrains' /\ DrainedWhileDelivering' /\ OneBuilds'
    BY <1>0, <2>3, DrainingKept, OneBuildsKept
  <2>5. AllOnTheWay'
    <3> SUFFICES ASSUME Current', NEW k \in Keys PROVE OnTheWay(k)'
      BY DEF AllOnTheWay
    <3>1. CASE LeavesAlone(t)
      <4>1. OnTheWay(k)
        BY <1>0, <3>1 DEF LeavesAlone, AllOnTheWay
      <4>. QED
        BY <3>1, <4>1, LeftOnTheWay
    <3>2. CASE Builds(t)
      BY <1>0, <3>2, BuiltOnTheWay
    <3>3. CASE Enqueue(t)
      <4>1. OnTheWay(k)
        <5>1. Current
          BY <1>0, <3>3, EnqueueStep DEF Current
        <5>. QED
          BY <1>0, <5>1 DEF AllOnTheWay
      <4>. QED
        BY <1>0, <3>3, <4>1, EnqueuedOnTheWay
    <3>4. CASE TakeUpdate(t)
      <4>1. OnTheWay(k)
        <5>1. Current
          BY <1>0, <3>4, TakeStep DEF Current
        <5>. QED
          BY <1>0, <5>1 DEF AllOnTheWay
      <4>. QED
        BY <1>0, <3>4, <4>1, TakenOnTheWay
    <3>5. CASE HandOver(t)
      <4>1. OnTheWay(k)
        <5>1. Current
          BY <1>0, <3>5, HandOverStep DEF Current
        <5>. QED
          BY <1>0, <5>1 DEF AllOnTheWay
      <4>. QED
        BY <1>0, <3>5, <4>1, HandedOverOnTheWay
    <3>. QED
      BY <2>3, <3>1, <3>2, <3>3, <3>4, <3>5
  <2>. QED
    BY <2>2, <2>4, <2>5 DEF DeliveryInv
<1>2. CASE UNCHANGED vars
  <2>1. UNCHANGED <<ops, state, queue, attempts, call, client, overlapped>>
    BY <1>2 DEF vars
  <2>2. TypeOK'
    BY <1>0, <2>1 DEF TypeOK
  <2>3. OneDrains' /\ DrainedWhileDelivering' /\ OneBuilds'
    BY <1>0, <2>1 DEF OneDrains, DrainedWhileDelivering, OneBuilds, Draining, At
  <2>4. \A k \in Keys : OnTheWay(k) => OnTheWay(k)'
    BY <2>1, ZenonT(60) DEF OnTheWay, BuiltIsStored, QueuedIsStored, HandedOverIsStored, ServedIsStored,
       BuiltFor, QueuedFor, HandedOverFor, LastQueued, Mentions, At
  <2>5. AllOnTheWay'
    BY <1>0, <2>1, <2>4 DEF AllOnTheWay, Current
  <2>. QED
    BY <2>2, <2>3, <2>5 DEF DeliveryInv
<1>. QED
  BY <1>1, <1>2

LEMMA DeliveryAlways == Spec => []DeliveryInv
BY DeliveryInit, DeliveryNext, PTL DEF Spec

(* When no operation is in progress nothing is on its way, so the client   *)
(* serves what is stored under every key.                                  *)
LEMMA QuietIsServed ==
  ASSUME DeliveryInv
  PROVE  StoredIsServed
<1> SUFFICES ASSUME Quiet, Current
             PROVE  client.served = state.configs
  BY DEF StoredIsServed, Current
<1>1. \A t \in Threads : call[t].pc \in {"idle", "picked up"}
  BY DEF Quiet, At
<1>2. queue.pending = <<>>
  BY <1>1 DEF DeliveryInv, DrainedWhileDelivering, Draining
<1>3. \A k \in Keys : ~BuiltFor(k) /\ ~HandedOverFor(k)
  BY <1>1 DEF BuiltFor, HandedOverFor, At
<1>4. \A k \in Keys : ~QueuedFor(k)
  BY <1>2 DEF QueuedFor
<1>5. \A k \in Keys : client.served[k] = state.configs[k]
  BY <1>3, <1>4 DEF DeliveryInv, AllOnTheWay, OnTheWay, ServedIsStored
<1>6. client.served \in Values /\ state.configs \in Values
  BY DEF DeliveryInv, TypeOK
<1>. QED
  BY <1>5, <1>6 DEF Values

(* A connected client serves what the test has stored once nothing is in   *)
(* progress, unless two updates were built before either was queued: for   *)
(* any threads calling set_value, remove_value, replace_values,            *)
(* initialize() and close(), and for any held or failed attempts.          *)
THEOREM StoredValuesAreServed == Spec => []StoredIsServed
BY DeliveryAlways, QuietIsServed, PTL

-----------------------------------------------------------------------------
(* Owners of a held attempt.  What the steps come to: a step leaves owners *)
(* as they are, takes the held attempt away, or is one of the three that   *)
(* decide an attempt.                                                      *)
KeepsOwners(t) ==
  /\ attempts' = attempts /\ state'.held = state.held
  /\ \A n \in Attempts : Owns(t, n)' <=> Owns(t, n)
  /\ \A u \in Threads : u # t => call'[u] = call[u]

TakesAway(t) ==
  /\ attempts' = attempts /\ state'.held = 0
  /\ \A n \in Attempts : ~Owns(t, n) /\ (Owns(t, n)' <=> n = state.held)
  /\ \A u \in Threads : u # t => call'[u] = call[u]

Ends(t) ==
  /\ attempts' = [attempts EXCEPT ![state.held] = "ended"] /\ state'.held = 0
  /\ \A n \in Attempts : ~Owns(t, n) /\ ~Owns(t, n)'
  /\ \A u \in Threads : u # t => call'[u] = call[u]

Settles(t) ==
  /\ \A n \in Attempts : /\ n = call[t].settles => attempts'[n] # "held"
                         /\ n # call[t].settles => attempts'[n] = attempts[n]
                         /\ Owns(t, n) <=> n = call[t].settles
                         /\ ~Owns(t, n)'
  /\ state'.held = state.held
  /\ \A u \in Threads : u # t => call'[u] = call[u]

Holds(t, m) ==
  /\ attempts[m] = "unmade"
  /\ \A n \in Attempts : /\ n # m => attempts'[n] = attempts[n]
                         /\ ~Owns(t, n) /\ (Owns(t, n)' <=> n = state.held)
  /\ attempts'[m] # "held" => state'.held = 0
  /\ attempts'[m] = "held" => state'.held = m
  /\ \A u \in Threads : u # t => call'[u] = call[u]

LEMMA OwnerKept ==
  ASSUME OneOwner, NEW t \in Threads, KeepsOwners(t)
  PROVE  OneOwner'
<1>1. \A n \in Attempts, u \in Threads : Owns(u, n)' <=> Owns(u, n)
  BY DEF KeepsOwners, Owns
<1>. QED
  BY <1>1 DEF OneOwner, HeldIsOwned, OwnedOnce, KeepsOwners

LEMMA OwnerTakes ==
  ASSUME OneOwner, NEW t \in Threads, TakesAway(t)
  PROVE  OneOwner'
<1>1. \A n \in Attempts, u \in Threads : u # t => (Owns(u, n)' <=> Owns(u, n))
  BY DEF TakesAway, Owns
<1>2. \A n \in Attempts : n # 0
  BY InMemoryAssumption DEF Attempts
<1>. QED
  BY <1>1, <1>2 DEF OneOwner, HeldIsOwned, OwnedOnce, TakesAway

LEMMA OwnerEnds ==
  ASSUME TypeOK, OneOwner, NEW t \in Threads, Ends(t)
  PROVE  OneOwner'
<1>1. \A n \in Attempts, u \in Threads : Owns(u, n)' <=> Owns(u, n)
  BY DEF Ends, Owns
<1>2. \A n \in Attempts : n # 0
  BY InMemoryAssumption DEF Attempts
<1>3. \A n \in Attempts : attempts'[n] = IF n = state.held THEN "ended" ELSE attempts[n]
  BY DEF Ends, TypeOK
<1>. QED
  BY <1>1, <1>2, <1>3 DEF OneOwner, HeldIsOwned, OwnedOnce, Ends

LEMMA OwnerSettles ==
  ASSUME OneOwner, NEW t \in Threads, Settles(t)
  PROVE  OneOwner'
<1>1. \A n \in Attempts, u \in Threads : u # t => (Owns(u, n)' <=> Owns(u, n))
  BY DEF Settles, Owns
<1>. QED
  BY <1>1 DEF OneOwner, HeldIsOwned, OwnedOnce, Settles

LEMMA OwnerHolds ==
  ASSUME OneOwner, NEW t \in Threads, NEW m \in Attempts, Holds(t, m)
  PROVE  OneOwner'
<1>1. \A n \in Attempts, u \in Threads : u # t => (Owns(u, n)' <=> Owns(u, n))
  BY DEF Holds, Owns
<1>2. \A n \in Attempts : n # 0
  BY InMemoryAssumption DEF Attempts
<1>3. state.held # m /\ \A u \in Threads : ~Owns(u, m)
  BY DEF OneOwner, HeldIsOwned, Holds
<1>4. HeldIsOwned'
  <2> SUFFICES ASSUME NEW n \in Attempts
               PROVE  attempts'[n] = "held" <=>
                        state'.held = n \/ \E u \in Threads : Owns(u, n)'
    BY DEF HeldIsOwned, Owns
  <2>1. CASE n = m
    BY <1>1, <1>2, <1>3, <2>1 DEF Holds
  <2>2. CASE n # m
    BY <1>1, <1>2, <2>2 DEF OneOwner, HeldIsOwned, Holds
  <2>. QED
    BY <2>1, <2>2
<1>5. OwnedOnce'
  BY <1>1, <1>2, <1>3 DEF OneOwner, OwnedOnce, Holds
<1>. QED
  BY <1>4, <1>5 DEF OneOwner

(* The place and the attempt to settle are all that says what is owned.    *)
LEMMA Owned ==
  ASSUME NEW t \in Threads, NEW n \in Attempts
  PROVE  /\ n # 0
         /\ call[t].pc \in {"idle", "connect", "picked up", "close"} => ~Owns(t, n)
         /\ call'[t].pc \in {"idle", "connect", "picked up", "close"} => ~Owns(t, n)'
         /\ call'[t].settles = 0 => ~Owns(t, n)'
         /\ call'[t].pc \in {"deliver", "drain", "hand over", "settle"}
              => (Owns(t, n)' <=> call'[t].settles = n)
         /\ call[t].pc \in {"deliver", "drain", "hand over", "settle"}
              => (Owns(t, n) <=> call[t].settles = n)
<1>1. n # 0
  BY InMemoryAssumption DEF Attempts
<1>2. /\ call[t].pc \in {"idle", "connect", "picked up", "close"} => ~Owns(t, n)
      /\ call[t].pc \in {"deliver", "drain", "hand over", "settle"}
           => (Owns(t, n) <=> call[t].settles = n)
  BY DEF Owns
<1>3. /\ call'[t].pc \in {"idle", "connect", "picked up", "close"} => ~Owns(t, n)'
      /\ call'[t].settles = 0 => ~Owns(t, n)'
      /\ call'[t].pc \in {"deliver", "drain", "hand over", "settle"}
           => (Owns(t, n)' <=> call'[t].settles = n)
  BY <1>1 DEF Owns
<1>. QED
  BY <1>1, <1>2, <1>3

LEMMA OwnerKinds ==
  ASSUME TypeOK, NEW t \in Threads, Steps(t)
  PROVE  \/ KeepsOwners(t) \/ TakesAway(t) \/ Ends(t) \/ Settles(t)
         \/ \E m \in Attempts : Holds(t, m)
<1>0. call[t] \in Calls /\ state.held \in Nat
  BY DEF TypeOK
<1>1. CASE Change(t)
  <2>1. PICK configs \in Values, armed \in {"none", "hold", "failure"}, update \in Updates :
          Changes(t, configs, armed, update)
    BY <1>1 DEF Change
  <2>2. call[t].pc = "idle" /\ attempts' = attempts /\ state'.held = state.held
    BY <2>1 DEF Changes, At, TypeOK
  <2>3. CASE state.connected
    <3>1. /\ call'[t] = [Rest EXCEPT !.pc = "deliver", !.update = update]
          /\ \A u \in Threads : u # t => call'[u] = call[u]
      BY <2>1, <2>3, RestType, DeliversType, ZenonT(60) DEF Changes
    <3>2. call'[t].settles = 0
      BY <3>1 DEF Rest
    <3>. QED
      BY <2>2, <3>1, <3>2, Owned DEF KeepsOwners
  <2>4. CASE ~state.connected
    <3>1. call' = call
      BY <2>1, <2>4 DEF Changes
    <3>. QED
      BY <2>2, <3>1, Owned DEF KeepsOwners
  <2>. QED
    BY <2>3, <2>4
<1>2. CASE HoldInitialization(t)
  <2>1. call' = call /\ attempts' = attempts /\ state'.held = state.held
    BY <1>2 DEF HoldInitialization, TypeOK
  <2>. QED
    BY <2>1 DEF KeepsOwners, Owns
<1>3. CASE CompleteInitialization(t)
  <2>0. call[t].pc = "idle" /\ attempts' = attempts
    BY <1>3 DEF CompleteInitialization, At
  <2>1. CASE state.held # 0
    <3> DEFINE record == [Rest EXCEPT !.settles = state.held, !.outcome = "completed"]
    <3>1. record \in Calls /\ record.settles = state.held
      BY <1>0, NewCalls DEF Settled, Places, Rest
    <3>2. Delivers(t, Full(state.configs), record)
      BY <1>3, <2>1 DEF CompleteInitialization
    <3>3. Full(state.configs) \in Updates
      BY FullType DEF TypeOK
    <3> HIDE DEF record
    <3>4. /\ call'[t] = [record EXCEPT !.pc = "deliver", !.update = Full(state.configs)]
          /\ \A u \in Threads : u # t => call'[u] = call[u]
      BY <3>1, <3>2, <3>3, DeliversType, ZenonT(60)
    <3>5. call'[t].pc = "deliver" /\ call'[t].settles = state.held
      BY <3>1, <3>4 DEF Calls
    <3>6. state' = [state EXCEPT !.held = 0, !.connected = TRUE]
      BY <1>3, <2>1 DEF CompleteInitialization
    <3>7. state'.held = 0
      BY <3>6 DEF TypeOK
    <3>8. \A n \in Attempts : ~Owns(t, n) /\ (Owns(t, n)' <=> n = state.held)
      BY <2>0, <3>5, Owned
    <3>. QED
      BY <2>0, <3>4, <3>7, <3>8 DEF TakesAway
  <2>2. CASE state.held = 0
    <3>1. call' = call /\ state'.held = state.held
      BY <1>3, <2>2 DEF CompleteInitialization, TypeOK
    <3>. QED
      BY <2>0, <3>1, Owned DEF KeepsOwners
  <2>. QED
    BY <2>1, <2>2
<1>4. CASE FailInitialization(t)
  <2>0. call[t].pc = "idle" /\ attempts' = attempts
    BY <1>4 DEF FailInitialization, At
  <2>1. CASE state.held # 0
    <3> DEFINE record == [Rest EXCEPT !.pc = "settle", !.settles = state.held,
                                      !.outcome = "failed"]
    <3>1. Becomes(t, record)
      BY <1>4, <2>1 DEF FailInitialization
    <3>2. record.pc = "settle" /\ record.settles = state.held
      BY DEF Rest
    <3>3. state'.held = 0
      BY <1>4, <2>1 DEF FailInitialization, TypeOK
    <3> HIDE DEF record
    <3>4. call'[t] = record /\ \A u \in Threads : u # t => call'[u] = call[u]
      BY <3>1, Others
    <3>. QED
      BY <2>0, <3>2, <3>3, <3>4, Owned DEF TakesAway
  <2>2. CASE state.held = 0
    <3>1. call' = call /\ state'.held = state.held
      BY <1>4, <2>2 DEF FailInitialization, TypeOK
    <3>. QED
      BY <2>0, <3>1, Owned DEF KeepsOwners
  <2>. QED
    BY <2>1, <2>2
<1>5. CASE Close(t) \/ Initialize(t)
  <2>1. /\ call[t].pc = "idle" /\ attempts' = attempts /\ state' = state
        /\ Becomes(t, [Rest EXCEPT !.pc = "close"]) \/ Becomes(t, [Rest EXCEPT !.pc = "connect"])
    BY <1>5 DEF Close, Initialize, At
  <2>2. /\ call'[t] = [Rest EXCEPT !.pc = "close"] \/ call'[t] = [Rest EXCEPT !.pc = "connect"]
        /\ \A u \in Threads : u # t => call'[u] = call[u]
    BY <2>1, Others
  <2>3. call'[t].pc \in {"close", "connect"}
    BY <2>2 DEF Rest
  <2>. QED
    BY <2>1, <2>2, <2>3, Owned DEF KeepsOwners
<1>6. CASE HeldTimesOut(t)
  <2>1. call[t].pc = "picked up" /\ Becomes(t, Rest)
    BY <1>6 DEF HeldTimesOut, At
  <2>2. call'[t] = Rest /\ \A u \in Threads : u # t => call'[u] = call[u]
    BY <2>1, Others
  <2>3. call'[t].pc = "idle"
    BY <2>2 DEF Rest
  <2>4. CASE state.held = call[t].attempt
    <3>1. attempts' = [attempts EXCEPT ![state.held] = "ended"] /\ state'.held = 0
      BY <1>6, <2>4 DEF HeldTimesOut, TypeOK
    <3>. QED
      BY <2>1, <2>2, <2>3, <3>1, Owned DEF Ends
  <2>5. CASE state.held # call[t].attempt
    <3>1. attempts' = attempts /\ state'.held = state.held
      BY <1>6, <2>5 DEF HeldTimesOut, TypeOK
    <3>. QED
      BY <2>1, <2>2, <2>3, <3>1, Owned DEF KeepsOwners
  <2>. QED
    BY <2>4, <2>5
<1>7. CASE Settle(t)
  <2> DEFINE record == [Rest EXCEPT !.pc = IF call[t].attempt # 0 THEN "picked up" ELSE @,
                                    !.attempt = call[t].attempt]
  <2>1. call[t].pc = "settle" /\ Becomes(t, record) /\ state' = state
    BY <1>7 DEF Settle, At
  <2>2. record.pc \in {"idle", "picked up"}
    BY DEF Rest
  <2>3. call[t].outcome # "held"
    BY <1>0 DEF Calls, Settled
  <2>4. \A n \in Attempts : attempts'[n] = IF n = call[t].settles /\ attempts[n] = "held"
                                           THEN call[t].outcome ELSE attempts[n]
    BY <1>7 DEF Settle, TypeOK
  <2> HIDE DEF record
  <2>5. call'[t] = record /\ \A u \in Threads : u # t => call'[u] = call[u]
    BY <2>1, Others
  <2>6. \A n \in Attempts : /\ n = call[t].settles => attempts'[n] # "held"
                            /\ n # call[t].settles => attempts'[n] = attempts[n]
    BY <2>3, <2>4
  <2>. QED
    BY <2>1, <2>2, <2>5, <2>6, Owned DEF Settles
<1>8. CASE CloseTransport(t)
  <2> DEFINE record == IF state.held = 0 THEN Rest
                       ELSE [Rest EXCEPT !.pc = "settle", !.settles = state.held]
  <2>1. call[t].pc = "close" /\ Becomes(t, record) /\ attempts' = attempts
    BY <1>8 DEF CloseTransport, At
  <2>2. state'.held = 0
    BY <1>8 DEF CloseTransport, TypeOK
  <2>3. \/ state.held = 0 /\ record.pc = "idle"
        \/ record.pc = "settle" /\ record.settles = state.held
    BY DEF Rest
  <2> HIDE DEF record
  <2>4. call'[t] = record /\ \A u \in Threads : u # t => call'[u] = call[u]
    BY <2>1, Others
  <2>. QED
    BY <2>1, <2>2, <2>3, <2>4, Owned DEF TakesAway
<1>9. CASE \E n \in Attempts : Connect(t, n)
  <2>0. PICK m \in Attempts : Connect(t, m)
    BY <1>9
  <2> DEFINE record == [Rest EXCEPT !.pc = IF state.held # 0 THEN "settle" ELSE "picked up",
                                    !.settles = state.held, !.attempt = m]
  <2>1. call[t].pc = "connect" /\ Becomes(t, record) /\ attempts[m] = "unmade"
    BY <2>0 DEF Connect, TakesOver, At
  <2>2. \/ state.held = 0 /\ record.pc = "picked up"
        \/ record.pc = "settle" /\ record.settles = state.held
    BY DEF Rest
  <2>3. state'.held = IF state.armed = "hold" THEN m ELSE 0
    BY <2>0 DEF Connect, TakesOver, TypeOK
  <2>4. /\ attempts'[m] = "held" <=> state.armed = "hold"
        /\ \A n \in Attempts : n # m => attempts'[n] = attempts[n]
    BY <2>0 DEF Connect, TakesOver, TypeOK
  <2> HIDE DEF record
  <2>5. call'[t] = record /\ \A u \in Threads : u # t => call'[u] = call[u]
    BY <2>1, Others
  <2>6. \A n \in Attempts : ~Owns(t, n) /\ (Owns(t, n)' <=> n = state.held)
    BY <2>1, <2>2, <2>5, Owned
  <2>7. Holds(t, m)
    BY <2>1, <2>3, <2>4, <2>5, <2>6 DEF Holds
  <2>. QED
    BY <2>7
<1>10. CASE ConnectRaises(t) \/ HeldSettled(t)
  <2>1. call[t].pc = "picked up" /\ attempts' = attempts /\ state' = state /\ Becomes(t, Rest)
    BY <1>10 DEF ConnectRaises, HeldSettled, At
  <2>2. call'[t] = Rest /\ \A u \in Threads : u # t => call'[u] = call[u]
    BY <2>1, Others
  <2>3. call'[t].pc = "idle"
    BY <2>2 DEF Rest
  <2>. QED
    BY <2>1, <2>2, <2>3, Owned DEF KeepsOwners
<1>11. CASE Connected(t)
  <2>1. /\ call[t].pc = "picked up" /\ attempts' = attempts
        /\ Delivers(t, Full(state.configs), Rest)
    BY <1>11 DEF Connected, At
  <2>2. state'.held = state.held
    BY <1>11 DEF Connected, TypeOK
  <2>3. Full(state.configs) \in Updates
    BY FullType DEF TypeOK
  <2>4. /\ call'[t] = [Rest EXCEPT !.pc = "deliver", !.update = Full(state.configs)]
        /\ \A u \in Threads : u # t => call'[u] = call[u]
    BY <2>1, <2>3, RestType, DeliversType
  <2>5. call'[t].settles = 0
    BY <2>4 DEF Rest
  <2>. QED
    BY <2>1, <2>2, <2>4, <2>5, Owned DEF KeepsOwners
<1>12. CASE Enqueue(t) \/ TakeUpdate(t) \/ HandOver(t)
  <2>1. /\ call[t].pc \in {"deliver", "drain", "hand over"}
        /\ attempts' = attempts /\ state' = state
    BY <1>12 DEF Enqueue, TakeUpdate, HandOver, At
  <2>2. PICK record \in {Delivered(t),
                         [call[t] EXCEPT !.pc = "drain", !.update = NoUpdate],
                         [call[t] EXCEPT !.pc = "hand over", !.update = Head(queue.pending)]} :
          Becomes(t, record)
    BY <1>12 DEF Enqueue, TakeUpdate, HandOver
  <2>3. /\ record.settles = call[t].settles
        /\ \/ record.pc \in {"drain", "hand over", "settle"}
           \/ record.pc = "idle" /\ call[t].settles = 0
    BY <1>0, <2>2 DEF Delivered, Calls
  <2>4. call'[t] = record /\ \A u \in Threads : u # t => call'[u] = call[u]
    BY <2>2, Others
  <2>. QED
    BY <2>1, <2>3, <2>4, Owned DEF KeepsOwners
<1>. QED
  BY <1>1, <1>2, <1>3, <1>4, <1>5, <1>6, <1>7, <1>8, <1>9, <1>10, <1>11, <1>12
     DEF Steps, Proceeds

(* A held attempt has exactly one owner, the connection or one thread on   *)
(* its way to settle it, and what is owned is held: so every attempt that  *)
(* complete or fail_initialization, a second initialize(), close() or a    *)
(* timeout takes away is settled by that one, and none is forgotten.       *)
THEOREM HeldAttemptHasOneOwner == Spec => []OneOwner
<1>1. Init => OneOwner
  <2> SUFFICES ASSUME Init PROVE OneOwner
    OBVIOUS
  <2>1. \A n \in Attempts : n # 0 /\ attempts[n] = "unmade"
    BY InMemoryAssumption DEF Init, Attempts
  <2>2. \A t \in Threads : call[t].pc = "idle"
    BY DEF Init, Rest
  <2>3. state.held = 0
    BY DEF Init
  <2>. QED
    BY <2>1, <2>2, <2>3 DEF OneOwner, HeldIsOwned, OwnedOnce, Owns
<1>2. TypeOK /\ OneOwner /\ [Next]_vars => OneOwner'
  <2> SUFFICES ASSUME TypeOK, OneOwner, [Next]_vars PROVE OneOwner'
    OBVIOUS
  <2>1. CASE Next
    <3>1. PICK t \in Threads : Steps(t)
      BY <2>1, NextSteps
    <3>. QED
      BY <3>1, OwnerKinds, OwnerKept, OwnerTakes, OwnerEnds, OwnerSettles, OwnerHolds
  <2>2. CASE UNCHANGED vars
    <3>1. UNCHANGED <<state, attempts, call>>
      BY <2>2 DEF vars
    <3>2. \A n \in Attempts, t \in Threads : Owns(t, n)' <=> Owns(t, n)
      BY <3>1 DEF Owns
    <3>. QED
      BY <3>1, <3>2 DEF OneOwner, HeldIsOwned, OwnedOnce
  <2>. QED
    BY <2>1, <2>2
<1>3. DeliveryInv => TypeOK
  BY DEF DeliveryInv
<1>. QED
  BY <1>1, <1>2, <1>3, DeliveryAlways, PTL DEF Spec
=============================================================================
