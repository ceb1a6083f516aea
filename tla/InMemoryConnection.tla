------------------------- MODULE InMemoryConnection -------------------------
(***************************************************************************)
(* The connection of the test client, _in_memory_connection.py and the     *)
(* operations of testing.py: the values a test stores, attempts to         *)
(* initialize that are held, completed or failed, and the queue through    *)
(* which updates reach the client.                                         *)
(*                                                                         *)
(* An action is one critical section of the state lock or the delivery     *)
(* lock, or one step between two.  A value is the number of the operation  *)
(* that stored it, the creation being the first; 0 when the key has none.  *)
(* The client applies a bundle as ConfigClient.tla details; its callbacks  *)
(* run with both locks free, so what they call is a step of some thread.   *)
(***************************************************************************)
EXTENDS Naturals, Sequences, FiniteSets

CONSTANTS
  Keys,          \* config keys
  Given,         \* those the test client is created with a value for
  Testers,       \* threads of the test
  Initializers,  \* threads that call initialize()
  MaxOps,        \* bound: operations that store values, the creation included
  MaxAttempts    \* bound: calls of initialize()

Threads == Testers \cup Initializers
Attempts == 1..MaxAttempts
NoUpdate == [kind |-> "none", configs |-> [k \in Keys |-> 0]]

ASSUME InMemoryAssumption ==
  /\ Given \subseteq Keys
  /\ Testers \cap Initializers = {}
  /\ MaxOps \in Nat
  /\ MaxAttempts \in Nat

VARIABLES
  ops,         \* operations that stored values so far, the creation included
  state,       \* _configs, _armed, _held (0: none), _connected
  queue,       \* _pending and _delivering
  attempts,    \* per attempt: "unmade", "held", or the outcome it settled with
  call,        \* per thread: where it is, its update, its attempt, and the
               \* attempt to settle next with its outcome
  client,      \* what the client serves, and whether it is closed
  overlapped   \* history: two updates were built before either was queued

vars == <<ops, state, queue, attempts, call, client, overlapped>>

Full(configs) == [kind |-> "full", configs |-> configs]
Delta(k, v) == [kind |-> "delta", configs |-> [NoUpdate.configs EXCEPT ![k] = v]]

At(t, l) == call[t].pc = l
Rest == [pc |-> "idle", update |-> NoUpdate, attempt |-> 0, settles |-> 0,
         outcome |-> "ended"]
Becomes(t, record) == call' = [call EXCEPT ![t] = record]

(* A thread that has built an update goes on to queue it.                  *)
Delivers(t, update, record) ==
  /\ Becomes(t, [record EXCEPT !.pc = "deliver", !.update = update])
  /\ overlapped' = (overlapped \/ \E u \in Threads \ {t} : At(u, "deliver"))

-----------------------------------------------------------------------------
(* set_value, remove_value, replace_values                                 *)

(* What is stored changes; a connected client is sent the update.          *)
Changes(t, configs, armed, update) ==
  /\ At(t, "idle")
  /\ ops < MaxOps
  /\ ops' = ops + 1
  /\ state' = [state EXCEPT !.configs = configs, !.armed = armed]
  /\ IF state.connected THEN Delivers(t, update, Rest)
                        ELSE UNCHANGED <<call, overlapped>>
  /\ UNCHANGED <<queue, attempts, client>>

SetValue(t, k) ==
  Changes(t, [state.configs EXCEPT ![k] = ops + 1], state.armed, Delta(k, ops + 1))

\* Mutant of RemoveValue: the update is the one key, which removes nothing.
RemoveValue_Delta(t, k) ==
  Changes(t, [state.configs EXCEPT ![k] = 0], state.armed, Delta(k, 0))

RemoveValue(t, k) ==
  LET left == [state.configs EXCEPT ![k] = 0]
  IN Changes(t, left, state.armed, Full(left))

ReplaceValues(t, keys) ==
  LET values == [k \in Keys |-> IF k \in keys THEN ops + 1 ELSE 0]
  IN Changes(t, values, "none", Full(values))

-----------------------------------------------------------------------------
(* hold_, complete_ and fail_initialization                                *)

HoldInitialization(t) ==
  /\ At(t, "idle")
  /\ state' = [state EXCEPT !.armed = "hold"]
  /\ UNCHANGED <<ops, queue, attempts, call, client, overlapped>>

CompleteInitialization(t) ==
  /\ At(t, "idle")
  /\ IF state.held # 0
     THEN /\ state' = [state EXCEPT !.held = 0, !.connected = TRUE]
          /\ Delivers(t, Full(state.configs),
                      [Rest EXCEPT !.settles = state.held, !.outcome = "completed"])
     ELSE /\ state.armed = "hold"
          /\ state' = [state EXCEPT !.armed = "none"]
          /\ UNCHANGED <<call, overlapped>>
  /\ UNCHANGED <<ops, queue, attempts, client>>

FailInitialization(t) ==
  /\ At(t, "idle")
  /\ IF state.held # 0
     THEN /\ state' = [state EXCEPT !.held = 0]
          /\ Becomes(t, [Rest EXCEPT !.pc = "settle", !.settles = state.held,
                                     !.outcome = "failed"])
     ELSE /\ state' = [state EXCEPT !.armed = "failure"]
          /\ UNCHANGED call
  /\ UNCHANGED <<ops, queue, attempts, client, overlapped>>

(* _HeldAttempt.settle: the first outcome counts.                          *)
Settle(t) ==
  /\ At(t, "settle")
  /\ attempts' = [attempts EXCEPT ![call[t].settles] =
                    IF @ = "held" THEN call[t].outcome ELSE @]
  /\ Becomes(t, [Rest EXCEPT !.pc = IF call[t].attempt # 0 THEN "picked up" ELSE @,
                             !.attempt = call[t].attempt])
  /\ UNCHANGED <<ops, state, queue, client, overlapped>>

-----------------------------------------------------------------------------
(* connect(), called by initialize()                                       *)

(* A client that is not closed goes on to connect().                       *)
Initialize(t) ==
  /\ At(t, "idle")
  /\ ~client.closed
  /\ Cardinality({u \in Threads : At(u, "connect")})
       < Cardinality({n \in Attempts : attempts[n] = "unmade"})
  /\ Becomes(t, [Rest EXCEPT !.pc = "connect"])
  /\ UNCHANGED <<ops, state, queue, attempts, client, overlapped>>

\* Mutant of TakesOver: the attempt that was held is left to its timeout.
TakesOver_Unsettled(n) == [Rest EXCEPT !.pc = "picked up", !.attempt = n]

TakesOver(n) ==
  [Rest EXCEPT !.pc = IF state.held # 0 THEN "settle" ELSE "picked up",
               !.settles = state.held, !.attempt = n]

(* The first critical section ends the attempt that was held, and picks up *)
(* what was armed: a hold makes this attempt the held one.                 *)
Connect(t, n) ==
  /\ At(t, "connect")
  /\ attempts[n] = "unmade" /\ \A m \in 1..(n - 1) : attempts[m] # "unmade"
  /\ attempts' = [attempts EXCEPT ![n] = IF state.armed = "none" THEN "free"
                                         ELSE IF state.armed = "hold" THEN "held"
                                         ELSE "refused"]
  /\ state' = [state EXCEPT !.connected = FALSE, !.armed = "none",
                            !.held = IF state.armed = "hold" THEN n ELSE 0]
  /\ Becomes(t, TakesOver(n))
  /\ UNCHANGED <<ops, queue, client, overlapped>>

(* An armed failure raises.                                                *)
ConnectRaises(t) ==
  /\ At(t, "picked up")
  /\ attempts[call[t].attempt] = "refused"
  /\ Becomes(t, Rest)
  /\ UNCHANGED <<ops, state, queue, attempts, client, overlapped>>

(* _await_held: the attempt was settled, or time ran out and it is ended   *)
(* here, unless someone has taken it to settle it.                         *)
HeldSettled(t) ==
  /\ At(t, "picked up")
  /\ attempts[call[t].attempt] \in {"completed", "failed", "ended"}
  /\ Becomes(t, Rest)
  /\ UNCHANGED <<ops, state, queue, attempts, client, overlapped>>

HeldTimesOut(t) ==
  /\ At(t, "picked up")
  /\ attempts[call[t].attempt] = "held"
  /\ LET mine == state.held = call[t].attempt IN
       /\ state' = [state EXCEPT !.held = IF mine THEN 0 ELSE @]
       /\ attempts' = [attempts EXCEPT ![call[t].attempt] = IF mine THEN "ended" ELSE @]
  /\ Becomes(t, Rest)
  /\ UNCHANGED <<ops, queue, client, overlapped>>

(* Nothing was armed: the second critical section.                         *)
Connected(t) ==
  /\ At(t, "picked up")
  /\ attempts[call[t].attempt] = "free"
  /\ state' = [state EXCEPT !.connected = TRUE]
  /\ Delivers(t, Full(state.configs), Rest)
  /\ UNCHANGED <<ops, queue, attempts, client>>

(* client.close() ends with _close_transport.                              *)
Close(t) ==
  /\ At(t, "idle")
  /\ ~client.closed
  /\ client' = [client EXCEPT !.closed = TRUE]
  /\ Becomes(t, [Rest EXCEPT !.pc = "close"])
  /\ UNCHANGED <<ops, state, queue, attempts, overlapped>>

\* Mutant of CloseTransport: the held attempt is left to its timeout.
CloseTransport_Unsettled(t) ==
  /\ At(t, "close")
  /\ state' = [state EXCEPT !.connected = FALSE, !.held = 0]
  /\ Becomes(t, Rest)
  /\ UNCHANGED <<ops, queue, attempts, client, overlapped>>

CloseTransport(t) ==
  /\ At(t, "close")
  /\ state' = [state EXCEPT !.connected = FALSE, !.held = 0]
  /\ Becomes(t, IF state.held = 0 THEN Rest
                ELSE [Rest EXCEPT !.pc = "settle", !.settles = state.held])
  /\ UNCHANGED <<ops, queue, attempts, client, overlapped>>

-----------------------------------------------------------------------------
(* _deliver: one thread at a time hands updates over, in queue order       *)

(* What a thread does once its delivery is over.                           *)
Delivered(t) == [call[t] EXCEPT !.pc = IF call[t].settles # 0 THEN "settle" ELSE "idle",
                                !.update = NoUpdate]

Enqueue(t) ==
  /\ At(t, "deliver")
  /\ queue' = [pending |-> Append(queue.pending, call[t].update), delivering |-> TRUE]
  /\ Becomes(t, IF queue.delivering THEN Delivered(t)
                ELSE [call[t] EXCEPT !.pc = "drain", !.update = NoUpdate])
  /\ UNCHANGED <<ops, state, attempts, client, overlapped>>

TakeUpdate(t) ==
  /\ At(t, "drain")
  /\ IF queue.pending = <<>>
     THEN queue' = [queue EXCEPT !.delivering = FALSE] /\ Becomes(t, Delivered(t))
     ELSE /\ queue' = [queue EXCEPT !.pending = Tail(@)]
          /\ Becomes(t, [call[t] EXCEPT !.pc = "hand over", !.update = Head(queue.pending)])
  /\ UNCHANGED <<ops, state, attempts, client, overlapped>>

(* _on_bundle of the client.                                               *)
HandOver(t) ==
  /\ At(t, "hand over")
  /\ LET u == call[t].update.configs IN
       client' = IF client.closed THEN client
                 ELSE [client EXCEPT !.served =
                         IF call[t].update.kind = "full" THEN u
                         ELSE [k \in Keys |-> IF u[k] # 0 THEN u[k] ELSE @[k]]]
  /\ Becomes(t, [call[t] EXCEPT !.pc = "drain", !.update = NoUpdate])
  /\ UNCHANGED <<ops, state, queue, attempts, overlapped>>

-----------------------------------------------------------------------------
Init ==
  /\ ops = 1
  /\ state = [configs |-> [k \in Keys |-> IF k \in Given THEN 1 ELSE 0],
              armed |-> "none", held |-> 0, connected |-> FALSE]
  /\ queue = [pending |-> <<>>, delivering |-> FALSE]
  /\ attempts = [n \in Attempts |-> "unmade"]
  /\ call = [t \in Threads |-> Rest]
  /\ client = [served |-> NoUpdate.configs, closed |-> FALSE]
  /\ overlapped = FALSE

Proceeds(t) ==
  \/ Settle(t) \/ CloseTransport(t)
  \/ (\E n \in Attempts : Connect(t, n)) \/ ConnectRaises(t) \/ HeldSettled(t) \/ Connected(t)
  \/ Enqueue(t) \/ TakeUpdate(t) \/ HandOver(t)

Next ==
  \/ \E t \in Testers :
       \/ \E k \in Keys : SetValue(t, k) \/ RemoveValue(t, k)
       \/ \E keys \in SUBSET Keys : ReplaceValues(t, keys)
       \/ HoldInitialization(t) \/ CompleteInitialization(t)
       \/ FailInitialization(t) \/ Close(t)
  \/ \E t \in Initializers : Initialize(t) \/ HeldTimesOut(t)
  \/ \E t \in Threads : Proceeds(t)

(* Threads run; nobody has to complete, fail or time out an attempt.       *)
Spec == Init /\ [][Next]_vars /\ \A t \in Threads : WF_vars(Proceeds(t))

-----------------------------------------------------------------------------
(* Properties                                                              *)

(* No operation is in progress but an initialize() that is held.           *)
Quiet == \A t \in Threads : \/ At(t, "idle")
                            \/ At(t, "picked up") /\ call[t].attempt = state.held

(* A connected client serves what the test has stored, whatever mix of     *)
(* full and delta updates, held and repeated attempts led there: unless    *)
(* two threads built updates at the same time.                             *)
StoredIsServed ==
  Quiet /\ state.connected /\ ~client.closed /\ ~overlapped
    => client.served = state.configs

(* A held attempt has one owner, the connection or the thread that took it *)
(* away and is on its way to settle it: nothing that ends an attempt       *)
(* forgets it, and no two threads settle the same one.                     *)
Owns(t, n) ==
  call[t].pc \in {"deliver", "drain", "hand over", "settle"} /\ call[t].settles = n
HeldIsOwned ==
  \A n \in Attempts :
    attempts[n] = "held" <=> state.held = n \/ \E t \in Threads : Owns(t, n)
OwnedOnce ==
  \A n \in Attempts : \A t \in Threads :
    Owns(t, n) => state.held # n /\ \A u \in Threads : Owns(u, n) => u = t
OneOwner == HeldIsOwned /\ OwnedOnce

(* An initialize() that was held is released by whatever takes its attempt *)
(* away: complete or fail, a second initialize(), close().                 *)
HeldIsReleased ==
  \A n \in Attempts :
    (attempts[n] = "held" /\ state.held # n) ~> (\A t \in Initializers : call[t].attempt # n)
=============================================================================
