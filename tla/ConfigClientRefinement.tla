------------------------ MODULE ConfigClientRefinement ------------------------
(* The client of client.py implements the feed its users are promised.     *)
EXTENDS ConfigClient

Phase == IF closed THEN "closed" ELSE IF ready THEN "ready" ELSE "starting"

(* A deliverer owes its watchers the state it snapshotted under the lock.  *)
Owed == UNION {{<<w, View(WatchKey[w], snap[d].configs, snap[d].segments)>> :
                  w \in wTodo[d]} : d \in Deliverers}

Feed == INSTANCE ConfigFeed
  WITH phase <- Phase,
       view <- [k \in Keys |-> View(k, configs, segments)],
       owed <- Owed,
       told <- seen,
       reads <- looked

(* The client of client.py is a ConfigFeed: whatever the threads that      *)
(* deliver bundles, register, evaluate and close do to each other, the     *)
(* state changes in one step, an evaluation uses one state, every watcher  *)
(* of a key that changed is told of the state it changed to, and close()   *)
(* ends it all.                                                            *)
ImplementsFeed == Feed!Spec
=============================================================================
