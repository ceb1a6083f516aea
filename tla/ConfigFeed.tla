------------------------------ MODULE ConfigFeed ------------------------------
(***************************************************************************)
(* What ConfigDirectorClient promises its users, without bundles, threads, *)
(* locks or snapshots: a config state that is replaced as a whole, readers *)
(* that see one state each, and watchers that are told of every change.    *)
(*                                                                         *)
(* A view is all that evaluating a key depends on: its definition and the  *)
(* segments that uses.                                                     *)
(***************************************************************************)
CONSTANTS
  Keys, Watchers, WatchKey, Readers,
  None          \* no view yet

VARIABLES
  phase,        \* "starting", "ready" or "closed"
  view,         \* per key: what it evaluates from now
  watching,     \* the watchers in place
  owed,         \* <<w, v>>: watcher w is still to be told of view v
  told,         \* per watcher: the view it was told of last
  reads         \* per reader: the view its evaluation uses

feed == <<phase, view, watching, owed, told, reads>>

(* A change nobody may miss: of the definition, or of a segment that is    *)
(* there.  (One that went away may go unannounced.)                        *)
Differs(old, new) ==
  \/ new.def # old.def
  \/ \E s \in DOMAIN new.segs : new.segs[s] \notin {None, old.segs[s]}

(* A new state.  The watchers of a key that differs are told, of the new   *)
(* state; others may be.                                                   *)
Publish ==
  /\ phase # "closed"
  /\ phase' = "ready"
  /\ \E ws \in SUBSET watching :
       /\ \A w \in watching \ ws : ~Differs(view[WatchKey[w]], view'[WatchKey[w]])
       /\ owed' = owed \cup {<<w, view'[WatchKey[w]]>> : w \in ws}
  /\ UNCHANGED <<watching, told, reads>>

(* Two states that look alike to w may be owed by two callers: then one of *)
(* them is told and the other still to be.                                 *)
Tell(w, v) ==
  /\ <<w, v>> \in owed
  /\ owed' \in {owed, owed \ {<<w, v>>}}
  /\ told' = [told EXCEPT ![w] = v]
  /\ UNCHANGED <<phase, view, watching, reads>>

Watch(w) ==
  /\ watching' = watching \cup {w}
  /\ told' = [told EXCEPT ![w] = view[WatchKey[w]]]
  /\ UNCHANGED <<phase, view, owed, reads>>

Unwatch ==
  /\ watching' \subseteq watching
  /\ UNCHANGED <<phase, view, owed, told, reads>>

Read(r, k) ==
  /\ reads[r] = None
  /\ reads' = [reads EXCEPT ![r] = view[k]]
  /\ UNCHANGED <<phase, view, watching, owed, told>>

Return(r) ==
  /\ reads' = [reads EXCEPT ![r] = None]
  /\ UNCHANGED <<phase, view, watching, owed, told>>

(* The state stays what it is for good; what is owed is still told.        *)
Close ==
  /\ phase # "closed"
  /\ phase' = "closed"
  /\ watching' = {}
  /\ UNCHANGED <<view, owed, told, reads>>

Init ==
  /\ phase = "starting"
  /\ \A k \in Keys : view[k].def = None
  /\ watching = {}
  /\ owed = {}
  /\ told = [w \in Watchers |-> None]
  /\ reads = [r \in Readers |-> None]

Next ==
  \/ Publish \/ Unwatch \/ Close
  \/ \E w \in Watchers : Watch(w) \/ \E p \in owed : p[1] = w /\ Tell(w, p[2])
  \/ \E r \in Readers : Return(r) \/ \E k \in Keys : Read(r, k)

Spec == Init /\ [][Next]_feed
=============================================================================
