------------------------------ MODULE Provider ------------------------------
(***************************************************************************)
(* The OpenFeature provider, configdirector_openfeature/provider.py and    *)
(* _resolution.py: initialize() and shutdown(), called by OpenFeature's    *)
(* registry, the readiness check thread, the hooks its client calls, and   *)
(* resolutions on any number of threads.                                   *)
(*                                                                         *)
(* An action is one critical section of the provider's lock or one step    *)
(* between two.  The registry is external: it runs initialize() on a       *)
(* thread, records READY or ERROR after it, and NOT_READY after shutdown().*)
(* The client is what ConfigClient.tla details: config state arrives, the  *)
(* client is ready, its client_ready hook is called once, unless close()   *)
(* comes first.                                                            *)
(***************************************************************************)
EXTENDS Naturals

CONSTANTS
  Evaluators,   \* threads that resolve a flag
  None          \* nothing

(* Who may report READY: the client_ready hook and the readiness check.    *)
Reporters == {"hook", "check"}

(* What an evaluation may come to, see Evaluation.tla.                     *)
Outcomes == {"found-match", "value-missing", "config-state-missing",
             "client-not-ready", "invalid-type"}

ASSUME ProviderAssumption ==
  None \notin Reporters \cup Evaluators \cup Outcomes \cup {"no reason"}

VARIABLES
  startup,      \* _startup
  shutDown,     \* _shut_down
  check,        \* _readiness_check was assigned
  rpc,          \* per reporter: where it is
  loaded,       \* the client has config state
  closed,       \* the client is closed
  ipc,          \* where the registry's call of initialize() is
  spc,          \* where its call of shutdown() is
  joins,        \* the readiness check that shutdown() waits for
  status,       \* the provider's status in the registry
  readyEvents,  \* history: PROVIDER_READY events
  epc,          \* per evaluator: where in _resolve() it is
  outcome,      \* per evaluator: what its latest get_value() came to
  evaluated,    \* _evaluated, a context variable: one slot per thread
  details       \* per evaluator: the reason or error its latest resolution gave

startVars == <<startup, check, rpc, ipc>>
stopVars == <<shutDown, joins, spc>>
clientVars == <<loaded, closed>>
registryVars == <<status, readyEvents>>
resolveVars == <<epc, outcome, evaluated, details>>
vars == <<startVars, stopVars, clientVars, registryVars, resolveVars>>

IsReady == loaded /\ ~closed

-----------------------------------------------------------------------------
(* initialize(), on a thread of the registry                               *)

Initialize ==
  /\ ipc = "idle" /\ spc = "idle"
  /\ ipc' = "connecting"
  /\ UNCHANGED <<startup, check, rpc, stopVars, clientVars, registryVars, resolveVars>>

(* client.initialize() returns when the client is ready or closed, when it *)
(* was refused and when its time is up.                                    *)
ClientInitialized ==
  /\ ipc = "connecting"
  /\ ipc' = "judge"
  /\ UNCHANGED <<startup, check, rpc, stopVars, clientVars, registryVars, resolveVars>>

(* Offline values that cannot be loaded: client.initialize() raises, and   *)
(* there will be no config.                                                *)
ClientRefuses ==
  /\ ipc = "connecting"
  /\ ~loaded
  /\ ipc' = "raised"
  /\ rpc' = [rpc EXCEPT !["hook"] = "gone"]
  /\ UNCHANGED <<startup, check, stopVars, clientVars, registryVars, resolveVars>>

Judge ==
  /\ ipc = "judge"
  /\ startup' = IF IsReady THEN "READY" ELSE "AWAITING_RECORDED_FAILURE"
  /\ check' = ~IsReady
  /\ rpc' = [rpc EXCEPT !["check"] = IF IsReady THEN @ ELSE "polling"]
  /\ ipc' = IF IsReady THEN "returned" ELSE "raised"
  /\ UNCHANGED <<stopVars, clientVars, registryVars, resolveVars>>

RecordReady ==
  /\ ipc = "returned"
  /\ ipc' = "done"
  /\ status' = "READY"
  /\ readyEvents' = readyEvents + 1
  /\ UNCHANGED <<startup, check, rpc, stopVars, clientVars, resolveVars>>

RecordError ==
  /\ ipc = "raised"
  /\ ipc' = "done"
  /\ status' = "ERROR"
  /\ UNCHANGED <<startup, check, rpc, stopVars, clientVars, readyEvents, resolveVars>>

-----------------------------------------------------------------------------
(* The readiness check thread, the client and its hook                     *)

ReporterMoves(r, from, to) ==
  /\ rpc[r] = from
  /\ rpc' = [rpc EXCEPT ![r] = to]

\* Mutant of FailureRecorded: config is left to the hook, which may have run.
FailureRecorded_Waits ==
  /\ status = "ERROR"
  /\ ReporterMoves("check", "polling", "gone")
  /\ startup' = "AWAITING_CONFIG"
  /\ UNCHANGED <<check, ipc, stopVars, clientVars, registryVars, resolveVars>>

FailureRecorded ==
  /\ status = "ERROR"
  /\ ReporterMoves("check", "polling", "report")
  /\ startup' = "AWAITING_CONFIG"
  /\ UNCHANGED <<check, ipc, stopVars, clientVars, registryVars, resolveVars>>

\* Mutant of CheckStops: the loop waits for the failure only.
CheckStops_Not ==
  /\ FALSE
  /\ UNCHANGED vars

(* The wait between two looks at the status ends early after shutdown().   *)
CheckStops ==
  /\ shutDown
  /\ status # "ERROR"
  /\ ReporterMoves("check", "polling", "gone")
  /\ UNCHANGED <<startup, check, ipc, stopVars, clientVars, registryVars, resolveVars>>

(* A first bundle makes the client ready, and its hook is called, unless   *)
(* close() has taken it out by then.                                       *)
ConfigArrives ==
  /\ ~loaded /\ ~closed
  /\ loaded' = TRUE
  /\ ReporterMoves("hook", "idle", "called")
  /\ UNCHANGED <<startup, check, ipc, stopVars, closed, registryVars, resolveVars>>

OnClientReady ==
  /\ ReporterMoves("hook", "called", IF closed THEN "gone" ELSE "report")
  /\ UNCHANGED <<startup, check, ipc, stopVars, clientVars, registryVars, resolveVars>>

\* Mutant of MayReport: the start-up state is not looked at.
MayReport_Always == IsReady

MayReport == startup = "AWAITING_CONFIG" /\ IsReady

(* _report_ready_if_config_arrived: decided under the lock, told after it. *)
ReportReady(r) ==
  /\ ReporterMoves(r, "report", IF MayReport THEN "emit" ELSE "gone")
  /\ startup' = IF MayReport THEN "READY" ELSE startup
  /\ UNCHANGED <<check, ipc, stopVars, clientVars, registryVars, resolveVars>>

EmitReady(r) ==
  /\ ReporterMoves(r, "emit", "gone")
  /\ status' = "READY"
  /\ readyEvents' = readyEvents + 1
  /\ UNCHANGED <<startup, check, ipc, stopVars, clientVars, resolveVars>>

-----------------------------------------------------------------------------
(* shutdown(), on a thread of the registry                                 *)

ShutdownMoves(from, to) == spc = from /\ spc' = to

Shutdown ==
  /\ ShutdownMoves("idle", "take")
  /\ ipc # "idle"
  /\ shutDown' = TRUE
  /\ UNCHANGED <<startVars, joins, clientVars, registryVars, resolveVars>>

TakeReadinessCheck ==
  /\ ShutdownMoves("take", "join")
  /\ joins' = check
  /\ UNCHANGED <<startVars, shutDown, clientVars, registryVars, resolveVars>>

JoinReadinessCheck ==
  /\ ShutdownMoves("join", "close")
  /\ joins => rpc["check"] = "gone"
  /\ UNCHANGED <<startVars, shutDown, joins, clientVars, registryVars, resolveVars>>

CloseClient ==
  /\ ShutdownMoves("close", "closed")
  /\ closed' = TRUE
  /\ UNCHANGED <<startVars, shutDown, joins, loaded, registryVars, resolveVars>>

RecordShutdown ==
  /\ ShutdownMoves("closed", "done")
  /\ status' = "NOT_READY"
  /\ UNCHANGED <<startVars, shutDown, joins, clientVars, readyEvents, resolveVars>>

-----------------------------------------------------------------------------
(* _resolve() on thread e                                                  *)

\* Mutant of Cleared: the slot keeps what an earlier resolution left in it.
Cleared_Not(e) == evaluated

Cleared(e) == [evaluated EXCEPT ![e] = None]

ResolveMoves(e, from, to) == epc[e] = from /\ epc' = [epc EXCEPT ![e] = to]

(* A thread resolves again and again; its slot outlives a resolution.      *)
Resolve(e) ==
  /\ ResolveMoves(e, "idle", "get")
  /\ evaluated' = Cleared(e)
  /\ outcome' = [outcome EXCEPT ![e] = None]
  /\ details' = [details EXCEPT ![e] = None]
  /\ UNCHANGED <<startVars, stopVars, clientVars, registryVars>>

(* A key without a definition is missing, or the client is not ready.      *)
GetValue(e, o) ==
  /\ ResolveMoves(e, "get", "evaluated")
  /\ \/ o = IF IsReady THEN "config-state-missing" ELSE "client-not-ready"
     \/ loaded /\ o \in {"found-match", "value-missing", "invalid-type"}
  /\ outcome' = [outcome EXCEPT ![e] = o]
  /\ UNCHANGED <<startVars, stopVars, clientVars, registryVars, evaluated, details>>

(* The config_evaluated hook, which a closed client has no more.           *)
OnConfigEvaluated(e) ==
  /\ ResolveMoves(e, "evaluated", "result")
  /\ evaluated' = IF closed THEN evaluated
                  ELSE [evaluated EXCEPT ![e] = outcome[e]]
  /\ UNCHANGED <<startVars, stopVars, clientVars, registryVars, outcome, details>>

ToResolutionDetails(evaluation) ==
  CASE evaluation = None -> "no reason"
    [] evaluation = "found-match" -> "TARGETING_MATCH"
    [] evaluation = "value-missing" -> "DEFAULT"
    [] evaluation = "config-state-missing" -> "FLAG_NOT_FOUND"
    [] evaluation = "client-not-ready" -> "PROVIDER_NOT_READY"
    [] OTHER -> "TYPE_MISMATCH"

Resolved(e) ==
  /\ ResolveMoves(e, "result", "idle")
  /\ details' = [details EXCEPT ![e] = ToResolutionDetails(evaluated[e])]
  /\ UNCHANGED <<startVars, stopVars, clientVars, registryVars, outcome, evaluated>>

-----------------------------------------------------------------------------
Init ==
  /\ startup = "INITIALIZING"
  /\ shutDown = FALSE
  /\ check = FALSE
  /\ rpc = [r \in Reporters |-> "idle"]
  /\ loaded = FALSE
  /\ closed = FALSE
  /\ ipc = "idle"
  /\ spc = "idle"
  /\ joins = FALSE
  /\ status = "NOT_READY"
  /\ readyEvents = 0
  /\ epc = [e \in Evaluators |-> "idle"]
  /\ outcome = [e \in Evaluators |-> None]
  /\ evaluated = [e \in Evaluators |-> None]
  /\ details = [e \in Evaluators |-> None]

InitializeProceeds == Judge \/ RecordReady \/ RecordError
CheckProceeds == FailureRecorded \/ CheckStops \/ ReportReady("check") \/ EmitReady("check")
HookProceeds == OnClientReady \/ ReportReady("hook") \/ EmitReady("hook")
ShutdownProceeds == TakeReadinessCheck \/ JoinReadinessCheck \/ CloseClient \/ RecordShutdown

Next ==
  \/ Initialize \/ ClientInitialized \/ ClientRefuses \/ InitializeProceeds
  \/ ConfigArrives \/ CheckProceeds \/ HookProceeds
  \/ Shutdown \/ ShutdownProceeds
  \/ \E e \in Evaluators : \/ Resolve(e) \/ OnConfigEvaluated(e) \/ Resolved(e)
                           \/ \E o \in Outcomes : GetValue(e, o)

(* Threads run; client.initialize() ends, by its timeout at the latest.    *)
Spec ==
  /\ Init /\ [][Next]_vars
  /\ WF_vars(ClientInitialized) /\ WF_vars(InitializeProceeds)
  /\ WF_vars(CheckProceeds) /\ WF_vars(HookProceeds) /\ WF_vars(ShutdownProceeds)

-----------------------------------------------------------------------------
(* Properties                                                              *)

(* OpenFeature is told READY at most once, whoever notices: the registry,  *)
(* when initialize() returns, the client_ready hook or the readiness check.*)
ReadyReportedOnce == readyEvents <= 1

(* Config that arrived, before, while or after initialize() failed, makes  *)
(* the provider READY in the end, and it stays so until shutdown(): the    *)
(* ERROR the registry records is never the last word.                      *)
ReadyInTheEnd ==
  (IsReady /\ ipc = "done") ~> [](status = "READY" \/ shutDown)

(* shutdown() returns, though it joins without a timeout, and the          *)
(* readiness check ends, though one may be started after shutdown() looked.*)
ShutdownEnds ==
  shutDown ~> (spc = "done" /\ rpc["check"] \in {"idle", "gone"})

(* A resolution tells the reason of its own value, not that of an earlier  *)
(* resolution whose evaluation the thread's slot still holds: once the     *)
(* client is closed no hook fills the slot, and then there is no reason.   *)
DetailsMatchValue ==
  \A e \in Evaluators :
    details[e] \in {None, "no reason", ToResolutionDetails(outcome[e])}
    /\ (details[e] = "no reason" => closed)
=============================================================================
