---------------------------- MODULE ProviderProofs ----------------------------
(***************************************************************************)
(* Proofs about Provider, for any number of threads that resolve flags.    *)
(***************************************************************************)
EXTENDS Provider, TLAPS

(* The reasons and errors a resolution may give.                           *)
Reasons == {"no reason", "TARGETING_MATCH", "DEFAULT", "FLAG_NOT_FOUND",
            "PROVIDER_NOT_READY", "TYPE_MISMATCH"}

(* The shape of what the proofs below speak of.                            *)
ProviderType ==
  /\ startup \in {"INITIALIZING", "AWAITING_RECORDED_FAILURE", "AWAITING_CONFIG", "READY"}
  /\ rpc \in [Reporters -> {"idle", "polling", "called", "report", "emit", "gone"}]
  /\ readyEvents \in Nat
  /\ closed \in BOOLEAN
  /\ epc \in [Evaluators -> {"idle", "get", "evaluated", "result"}]
  /\ outcome \in [Evaluators -> Outcomes \cup {None}]
  /\ evaluated \in [Evaluators -> Outcomes \cup {None}]
  /\ details \in [Evaluators -> Reasons \cup {None}]

-----------------------------------------------------------------------------
(* READY is reported once.  Three threads may report it; the start-up      *)
(* state is the token that only one of them takes.  Whoever has taken it   *)
(* may not have reported yet, and until one has it nobody reports.         *)
Pending(r) == rpc[r] = "emit"

StartsOnce ==
  ipc \in {"idle", "connecting", "judge"} => startup = "INITIALIZING"

(* The readiness check waits for a failure nobody has reported ready.      *)
CheckWaits ==
  /\ ipc \in {"idle", "connecting", "judge"} => rpc["check"] = "idle"
  /\ rpc["check"] = "polling" => startup = "AWAITING_RECORDED_FAILURE"

NobodyBefore ==
  startup # "READY" =>
    readyEvents = 0 /\ ipc # "returned" /\ ~Pending("hook") /\ ~Pending("check")

OneToken ==
  /\ readyEvents <= 1
  /\ readyEvents = 1 => ipc # "returned" /\ ~Pending("hook") /\ ~Pending("check")
  /\ ipc = "returned" => ~Pending("hook") /\ ~Pending("check")
  /\ ~(Pending("hook") /\ Pending("check"))

ReportInv == ProviderType /\ StartsOnce /\ CheckWaits /\ NobodyBefore /\ OneToken

LEMMA ReportInit == Init => ReportInv
<1> SUFFICES ASSUME Init PROVE ReportInv
  OBVIOUS
<1>1. rpc["hook"] = "idle" /\ rpc["check"] = "idle"
  BY DEF Init, Reporters
<1>2. ProviderType
  BY DEF Init, ProviderType
<1>. QED
  BY <1>1, <1>2 DEF Init, ReportInv, StartsOnce, CheckWaits, NobodyBefore, OneToken, Pending

(* The steps of resolutions and of shutdown() touch none of this.          *)
LEMMA ResolveType ==
  ASSUME ProviderType, NEW e \in Evaluators,
         \/ Resolve(e) \/ OnConfigEvaluated(e) \/ Resolved(e)
         \/ \E o \in Outcomes : GetValue(e, o)
  PROVE  ProviderType'
<1>1. CASE Resolve(e)
  BY <1>1 DEF Resolve, ResolveMoves, Cleared, ProviderType, startVars, clientVars, registryVars
<1>2. CASE OnConfigEvaluated(e)
  BY <1>2 DEF OnConfigEvaluated, ResolveMoves, ProviderType, startVars, clientVars,
     registryVars
<1>3. CASE Resolved(e)
  <2>1. \A o \in Outcomes \cup {None} : ToResolutionDetails(o) \in Reasons
    BY ProviderAssumption DEF ToResolutionDetails, Outcomes, Reasons
  <2>. QED
    BY <1>3, <2>1 DEF Resolved, ResolveMoves, ProviderType, startVars,
       clientVars, registryVars
<1>4. ASSUME NEW o \in Outcomes, GetValue(e, o) PROVE ProviderType'
  BY <1>4 DEF GetValue, ResolveMoves, ProviderType, startVars, clientVars, registryVars
<1>. QED
  BY <1>1, <1>2, <1>3, <1>4

LEMMA ReportStep == ReportInv /\ [Next]_vars => ReportInv'
<1> SUFFICES ASSUME ReportInv, [Next]_vars PROVE ReportInv'
  OBVIOUS
<1> USE DEF ReportInv, StartsOnce, CheckWaits, NobodyBefore, OneToken, Pending
<1>1. CASE Initialize \/ ClientInitialized
  BY <1>1 DEF Initialize, ClientInitialized, ProviderType, clientVars, registryVars,
     resolveVars
<1>2. CASE ClientRefuses
  BY <1>2 DEF ClientRefuses, ProviderType, clientVars, registryVars, resolveVars, Reporters
<1>3. CASE Judge
  BY <1>3 DEF Judge, ProviderType, clientVars, registryVars, resolveVars, Reporters
<1>4. CASE RecordReady \/ RecordError
  BY <1>4 DEF RecordReady, RecordError, ProviderType, clientVars, resolveVars
<1>5. CASE ConfigArrives
  BY <1>5 DEF ConfigArrives, ReporterMoves, ProviderType, registryVars, resolveVars,
     Reporters
<1>6. CASE FailureRecorded \/ CheckStops
  BY <1>6 DEF FailureRecorded, CheckStops, ReporterMoves, ProviderType, clientVars,
     registryVars, resolveVars, Reporters
<1>7. CASE OnClientReady
  BY <1>7 DEF OnClientReady, ReporterMoves, ProviderType, clientVars, registryVars,
     resolveVars, Reporters
<1>8. ASSUME NEW r \in Reporters, ReportReady(r) PROVE ReportInv'
  BY <1>8 DEF ReportReady, ReporterMoves, MayReport, ProviderType, clientVars,
     registryVars, resolveVars, Reporters
<1>9. ASSUME NEW r \in Reporters, EmitReady(r) PROVE ReportInv'
  BY <1>9 DEF EmitReady, ReporterMoves, ProviderType, clientVars, resolveVars, Reporters
<1>10. CASE Shutdown \/ ShutdownProceeds
  BY <1>10 DEF Shutdown, ShutdownProceeds, TakeReadinessCheck, JoinReadinessCheck,
     CloseClient, RecordShutdown, ShutdownMoves, ProviderType, startVars, clientVars,
     registryVars, resolveVars
<1>11. ASSUME NEW e \in Evaluators, \/ Resolve(e) \/ OnConfigEvaluated(e) \/ Resolved(e)
                                    \/ \E o \in Outcomes : GetValue(e, o)
       PROVE  ReportInv'
  <2>1. UNCHANGED <<startup, rpc, ipc, readyEvents>>
    BY <1>11 DEF Resolve, OnConfigEvaluated, Resolved, GetValue, startVars, registryVars
  <2>. QED
    BY <1>11, <2>1, ResolveType
<1>12. CASE UNCHANGED vars
  BY <1>12 DEF vars, ProviderType, startVars, clientVars, registryVars, resolveVars
<1>. QED
  BY <1>1, <1>2, <1>3, <1>4, <1>5, <1>6, <1>7, <1>8, <1>9, <1>10, <1>11, <1>12
     DEF Next, InitializeProceeds, CheckProceeds, HookProceeds, Reporters

LEMMA ReportInvariant == Spec => []ReportInv
BY ReportInit, ReportStep, PTL DEF Spec

(* OpenFeature is told READY at most once, whichever of the registry, the  *)
(* client_ready hook and the readiness check notices, in whatever order.   *)
THEOREM ReadyToldOnce == Spec => []ReadyReportedOnce
<1>1. ReportInv => ReadyReportedOnce
  BY DEF ReportInv, OneToken, ReadyReportedOnce
<1>. QED
  BY <1>1, ReportInvariant, PTL

-----------------------------------------------------------------------------
(* The details of a resolution.  Between the reset and the evaluation the  *)
(* slot of a thread is empty; after it, it holds that evaluation's own     *)
(* outcome, unless the client was closed and calls no hook any more.       *)
SlotInv ==
  \A e \in Evaluators :
    /\ epc[e] # "idle" => details[e] = None
    /\ epc[e] \in {"get", "evaluated"} => evaluated[e] = None
    /\ epc[e] = "evaluated" => outcome[e] \in Outcomes
    /\ epc[e] = "result" => \/ evaluated[e] = outcome[e] /\ outcome[e] \in Outcomes
                            \/ evaluated[e] = None /\ closed

DetailsInv == ProviderType /\ SlotInv /\ DetailsMatchValue

(* An evaluation that was reported has a reason of its own.                *)
LEMMA ReasonGiven ==
  /\ ToResolutionDetails(None) = "no reason"
  /\ \A o \in Outcomes : ToResolutionDetails(o) # "no reason"
BY ProviderAssumption DEF ToResolutionDetails, Outcomes

LEMMA DetailsInit == Init => DetailsInv
BY ReportInit, ProviderAssumption DEF Init, ReportInv, DetailsInv, SlotInv,
   DetailsMatchValue

LEMMA DetailsStep == ReportInv /\ ReportInv' /\ DetailsInv /\ [Next]_vars => DetailsInv'
<1> SUFFICES ASSUME ProviderType', DetailsInv, [Next]_vars
             PROVE  SlotInv' /\ DetailsMatchValue'
  BY DEF ReportInv, DetailsInv
<1>0. ProviderType /\ SlotInv /\ DetailsMatchValue
  BY DEF DetailsInv
<1>1. ASSUME closed => closed', UNCHANGED resolveVars
      PROVE  SlotInv' /\ DetailsMatchValue'
  BY <1>0, <1>1 DEF SlotInv, DetailsMatchValue, resolveVars
<1>2. ASSUME NEW e \in Evaluators, Resolve(e) PROVE SlotInv' /\ DetailsMatchValue'
  <2>1. /\ epc' = [epc EXCEPT ![e] = "get"]
        /\ evaluated' = [evaluated EXCEPT ![e] = None]
        /\ outcome' = [outcome EXCEPT ![e] = None]
        /\ details' = [details EXCEPT ![e] = None]
        /\ UNCHANGED closed
    BY <1>2 DEF Resolve, ResolveMoves, Cleared, clientVars
  <2>2. \A x \in Evaluators : /\ epc'[x] = IF x = e THEN "get" ELSE epc[x]
                              /\ evaluated'[x] = IF x = e THEN None ELSE evaluated[x]
                              /\ outcome'[x] = IF x = e THEN None ELSE outcome[x]
                              /\ details'[x] = IF x = e THEN None ELSE details[x]
    BY <1>0, <2>1 DEF ProviderType
  <2>3. SlotInv'
    BY <1>0, <2>1, <2>2 DEF SlotInv
  <2>4. DetailsMatchValue'
    BY <1>0, <2>1, <2>2, ProviderAssumption, ZenonT(60) DEF DetailsMatchValue
  <2>. QED
    BY <2>3, <2>4
<1>3. ASSUME NEW e \in Evaluators, NEW o \in Outcomes, GetValue(e, o)
      PROVE  SlotInv' /\ DetailsMatchValue'
  <2>1. /\ epc[e] = "get" /\ epc' = [epc EXCEPT ![e] = "evaluated"]
        /\ outcome' = [outcome EXCEPT ![e] = o]
        /\ UNCHANGED <<closed, evaluated, details>>
    BY <1>3 DEF GetValue, ResolveMoves, clientVars
  <2>2. \A x \in Evaluators : /\ epc'[x] = IF x = e THEN "evaluated" ELSE epc[x]
                              /\ outcome'[x] = IF x = e THEN o ELSE outcome[x]
    BY <1>0, <2>1 DEF ProviderType
  <2>3. SlotInv'
    BY <1>0, <2>1, <2>2 DEF SlotInv
  <2>4. details[e] = None
    BY <1>0, <2>1 DEF SlotInv
  <2>5. DetailsMatchValue'
    BY <1>0, <2>1, <2>2, <2>4, ProviderAssumption DEF DetailsMatchValue
  <2>. QED
    BY <2>3, <2>5
<1>4. ASSUME NEW e \in Evaluators, OnConfigEvaluated(e)
      PROVE  SlotInv' /\ DetailsMatchValue'
  BY <1>0, <1>4 DEF OnConfigEvaluated, ResolveMoves, SlotInv, DetailsMatchValue,
     ProviderType, clientVars
<1>5. ASSUME NEW e \in Evaluators, Resolved(e) PROVE SlotInv' /\ DetailsMatchValue'
  <2>1. /\ epc[e] = "result" /\ epc' = [epc EXCEPT ![e] = "idle"]
        /\ details' = [details EXCEPT ![e] = ToResolutionDetails(evaluated[e])]
        /\ UNCHANGED <<closed, outcome, evaluated>>
    BY <1>5 DEF Resolved, ResolveMoves, clientVars
  <2>2. \A x \in Evaluators :
          /\ epc'[x] = IF x = e THEN "idle" ELSE epc[x]
          /\ details'[x] = IF x = e THEN ToResolutionDetails(evaluated[e]) ELSE details[x]
    BY <1>0, <2>1 DEF ProviderType
  <2>3. SlotInv'
    BY <1>0, <2>1, <2>2 DEF SlotInv
  <2>4. \/ evaluated[e] = outcome[e] /\ outcome[e] \in Outcomes
        \/ evaluated[e] = None /\ closed
    BY <1>0, <2>1 DEF SlotInv
  <2>5. DetailsMatchValue'
    BY <1>0, <2>1, <2>2, <2>4, ReasonGiven, ZenonT(60) DEF DetailsMatchValue
  <2>. QED
    BY <2>3, <2>5
<1>6. ASSUME \/ Initialize \/ ClientInitialized \/ ClientRefuses \/ InitializeProceeds
             \/ ConfigArrives \/ CheckProceeds \/ HookProceeds
             \/ Shutdown \/ ShutdownProceeds \/ UNCHANGED vars
      PROVE  (closed => closed') /\ UNCHANGED resolveVars
  BY <1>6 DEF Initialize, ClientInitialized, ClientRefuses, InitializeProceeds, Judge,
     RecordReady, RecordError, ConfigArrives, CheckProceeds, FailureRecorded, CheckStops,
     ReportReady, EmitReady, HookProceeds, OnClientReady, Shutdown, ShutdownProceeds,
     TakeReadinessCheck, JoinReadinessCheck, CloseClient, RecordShutdown, vars, clientVars
<1>. QED
  BY <1>1, <1>2, <1>3, <1>4, <1>5, <1>6 DEF Next

(* A resolution never tells the reason of another one, of its thread or of *)
(* another, however many a thread has made: the slot it reads is its own,  *)
(* was cleared at its start, and one that tells no reason had a closed     *)
(* client.                                                                 *)
THEOREM DetailsAreOnesOwn == Spec => []DetailsMatchValue
<1>1. DetailsInv => DetailsMatchValue
  BY DEF DetailsInv
<1>. QED
  BY <1>1, ReportInvariant, DetailsInit, DetailsStep, PTL DEF Spec
=============================================================================
