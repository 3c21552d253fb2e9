--------------------------- MODULE HandoverProofs ---------------------------
(***************************************************************************)
(* What a handover does not break, for every value of the constants.  Of   *)
(* the guarantees of a single manager, ServesStored and ProvisionsStored   *)
(* are lost while two of them run: the argument behind them is that only   *)
(* the worker itself takes a finalizer away.  The theorems here rest on    *)
(* less: on what the API server refuses, and on a finalizer that goes only *)
(* together with the service that has it.                                  *)
(***************************************************************************)
EXTENDS Handover, StatusProofs, TransitionProofs, ConvergenceProofs

-----------------------------------------------------------------------------
(***************************************************************************)
(* The invariants.                                                         *)
(***************************************************************************)
\* The caches the deposed manager's call reads from lag behind and catch up.
DeposedCaches ==
    /\ oCRBG \in RBGObject \cup {Nil} /\ oRbgWatch \in Seq(RBGObject \cup {Nil})
    /\ oCProfiles \in Profiles /\ oProfileWatch \in Seq(Profiles)
    /\ Latest(oCRBG, oRbgWatch) = rbg

\* What the deposed manager holds while its call goes on.  A copy it believes
\* current is.
DeposedOK ==
    /\ oPc \in Steps
    /\ oPc # "idle" => /\ handover = "during"
                       /\ oWPDIS \in PDISObject /\ oWPDIS # Nil
                       /\ DeposedCaches
    /\ oPc = "idle" => oWPDIS = Nil
    /\ oPc \in {"getRBG", "createRBG", "updateRBG"} => oWDesired \in [Roles -> RBGRole]
    /\ oWPDISCurrent \in BOOLEAN /\ oWRBGCurrent \in BOOLEAN
    /\ oWPDISCurrent => /\ oPc # "idle" /\ pdis # Nil
                        /\ pdis.uid = oWPDIS.uid
                        /\ pdis.finalizer = oWPDIS.finalizer
                        /\ pdis.deleting = oWPDIS.deleting
    /\ oWRBGCurrent => rbg # Nil

HandType == TypeInv /\ DeposedOK

\* Every version of the service that anybody holds or will be delivered.
Held == SeenPDIS \cup {wPDIS, oWPDIS}

\* A finalizer that was seen is there for as long as the service is.
HeldGuarded ==
    \A v \in Held \ {Nil} :
        /\ v.uid \in 0 .. uidCount
        /\ v.finalizer /\ pdis # Nil /\ pdis.uid = v.uid => pdis.finalizer

GuardedSteps == Steps \ {"idle", "addFinalizer", "removeFinalizer"}

\* Either manager goes past ensureFinalizer, or to the end of a deletion, with
\* a copy that calls for it.
StepsJustified ==
    /\ pc \in GuardedSteps => wPDIS.finalizer
    /\ oPc \in GuardedSteps => oWPDIS.finalizer
    /\ pc = "removeFinalizer" => wPDIS.deleting
    /\ oPc = "removeFinalizer" => oWPDIS.deleting

HandGuard == UidsUsed /\ HeldGuarded /\ OwnedIsGuarded /\ StepsJustified

\* StampInv of the deposed manager.
DeposedStamp ==
    oWPDISCurrent =>
        IF oPc \in {"writeStatus", "writeFailed"} THEN Written(pdis.status, oWPDIS.status)
        ELSE oWPDIS.status = pdis.status

\* GoodWorker of the deposed manager.
DeposedGood ==
    /\ GoodService(oWPDIS)
    /\ oPc \in {"getRBG", "createRBG", "updateRBG"} => GoodRoles(oWDesired)
-----------------------------------------------------------------------------
(***************************************************************************)
(* The deposed manager runs the same code: what its instance computes is   *)
(* what the definitions of this module compute.                            *)
(***************************************************************************)
\* The two parts a role is built from that have definitions of their own.
LEMMA SameParts ==
    ASSUME NEW texts, NEW gpu, NEW probe, NEW vs, NEW cfg, NEW r, NEW inline, NEW rts
    PROVE  /\ Deposed!buildAmounts(texts, gpu) = buildAmounts(texts, gpu)
           /\ Deposed!buildProbe(probe) = buildProbe(probe)
           /\ Deposed!buildVolumes(vs) = buildVolumes(vs)
           /\ Deposed!profileRuntimes(cfg, r) = profileRuntimes(cfg, r)
           /\ Deposed!resolveEngineRuntimes(inline, rts) = resolveEngineRuntimes(inline, rts)
           /\ Deposed!Roles = Roles
BY Zenon DEF Deposed!buildVolumes, Deposed!buildVolume, Deposed!buildAmounts, Deposed!buildProbe,
   Deposed!resolveEngineRuntimes, Deposed!profileRuntimes, Deposed!MustParse, Deposed!GPUResource,
   Deposed!Roles, buildVolumes, buildVolume, buildAmounts, buildProbe, resolveEngineRuntimes,
   profileRuntimes, MustParse, GPUResource, Roles

\* The roles it builds.
LEMMA SameBuild ==
    ASSUME NEW spec, NEW cfg
    PROVE  Deposed!Build(spec, cfg) = Build(spec, cfg)
<1>1. Deposed!buildRouterRole(spec, cfg) = buildRouterRole(spec, cfg)
  BY SameParts DEF Deposed!buildRouterRole, buildRouterRole
<1>2. \A r : Deposed!buildInferenceRole(r, spec, cfg) = buildInferenceRole(r, spec, cfg)
  BY SameParts DEF Deposed!buildInferenceRole, buildInferenceRole
<1> QED BY <1>1, <1>2, SameParts DEF Deposed!Build, Build

\* The status it aggregates.
LEMMA SameAggregate ==
    ASSUME NEW status, NEW st, NEW deleting, NEW old
    PROVE  Deposed!AggregateStatus(status, st, deleting, old)
             = AggregateStatus(status, st, deleting, old)
BY Zenon DEF Deposed!AggregateStatus, Deposed!setReadyCondition, Deposed!computePhase,
   Deposed!buildRoleStatuses, Deposed!ReadyStatusOf, Deposed!ReadyReasonOf,
   Deposed!hasCrashLoop, Deposed!allRolesReady, Deposed!isInitializingTooLong,
   Deposed!PhasePending, Deposed!PhaseInitializing, Deposed!PhaseRunning,
   Deposed!PhaseFailed, Deposed!PhaseTerminating,
   AggregateStatus, setReadyCondition, computePhase, buildRoleStatuses, ReadyStatusOf,
   ReadyReasonOf, hasCrashLoop, allRolesReady, isInitializingTooLong, PhasePending,
   PhaseInitializing, PhaseRunning, PhaseFailed, PhaseTerminating

\* The configuration it resolves, and when that or the build fails.
LEMMA SameResolve ==
    ASSUME NEW spec, NEW ps, NEW st, NEW reason
    PROVE  /\ Deposed!ProfileMissing(spec, ps) = ProfileMissing(spec, ps)
           /\ Deposed!BuildPanics(spec) = BuildPanics(spec)
           /\ Deposed!Resolve(spec, ps) = Resolve(spec, ps)
           /\ Deposed!FailedStatus(st, reason) = FailedStatus(st, reason)
           /\ Deposed!NewRBGStatus = NewRBGStatus
BY Zenon DEF Deposed!ProfileMissing, Deposed!BuildPanics, Deposed!Malformed, Deposed!Parses,
   Deposed!InferenceRoles, Deposed!Roles, Deposed!Resolve, Deposed!Override,
   Deposed!applyProfile, Deposed!EmptyConfig, Deposed!FailedStatus, Deposed!PhaseFailed,
   Deposed!NewRBGStatus, ProfileMissing, BuildPanics, Malformed, Parses, InferenceRoles,
   Roles, Resolve, Override, applyProfile, EmptyConfig, FailedStatus, PhaseFailed,
   NewRBGStatus

-----------------------------------------------------------------------------
(***************************************************************************)
(* What a worker at step p writes, with the copy w of the service, when    *)
(* the API server accepts it.  It is the same for both managers.           *)
(***************************************************************************)
Stores(p, w, current, rbgCurrent, desired) ==
    \/ /\ p = "addFinalizer" /\ current
       /\ pdis' = [pdis EXCEPT !.finalizer = TRUE] /\ UNCHANGED rbg
    \/ /\ p = "removeFinalizer" /\ current
       /\ pdis' = IF pdis.deleting THEN Nil ELSE [pdis EXCEPT !.finalizer = FALSE]
       /\ UNCHANGED rbg
    \/ /\ p = "createRBG" /\ rbg = Nil
       /\ rbg' = [owner |-> w.uid, roles |-> desired, status |-> NewRBGStatus]
       /\ UNCHANGED pdis
    \/ /\ p = "updateRBG" /\ rbgCurrent
       /\ rbg' = [rbg EXCEPT !.roles = desired] /\ UNCHANGED pdis
    \/ /\ p \in {"writeStatus", "writeFailed"} /\ current
       /\ pdis' = [pdis EXCEPT !.status = w.status] /\ UNCHANGED rbg

LeaderStores == Stores(pc, wPDIS, wPDISCurrent, wRBGCurrent, wDesired)

DeposedStores == Stores(oPc, oWPDIS, oWPDISCurrent, oWRBGCurrent, oWDesired)

\* The leader stores only that, if anything.
LEMMA LeaderWrites ==
    ASSUME Worker \/ RequestLost \/ ReplyLost
    PROVE  LeaderStores \/ UNCHANGED <<pdis, rbg>>
<1>1. ASSUME Accepted PROVE LeaderStores
  BY <1>1 DEF Accepted, PutFinalizer, PutNoFinalizer, PutNewRBG, PutRBGRoles, PutStatus,
     PutPDIS, PutRBG, LeaderStores, Stores
<1>2. Accepted \/ UNCHANGED <<pdis, rbg>>
  BY DEF Worker, Reconcile, ensureFinalizer, handleDeletion, ResolveAndBuild, ResolveFails,
     BuildFails, applyRBG, RBGApplied, syncStatus, StatusSynced, setFailedStatus,
     WriteRejected, RequestLost, ReplyLost, Accepted, storeVars
<1> QED BY <1>1, <1>2

\* One of its informers delivers.
DeposedInforms == Deposed!RBGInformer \/ Deposed!ProfileInformer

\* Which touches its caches and nothing of its call.
LEMMA DeposedInformed ==
    ASSUME DeposedInforms
    PROVE  UNCHANGED <<pdis, rbg, profiles, uidCount, agedUpTo, budget, oPc, oWPDIS,
                       oWPDISCurrent, oWRBGCurrent, oWDesired>>
BY DEF DeposedInforms, Deposed!RBGInformer, Deposed!ProfileInformer, Deposed!storeVars,
   Deposed!workerVars, Deposed!envVars

\* And so does the deposed manager, which moves nothing else of the API server.
LEMMA DeposedWrites ==
    ASSUME DeposedWorks
    PROVE  /\ DeposedStores \/ UNCHANGED <<pdis, rbg>>
           /\ UNCHANGED <<profiles, uidCount, agedUpTo, budget, handover>>
<1>1. ASSUME Deposed!Accepted PROVE DeposedStores
  <2>1. Deposed!NewRBGStatus = NewRBGStatus
    BY SameResolve
  <2> QED
    BY <1>1, <2>1 DEF Deposed!Accepted, Deposed!PutFinalizer, Deposed!PutNoFinalizer,
       Deposed!PutNewRBG, Deposed!PutRBGRoles, Deposed!PutStatus, Deposed!PutPDIS,
       Deposed!PutRBG, DeposedStores, Stores
<1>2. CASE DeposedInforms
  BY <1>2, DeposedInformed DEF DeposedWorks
<1>3. CASE Deposed!Worker
  <2>1. /\ Deposed!Accepted \/ UNCHANGED <<pdis, rbg>>
        /\ UNCHANGED <<profiles, uidCount, agedUpTo, budget, handover>>
    BY <1>3 DEF DeposedWorks, Deposed!Worker, Deposed!Reconcile, Deposed!ensureFinalizer,
       Deposed!handleDeletion, Deposed!ResolveAndBuild, Deposed!ResolveFails,
       Deposed!BuildFails, Deposed!applyRBG, Deposed!RBGApplied, Deposed!syncStatus,
       Deposed!StatusSynced, Deposed!setFailedStatus, Deposed!WriteRejected,
       Deposed!Accepted, Deposed!storeVars, Deposed!cacheVars, Deposed!envVars,
       Deposed!WorkerLeavesAlone
  <2> QED BY <1>1, <2>1
<1> QED BY <1>2, <1>3 DEF DeposedWorks, DeposedInforms

\* What its caches are told of its own steps.
LEMMA DeposedNotes ==
    ASSUME DeposedOK, DeposedWorks, rbg' \in RBGObject \cup {Nil}
    PROVE  DeposedCaches'
<1>0. oPc # "idle" /\ DeposedCaches
  BY DEF DeposedWorks, DeposedOK
<1>1. CASE Deposed!Worker
  <2>1. /\ UNCHANGED <<oCRBG, oCProfiles, oProfileWatch>>
        /\ oRbgWatch' = IF rbg' = rbg THEN oRbgWatch ELSE Append(oRbgWatch, rbg')
    <3>1. \/ UNCHANGED <<rbg, oRbgWatch>>
          \/ \E new : Deposed!PutRBG(new)
      BY <1>1 DEF Deposed!Worker, Deposed!Reconcile, Deposed!ensureFinalizer,
         Deposed!handleDeletion, Deposed!ResolveAndBuild, Deposed!ResolveFails,
         Deposed!BuildFails, Deposed!applyRBG, Deposed!RBGApplied, Deposed!syncStatus,
         Deposed!StatusSynced, Deposed!setFailedStatus, Deposed!WriteRejected,
         Deposed!PutFinalizer, Deposed!PutNoFinalizer, Deposed!PutNewRBG,
         Deposed!PutRBGRoles, Deposed!PutStatus, Deposed!storeVars, Deposed!watchVars
    <3>2. UNCHANGED <<oCRBG, oCProfiles, oProfileWatch>>
      BY <1>1 DEF Deposed!Worker, Deposed!Reconcile, Deposed!ensureFinalizer,
         Deposed!handleDeletion, Deposed!ResolveAndBuild, Deposed!ResolveFails,
         Deposed!BuildFails, Deposed!applyRBG, Deposed!RBGApplied, Deposed!syncStatus,
         Deposed!StatusSynced, Deposed!setFailedStatus, Deposed!WriteRejected,
         Deposed!WorkerLeavesAlone, Deposed!watchVars, Deposed!cacheVars
    <3> QED BY <3>1, <3>2 DEF Deposed!PutRBG
  <2> QED BY <1>0, <2>1, AppendLatest DEF DeposedCaches
<1>2. CASE Deposed!RBGInformer
  <2>1. /\ oRbgWatch # <<>> /\ oCRBG' = Head(oRbgWatch) /\ oRbgWatch' = Tail(oRbgWatch)
        /\ UNCHANGED <<rbg, oCProfiles, oProfileWatch>>
    BY <1>2 DEF Deposed!RBGInformer, Deposed!storeVars
  <2>2. /\ Head(oRbgWatch) \in RBGObject \cup {Nil}
        /\ Tail(oRbgWatch) \in Seq(RBGObject \cup {Nil})
        /\ Latest(Head(oRbgWatch), Tail(oRbgWatch)) = Latest(oCRBG, oRbgWatch)
    BY <1>0, <2>1, TailLatest DEF DeposedCaches
  <2> QED BY <1>0, <2>1, <2>2 DEF DeposedCaches
<1>3. CASE Deposed!ProfileInformer
  <2>1. /\ oProfileWatch # <<>> /\ oCProfiles' = Head(oProfileWatch)
        /\ oProfileWatch' = Tail(oProfileWatch)
        /\ UNCHANGED <<rbg, oCRBG, oRbgWatch>>
    BY <1>3 DEF Deposed!ProfileInformer, Deposed!storeVars
  <2>2. Head(oProfileWatch) \in Profiles /\ Tail(oProfileWatch) \in Seq(Profiles)
    BY <1>0, <2>1, TailLatest DEF DeposedCaches
  <2> QED BY <1>0, <2>1, <2>2 DEF DeposedCaches
<1> QED BY <1>1, <1>2, <1>3 DEF DeposedWorks

\* What is stored stays typed.
LEMMA StoresType ==
    ASSUME TypeInv, NEW p, NEW w, NEW current, NEW rbgCurrent, NEW desired,
           Stores(p, w, current, rbgCurrent, desired),
           current => pdis # Nil, rbgCurrent => rbg # Nil,
           w \in PDISObject,
           p \in {"createRBG", "updateRBG"} => desired \in [Roles -> RBGRole]
    PROVE  pdis' \in PDISObject \cup {Nil} /\ rbg' \in RBGObject \cup {Nil}
<1>0. /\ current => pdis \in PDISObject
      /\ rbgCurrent => rbg \in RBGObject
      /\ pdis \in PDISObject \cup {Nil} /\ rbg \in RBGObject \cup {Nil}
  BY DEF TypeInv, TypeOK
<1>1. CASE /\ current /\ UNCHANGED rbg
           /\ \/ pdis' = [pdis EXCEPT !.finalizer = TRUE]
              \/ pdis' = IF pdis.deleting THEN Nil ELSE [pdis EXCEPT !.finalizer = FALSE]
              \/ pdis' = [pdis EXCEPT !.status = w.status]
  BY <1>0, <1>1 DEF PDISObject
<1>2. CASE /\ p = "createRBG" /\ UNCHANGED pdis
           /\ rbg' = [owner |-> w.uid, roles |-> desired, status |-> NewRBGStatus]
  <2>1. NewRBGStatus \in RBGStatus
    BY DEF NewRBGStatus, RBGStatus
  <2> QED BY <1>0, <1>2, <2>1 DEF RBGObject, PDISObject
<1>3. CASE /\ p = "updateRBG" /\ rbgCurrent /\ UNCHANGED pdis
           /\ rbg' = [rbg EXCEPT !.roles = desired]
  BY <1>0, <1>3 DEF RBGObject
<1> QED BY <1>1, <1>2, <1>3 DEF Stores

\* A manager that only observes a write stays typed.
LEMMA ObservesType ==
    ASSUME TypeInv, Observes, pdis' \in PDISObject \cup {Nil}, rbg' \in RBGObject \cup {Nil},
           UNCHANGED profiles, EnvOK'
    PROVE  TypeInv'
<1>1. PutPDIS(pdis') /\ PutRBG(rbg')
  BY DEF Observes, PutPDIS, PutRBG
<1>2. /\ pdisWatch' \in Seq(PDISObject \cup {Nil}) /\ Latest(cPDIS, pdisWatch') = pdis'
      /\ rbgWatch' \in Seq(RBGObject \cup {Nil}) /\ Latest(cRBG, rbgWatch') = rbg'
  BY <1>1, PutPDISType, PutRBGType
<1>3. TypeOK'
  BY <1>2 DEF Observes, TypeInv, TypeOK, EnvOK, cacheVars, queueVars
<1>4. Delivered' /\ CopiesCurrent'
  BY <1>2 DEF Observes, TypeInv, Delivered, CopiesCurrent, cacheVars
<1> QED BY <1>3, <1>4 DEF TypeInv

-----------------------------------------------------------------------------
(***************************************************************************)
(* Types.                                                                  *)
(***************************************************************************)
\* What the deposed manager is left with when its call has returned.
DeposedReturned ==
    /\ oPc' = "idle" /\ oWPDIS' = Nil
    /\ oWPDISCurrent' = FALSE /\ oWRBGCurrent' = FALSE

\* The steps that end the call.
DeposedLast ==
    \/ Deposed!handleDeletion \/ Deposed!BuildFails \/ Deposed!StatusSynced
    \/ Deposed!setFailedStatus \/ Deposed!WriteRejected

\* They leave nothing.
LEMMA DeposedReturns ==
    ASSUME DeposedLast
    PROVE  DeposedReturned
BY DEF DeposedLast, Deposed!handleDeletion, Deposed!BuildFails, Deposed!StatusSynced,
   Deposed!setFailedStatus, Deposed!WriteRejected, Deposed!ReturnError, Deposed!Return,
   DeposedReturned

\* The deposed manager is within a call, so it does not fetch another service.
LEMMA DeposedGoesOn ==
    ASSUME DeposedWorks
    PROVE  \/ DeposedLast \/ DeposedInforms
           \/ Deposed!ensureFinalizer \/ Deposed!ResolveAndBuild \/ Deposed!ResolveFails
           \/ Deposed!applyRBG \/ Deposed!RBGApplied \/ Deposed!syncStatus
BY DEF DeposedWorks, DeposedLast, DeposedInforms, Deposed!Worker, Deposed!Reconcile

\* A copy whose status was replaced is the same service.
LEMMA StatusReplaced ==
    ASSUME NEW o \in PDISObject, NEW st \in PDInferenceServiceStatus
    PROVE  LET new == [o EXCEPT !.status = st]
           IN  /\ new \in PDISObject /\ new # Nil
               /\ new.uid = o.uid /\ new.finalizer = o.finalizer
               /\ new.deleting = o.deleting /\ new.spec = o.spec /\ new.status = st
<1>1. [o EXCEPT !.status = st] \in PDISObject
  BY DEF PDISObject
<1> QED BY <1>1, NilAssumption DEF PDISObject

\* The status syncStatus of the deposed manager computes.
DeposedAggregate ==
    AggregateStatus(oWPDIS.status, IF oCRBG = Nil THEN Nil ELSE oCRBG.status,
                    oWPDIS.deleting, oWPDIS.uid <= agedUpTo)

\* syncStatus and setFailedStatus of the deposed manager, in these words.
LEMMA DeposedReplaces ==
    /\ Deposed!syncStatus =>
         oPc = "syncStatus" /\ oPc' = "writeStatus"
         /\ oWPDIS' = [oWPDIS EXCEPT !.status = DeposedAggregate]
         /\ UNCHANGED <<pdis, rbg, oWPDISCurrent, oWRBGCurrent>>
    /\ Deposed!ResolveFails =>
         oPc = "resolve" /\ oPc' = "writeFailed"
         /\ oWPDIS' = [oWPDIS EXCEPT !.status =
                          FailedStatus(oWPDIS.status, "ProfileResolveFailed")]
         /\ UNCHANGED <<pdis, rbg, oWPDISCurrent, oWRBGCurrent>>
<1>1. ASSUME Deposed!syncStatus
      PROVE  /\ oPc = "syncStatus" /\ oPc' = "writeStatus"
             /\ oWPDIS' = [oWPDIS EXCEPT !.status = DeposedAggregate]
             /\ UNCHANGED <<pdis, rbg, oWPDISCurrent, oWRBGCurrent>>
  BY <1>1, SameAggregate DEF Deposed!syncStatus, Deposed!Goto, Deposed!storeVars,
     Deposed!watchVars, DeposedAggregate
<1>2. ASSUME Deposed!ResolveFails
      PROVE  /\ oPc = "resolve" /\ oPc' = "writeFailed"
             /\ oWPDIS' = [oWPDIS EXCEPT !.status =
                              FailedStatus(oWPDIS.status, "ProfileResolveFailed")]
             /\ UNCHANGED <<pdis, rbg, oWPDISCurrent, oWRBGCurrent>>
  BY <1>2, SameResolve DEF Deposed!ResolveFails, Deposed!Goto, Deposed!storeVars,
     Deposed!watchVars
<1> QED BY <1>1, <1>2

\* Both replace a status by a status.
LEMMA DeposedStatusType ==
    ASSUME DeposedOK, oPc # "idle"
    PROVE  /\ DeposedAggregate \in PDInferenceServiceStatus
           /\ FailedStatus(oWPDIS.status, "ProfileResolveFailed") \in PDInferenceServiceStatus
<1>1. oWPDIS.status \in PDInferenceServiceStatus
  BY DEF DeposedOK, PDISObject
<1> DEFINE st == IF oCRBG = Nil THEN Nil ELSE oCRBG.status
<1>2. st # Nil => st \in RBGStatus
  BY DEF DeposedOK, DeposedCaches, RBGObject
<1> HIDE DEF st
<1>3. AggregateStatus(oWPDIS.status, st, oWPDIS.deleting, oWPDIS.uid <= agedUpTo)
        \in PDInferenceServiceStatus
  BY <1>1, <1>2, AggregateType
<1>4. FailedStatus(oWPDIS.status, "ProfileResolveFailed") \in PDInferenceServiceStatus
  BY <1>1, TextAssumption DEF FailedStatus, PDInferenceServiceStatus, Phases, PhaseFailed
<1> QED BY <1>3, <1>4 DEF DeposedAggregate, st

\* The copies of the deposed manager through a step of its own.
LEMMA DeposedWorksOK ==
    ASSUME HandType, DeposedWorks, rbg' \in RBGObject \cup {Nil}
    PROVE  DeposedOK'
<1> USE DEF HandType
<1>0. /\ oPc # "idle" /\ oWPDIS \in PDISObject /\ oWPDIS # Nil
      /\ handover' = "during" /\ DeposedCaches /\ DeposedCaches'
  BY DeposedWrites, DeposedNotes DEF DeposedWorks, DeposedOK
<1>i. CASE DeposedInforms
  BY <1>0, <1>i, DeposedInformed DEF DeposedOK
<1>1. CASE DeposedLast
  BY <1>1, DeposedReturns DEF DeposedReturned, DeposedOK, Steps
<1>2. CASE Deposed!ensureFinalizer
  <2>1. /\ oPc = "addFinalizer" /\ oWPDISCurrent /\ oPc' = "resolve"
        /\ pdis' = [pdis EXCEPT !.finalizer = TRUE] /\ oWPDIS' = pdis'
        /\ UNCHANGED <<rbg, oWPDISCurrent, oWRBGCurrent>>
    BY <1>2 DEF Deposed!ensureFinalizer, Deposed!PutFinalizer, Deposed!PutPDIS, Deposed!Goto
  <2>2. pdis' \in PDISObject
    BY <2>1 DEF DeposedOK, TypeInv, TypeOK, PDISObject
  <2>3. pdis' # Nil
    BY <2>2, NilAssumption
  <2> QED BY <1>0, <2>1, <2>2, <2>3 DEF DeposedOK, Steps
<1>3. CASE Deposed!ResolveAndBuild
  <2>1. /\ oPc = "resolve" /\ oPc' = "getRBG"
        /\ ~ProfileMissing(oWPDIS.spec, oCProfiles) /\ ~BuildPanics(oWPDIS.spec)
        /\ oWDesired' = Build(oWPDIS.spec, Resolve(oWPDIS.spec, oCProfiles))
        /\ UNCHANGED <<pdis, rbg, oWPDIS, oWPDISCurrent, oWRBGCurrent>>
    BY <1>3, SameResolve, SameBuild DEF Deposed!ResolveAndBuild, Deposed!Goto,
       Deposed!storeVars, Deposed!watchVars
  <2>2. oWPDIS.spec \in StoredSpecs /\ oCProfiles \in Profiles
    BY <1>0 DEF DeposedCaches, PDISObject
  <2>3. oWDesired' \in [Roles -> RBGRole]
    BY <2>1, <2>2, ResolveType, BuildType
  <2> QED BY <1>0, <2>1, <2>3 DEF DeposedOK, Steps
<1>4. CASE Deposed!ResolveFails \/ Deposed!syncStatus
  <2>1. PICK st \in PDInferenceServiceStatus : oWPDIS' = [oWPDIS EXCEPT !.status = st]
    BY <1>0, <1>4, DeposedReplaces, DeposedStatusType
  <2>2. /\ oWPDIS' \in PDISObject /\ oWPDIS' # Nil /\ oWPDIS'.uid = oWPDIS.uid
        /\ oWPDIS'.finalizer = oWPDIS.finalizer /\ oWPDIS'.deleting = oWPDIS.deleting
    BY <1>0, <2>1, StatusReplaced
  <2>3. /\ oPc' \in {"writeFailed", "writeStatus"}
        /\ UNCHANGED <<pdis, rbg, oWPDISCurrent, oWRBGCurrent>>
    BY <1>4, DeposedReplaces
  <2> QED BY <1>0, <2>2, <2>3 DEF DeposedOK, Steps, WriteSteps
<1>5. CASE Deposed!applyRBG
  <2>1. /\ oPc = "getRBG" /\ oPc' \in {"createRBG", "updateRBG"}
        /\ oWRBGCurrent' = (oCRBG # Nil /\ oRbgWatch = <<>>)
        /\ UNCHANGED <<pdis, rbg, oWPDIS, oWPDISCurrent, oWDesired>>
    BY <1>5 DEF Deposed!applyRBG, Deposed!Goto, Deposed!storeVars, Deposed!watchVars
  <2>2. oWRBGCurrent' \in BOOLEAN /\ (oWRBGCurrent' => rbg' # Nil)
    BY <1>0, <2>1 DEF DeposedCaches, Latest
  <2> QED BY <1>0, <2>1, <2>2 DEF DeposedOK, Steps, WriteSteps
<1>6. CASE Deposed!RBGApplied
  <2>1. /\ oPc' = "syncStatus" /\ oWRBGCurrent' = FALSE
        /\ UNCHANGED <<pdis, oWPDIS, oWPDISCurrent>>
    BY <1>6 DEF Deposed!RBGApplied, Deposed!PutNewRBG, Deposed!PutRBGRoles, Deposed!Goto
  <2> QED BY <1>0, <2>1 DEF DeposedOK, Steps
<1> QED BY <1>i, <1>1, <1>2, <1>3, <1>4, <1>5, <1>6, DeposedGoesOn


\* A step of anybody else leaves the deposed manager with outdated copies at
\* worst.
LEMMA DeposedObservesOK ==
    ASSUME DeposedOK, DeposedObserves, rbg' \in RBGObject \cup {Nil}, profiles' \in Profiles
    PROVE  DeposedOK'
<1>1. UNCHANGED <<handover, oPc, oWPDIS, oWDesired, oCRBG, oCProfiles>>
  BY DEF DeposedObserves
<1>2. /\ oWPDISCurrent' \in BOOLEAN /\ (oWPDISCurrent' => oWPDISCurrent /\ pdis' = pdis)
      /\ oWRBGCurrent' \in BOOLEAN /\ (oWRBGCurrent' => oWRBGCurrent /\ rbg' = rbg)
  BY DEF DeposedObserves, DeposedOK
<1>3. ASSUME oPc # "idle" PROVE DeposedCaches'
  <2>1. /\ DeposedCaches
        /\ oRbgWatch' = IF rbg' # rbg THEN Append(oRbgWatch, rbg') ELSE oRbgWatch
        /\ oProfileWatch' = IF profiles' # profiles THEN Append(oProfileWatch, profiles')
                            ELSE oProfileWatch
    BY <1>3 DEF DeposedObserves, DeposedOK
  <2>2. oRbgWatch' \in Seq(RBGObject \cup {Nil}) /\ Latest(oCRBG, oRbgWatch') = rbg'
    BY <2>1, AppendLatest DEF DeposedCaches
  <2>3. oProfileWatch' \in Seq(Profiles)
    BY <2>1, AppendLatest DEF DeposedCaches
  <2> QED BY <1>1, <2>1, <2>2, <2>3 DEF DeposedCaches
<1> QED BY <1>1, <1>2, <1>3 DEF DeposedOK

\* The steps of Others are steps of Reconciler.
LEMMA OthersAreSteps ==
    ASSUME Others
    PROVE  /\ Worker \/ Users \/ Cluster \/ Manager \/ Faults
           /\ DeposedObserves
BY DEF Others, Cluster, Manager

\* Both managers stay typed through every step of the handover.
LEMMA HandTypeStep ==
    ASSUME HandType, HandNext
    PROVE  HandType'
<1> USE DEF HandType
<1>1. CASE Others
  <2>1. TypeInv'
    BY <1>1, OthersAreSteps, UsersType, ClusterType, ManagerType, WorkerType DEF Faults
  <2>2. DeposedOK'
    BY <1>1, <2>1, OthersAreSteps, DeposedObservesOK DEF TypeInv, TypeOK
  <2> QED BY <2>1, <2>2
<1>2. CASE TakeOver
  <2>1. EnvOK' BY <1>2 DEF TakeOver, envVars, EnvOK, TypeInv, TypeOK
  <2>2. TypeInv' BY <1>2, <2>1, RelistType DEF TakeOver
  <2>3. /\ pc # "idle" /\ handover' = "during" /\ oPc' = pc /\ oWPDIS' = wPDIS
        /\ oWDesired' = wDesired /\ oCRBG' = cRBG /\ oCProfiles' = cProfiles
        /\ oRbgWatch' = rbgWatch /\ oProfileWatch' = profileWatch
        /\ oWPDISCurrent' = wPDISCurrent
        /\ oWRBGCurrent' = wRBGCurrent /\ UNCHANGED <<pdis, rbg>>
    BY <1>2 DEF TakeOver, Relist, storeVars
  <2>4. DeposedCaches'
    BY <2>3 DEF TypeInv, TypeOK, Delivered, DeposedCaches
  <2>5. DeposedOK'
    BY <2>3, <2>4 DEF DeposedOK, TypeInv, TypeOK, CopiesCurrent
  <2> QED BY <2>2, <2>5
<1>3. CASE DeposedWorks
  <2>1. pdis' \in PDISObject \cup {Nil} /\ rbg' \in RBGObject \cup {Nil}
    <3>1. CASE DeposedStores
      BY <1>3, <3>1, StoresType DEF DeposedStores, DeposedOK, DeposedWorks
    <3>2. CASE UNCHANGED <<pdis, rbg>>
      BY <3>2 DEF TypeInv, TypeOK
    <3> QED BY <1>3, <3>1, <3>2, DeposedWrites
  <2>2. DeposedOK' BY <1>3, <2>1, DeposedWorksOK
  <2>3. EnvOK' /\ UNCHANGED profiles
    BY <1>3, DeposedWrites DEF EnvOK, TypeInv, TypeOK
  <2> QED BY <1>3, <2>1, <2>2, <2>3, ObservesType DEF DeposedWorks
<1>4. CASE DeposedExits
  <2>1. TypeInv'
    BY <1>4, TypeStep DEF DeposedExits
  <2> QED BY <1>4, <2>1 DEF DeposedExits, DeposedOK, Steps
<1> QED BY <1>1, <1>2, <1>3, <1>4 DEF HandNext

\* Nothing happens to them in a step that changes nothing.
LEMMA HandTypeStutter == HandType /\ UNCHANGED handVars => HandType'
<1>1. TypeInv /\ UNCHANGED handVars => TypeInv'
  BY TypeStep DEF handVars
<1>2. DeposedOK /\ UNCHANGED handVars => DeposedOK'
  BY DEF DeposedOK, DeposedCaches, handVars, deposedVars, vars, storeVars
<1> QED BY <1>1, <1>2 DEF HandType

\* The types hold at first.
LEMMA HandTypeInit == HandInit => HandType
BY TypeInit DEF HandInit, HandType, DeposedOK, Steps

\* Types hold through a handover, for the leader and for the deposed manager.
LEMMA HandTyped == HandSpec => []HandType
BY HandTypeInit, HandTypeStep, HandTypeStutter, PTL DEF HandSpec

\* No write of either manager is accepted for an object that does not exist, and
\* the one that leads never ends up with a copy the other has made nonsense of.
THEOREM HandoverTypeCorrect == HandSpec => []TypeOK
<1>1. HandType => TypeOK
  BY DEF HandType, TypeInv
<1> QED BY <1>1, HandTyped, PTL

-----------------------------------------------------------------------------
(***************************************************************************)
(* The finalizer.  What a step may do to the stored service, to the group  *)
(* and to the versions held, and why that keeps every promise.             *)
(***************************************************************************)
\* A finalizer goes only with its service, and a new service has a new uid.
GuardStays ==
    \/ pdis' = Nil /\ UNCHANGED uidCount
    \/ /\ pdis # Nil /\ pdis' # Nil /\ pdis'.uid = pdis.uid
       /\ pdis.finalizer => pdis'.finalizer
       /\ UNCHANGED uidCount
    \/ pdis = Nil /\ pdis' # Nil /\ pdis'.uid = uidCount + 1 /\ uidCount' = uidCount + 1

\* A group keeps its owner, or is made for a service that was seen guarded.
OwnerStays ==
    \/ rbg' = Nil
    \/ rbg # Nil /\ rbg'.owner = rbg.owner
    \/ /\ UNCHANGED <<pdis, uidCount>>
       /\ \E v \in Held \ {Nil} : v.finalizer /\ rbg'.owner = v.uid

\* Nobody holds a version that was never stored, in what matters here.
HeldStays ==
    \A v \in Held' \ {Nil} :
        \/ v = pdis'
        \/ \E u \in Held \ {Nil} : v.uid = u.uid /\ (v.finalizer => u.finalizer)

\* Such a step keeps every promise.
LEMMA PromisesKept ==
    ASSUME TypeInv, TypeInv', UidsUsed, HeldGuarded, OwnedIsGuarded,
           GuardStays, OwnerStays, HeldStays
    PROVE  UidsUsed' /\ HeldGuarded' /\ OwnedIsGuarded'
<1>0. /\ uidCount \in Nat /\ uidCount' \in Nat /\ uidCount <= uidCount'
      /\ pdis # Nil => pdis.uid \in Nat
      /\ pdis' # Nil => pdis'.uid \in Nat
      /\ rbg # Nil => rbg.owner \in Nat
      /\ rbg' # Nil => rbg'.owner \in Nat
  BY BoundsAssumption DEF GuardStays, TypeInv, TypeOK, PDISObject, RBGObject
<1>1. pdis' # Nil => pdis'.uid \in 0 .. uidCount'
  BY <1>0 DEF GuardStays, UidsUsed
<1>2. ASSUME NEW u \in Held \ {Nil}
      PROVE  /\ u.uid \in 0 .. uidCount
             /\ u.finalizer /\ pdis' # Nil /\ pdis'.uid = u.uid => pdis'.finalizer
  BY <1>0, <1>2 DEF HeldGuarded, GuardStays
<1>3. HeldGuarded'
  <2> SUFFICES ASSUME NEW v \in Held' \ {Nil}
               PROVE  /\ v.uid \in 0 .. uidCount'
                      /\ v.finalizer /\ pdis' # Nil /\ pdis'.uid = v.uid => pdis'.finalizer
    BY DEF HeldGuarded
  <2>1. CASE v = pdis'
    BY <1>1, <2>1
  <2>2. ASSUME NEW u \in Held \ {Nil}, v.uid = u.uid, v.finalizer => u.finalizer
        PROVE  /\ v.uid \in 0 .. uidCount'
               /\ v.finalizer /\ pdis' # Nil /\ pdis'.uid = v.uid => pdis'.finalizer
    BY <1>0, <1>2, <2>2
  <2> QED BY <2>1, <2>2 DEF HeldStays
<1>4. UidsUsed' /\ OwnedIsGuarded'
  <2>1. CASE rbg' = Nil
    BY <1>0, <1>1, <2>1 DEF UidsUsed, OwnedIsGuarded
  <2>2. CASE rbg # Nil /\ rbg'.owner = rbg.owner
    <3>1. rbg.owner <= uidCount
      BY <2>2 DEF UidsUsed
    <3> QED BY <1>0, <1>1, <2>2, <3>1 DEF UidsUsed, OwnedIsGuarded, GuardStays
  <2>3. CASE UNCHANGED <<pdis, uidCount>> /\
             \E v \in Held \ {Nil} : v.finalizer /\ rbg'.owner = v.uid
    BY <1>0, <1>1, <1>2, <2>3 DEF UidsUsed, OwnedIsGuarded
  <2> QED BY <2>1, <2>2, <2>3 DEF OwnerStays
<1> QED BY <1>3, <1>4

\* What a manager may write, given that its step is justified.
LEMMA StoresGuarded ==
    ASSUME TypeInv, NEW p, NEW w \in Held \ {Nil}, NEW current, NEW rbgCurrent, NEW desired,
           Stores(p, w, current, rbgCurrent, desired), UNCHANGED uidCount,
           current => pdis # Nil /\ pdis.deleting = w.deleting, rbgCurrent => rbg # Nil,
           p \in GuardedSteps => w.finalizer, p = "removeFinalizer" => w.deleting
    PROVE  GuardStays /\ OwnerStays
<1>0. /\ current => pdis \in PDISObject
      /\ rbgCurrent => rbg \in RBGObject
  BY DEF TypeInv, TypeOK
<1>1. CASE /\ p = "addFinalizer" /\ current
           /\ pdis' = [pdis EXCEPT !.finalizer = TRUE] /\ UNCHANGED rbg
  <2>1. pdis' \in PDISObject /\ pdis'.uid = pdis.uid /\ pdis'.finalizer
    BY <1>0, <1>1 DEF PDISObject
  <2> QED BY <1>1, <2>1, NilAssumption DEF GuardStays, OwnerStays
<1>2. CASE /\ p = "removeFinalizer" /\ current /\ UNCHANGED rbg
           /\ pdis' = IF pdis.deleting THEN Nil ELSE [pdis EXCEPT !.finalizer = FALSE]
  BY <1>2 DEF GuardStays, OwnerStays
<1>3. CASE /\ p = "createRBG" /\ UNCHANGED pdis
           /\ rbg' = [owner |-> w.uid, roles |-> desired, status |-> NewRBGStatus]
  <2>1. w.finalizer /\ rbg'.owner = w.uid
    BY <1>3 DEF GuardedSteps, Steps, WriteSteps
  <2> QED BY <1>3, <2>1 DEF GuardStays, OwnerStays
<1>4. CASE /\ p = "updateRBG" /\ rbgCurrent /\ UNCHANGED pdis
           /\ rbg' = [rbg EXCEPT !.roles = desired]
  <2>1. rbg # Nil /\ rbg'.owner = rbg.owner
    BY <1>0, <1>4 DEF RBGObject
  <2> QED BY <1>4, <2>1 DEF GuardStays, OwnerStays
<1>5. CASE /\ current /\ UNCHANGED rbg /\ pdis' = [pdis EXCEPT !.status = w.status]
  <2>1. pdis # Nil /\ pdis'.uid = pdis.uid /\ pdis'.finalizer = pdis.finalizer
    BY <1>0, <1>5 DEF PDISObject
  <2> QED BY <1>5, <2>1 DEF GuardStays, OwnerStays
<1> QED BY <1>1, <1>2, <1>3, <1>4, <1>5 DEF Stores


\* A copy that is dropped, kept, taken from what is held, or given a new status.
Kept(new) ==
    \/ new \in Held \cup {Nil, pdis'}
    \/ \E u \in Held \ {Nil} : new.uid = u.uid /\ new.finalizer = u.finalizer

\* Steps add no version but the one that is stored by then.
LEMMA KeptHeld ==
    ASSUME SeenPDIS' \subseteq Held \cup {pdis'}, Kept(wPDIS'), Kept(oWPDIS')
    PROVE  HeldStays
<1> SUFFICES ASSUME NEW v \in Held' \ {Nil}
             PROVE  \/ v = pdis'
                    \/ \E u \in Held \ {Nil} : v.uid = u.uid /\ (v.finalizer => u.finalizer)
  BY DEF HeldStays
<1>1. Kept(v)
  BY DEF Held, Kept
<1> QED BY <1>1 DEF Kept

\* What Observes and the writes of users and of the leader add to a watch.
LEMMA SeenAfterWrite ==
    ASSUME TypeInv, TypeInv', PutPDIS(pdis'), UNCHANGED cPDIS
    PROVE  SeenPDIS' \subseteq SeenPDIS \cup {pdis'}
<1>1. pdis' \in PDISObject \cup {Nil}
  BY DEF TypeInv, TypeOK
<1> QED BY <1>1, SeenAfterPut

\* The leader's copies and steps, where it works.
LEMMA LeaderJustified ==
    ASSUME TypeInv, HandGuard, Worker \/ RequestLost \/ ReplyLost
    PROVE  /\ pc' \in GuardedSteps => wPDIS'.finalizer
           /\ pc' = "removeFinalizer" => wPDIS'.deleting
           /\ Kept(wPDIS')
<1> USE DEF GuardedSteps
<1>s. ASSUME NEW st, wPDIS \in PDISObject, wPDIS' = [wPDIS EXCEPT !.status = st]
      PROVE  wPDIS'.uid = wPDIS.uid /\ wPDIS'.finalizer = wPDIS.finalizer
  BY <1>s DEF PDISObject
<1>w. wPDIS \in Held
  BY DEF Held
<1>1. CASE Reconcile
  <2>1. cPDIS \in Held BY DEF Held, SeenPDIS
  <2>2. CASE cPDIS = Nil \/ AfterFetch = "idle"
    BY <1>1, <1>w, <2>2 DEF Reconcile, workerVars, Kept, HandGuard, StepsJustified
  <2>3. CASE ~(cPDIS = Nil \/ AfterFetch = "idle")
    <3>1. pc' = AfterFetch /\ wPDIS' = cPDIS
      BY <1>1, <2>3 DEF Reconcile
    <3> QED BY <2>1, <2>3, <3>1 DEF AfterFetch, Kept, Steps, WriteSteps
  <2> QED BY <2>2, <2>3
<1>2. CASE ensureFinalizer
  <2>1. pdis \in PDISObject /\ pdis' = [pdis EXCEPT !.finalizer = TRUE]
    BY <1>2 DEF ensureFinalizer, PutFinalizer, PutPDIS, TypeInv, TypeOK, CopiesCurrent
  <2>2. pdis'.finalizer
    BY <2>1 DEF PDISObject
  <2> QED BY <1>2, <2>2 DEF ensureFinalizer, Goto, Kept
<1>3. CASE ResolveAndBuild \/ applyRBG \/ RBGApplied
  <2>1. /\ pc \in GuardedSteps /\ pc' # "removeFinalizer" /\ UNCHANGED wPDIS
    BY <1>3 DEF ResolveAndBuild, applyRBG, RBGApplied, PutNewRBG, PutRBGRoles, Goto, Steps,
       WriteSteps
  <2> QED BY <1>w, <2>1 DEF Kept, HandGuard, StepsJustified
<1>4. CASE ResolveFails \/ syncStatus
  <2>1. /\ pc \in GuardedSteps /\ pc' # "removeFinalizer" /\ pc # "idle"
        /\ \E st : wPDIS' = [wPDIS EXCEPT !.status = st]
    BY <1>4 DEF ResolveFails, syncStatus, Goto, Steps, WriteSteps
  <2>2. wPDIS \in PDISObject /\ wPDIS # Nil
    BY <2>1 DEF TypeInv, TypeOK
  <2>3. wPDIS'.uid = wPDIS.uid /\ wPDIS'.finalizer = wPDIS.finalizer
    BY <1>s, <2>1, <2>2
  <2> QED BY <1>w, <2>1, <2>2, <2>3 DEF Kept, HandGuard, StepsJustified
<1>5. CASE handleDeletion \/ BuildFails \/ StatusSynced \/ setFailedStatus \/ WriteRejected
           \/ RequestLost \/ ReplyLost
  <2>1. pc' = "idle" /\ wPDIS' = Nil
    BY <1>5 DEF handleDeletion, BuildFails, StatusSynced, setFailedStatus, WriteRejected,
       RequestLost, ReplyLost, ReturnError, Return
  <2> QED BY <2>1 DEF Kept
<1> QED BY <1>1, <1>2, <1>3, <1>4, <1>5 DEF Worker

\* The same of the deposed manager.
LEMMA DeposedJustified ==
    ASSUME HandType, HandGuard, DeposedWorks
    PROVE  /\ oPc' \in GuardedSteps => oWPDIS'.finalizer
           /\ oPc' = "removeFinalizer" => oWPDIS'.deleting
           /\ Kept(oWPDIS')
<1> USE DEF GuardedSteps
<1>0. oPc # "idle" /\ oWPDIS \in PDISObject /\ oWPDIS # Nil /\ oWPDIS \in Held
  BY DEF DeposedWorks, HandType, DeposedOK, Held
<1>i. CASE DeposedInforms
  BY <1>0, <1>i, DeposedInformed DEF Kept, HandGuard, StepsJustified
<1>1. CASE DeposedLast
  BY <1>1, DeposedReturns DEF DeposedReturned, Kept
<1>2. CASE Deposed!ensureFinalizer
  <2>1. /\ oWPDISCurrent /\ pdis' = [pdis EXCEPT !.finalizer = TRUE] /\ oWPDIS' = pdis'
        /\ oPc' = "resolve"
    BY <1>2 DEF Deposed!ensureFinalizer, Deposed!PutFinalizer, Deposed!PutPDIS, Deposed!Goto
  <2>2. pdis'.finalizer
    BY <2>1 DEF HandType, DeposedOK, TypeInv, TypeOK, PDISObject
  <2> QED BY <2>1, <2>2 DEF Kept
<1>3. CASE Deposed!ResolveAndBuild \/ Deposed!applyRBG \/ Deposed!RBGApplied
  <2>1. oPc \in GuardedSteps /\ oPc' # "removeFinalizer" /\ UNCHANGED oWPDIS
    BY <1>3 DEF Deposed!ResolveAndBuild, Deposed!applyRBG, Deposed!RBGApplied,
       Deposed!PutNewRBG, Deposed!PutRBGRoles, Deposed!Goto, Steps, WriteSteps
  <2> QED BY <1>0, <2>1 DEF Kept, HandGuard, StepsJustified
<1>4. CASE Deposed!ResolveFails \/ Deposed!syncStatus
  <2>1. PICK st \in PDInferenceServiceStatus : oWPDIS' = [oWPDIS EXCEPT !.status = st]
    BY <1>0, <1>4, DeposedReplaces, DeposedStatusType DEF HandType
  <2>2. oPc \in GuardedSteps /\ oPc' # "removeFinalizer"
    BY <1>4, DeposedReplaces DEF Steps
  <2>3. oWPDIS'.uid = oWPDIS.uid /\ oWPDIS'.finalizer = oWPDIS.finalizer
    BY <1>0, <2>1, StatusReplaced
  <2> QED BY <1>0, <2>2, <2>3 DEF Kept, HandGuard, StepsJustified
<1> QED BY <1>i, <1>1, <1>2, <1>3, <1>4, DeposedGoesOn


\* The steps of everybody else keep the promises made to the deposed manager.
LEMMA GuardThroughOthers ==
    ASSUME HandType, TypeInv', HandGuard, Others
    PROVE  HandGuard'
<1>0. Worker \/ Users \/ Cluster \/ Manager \/ Faults
  BY OthersAreSteps
<1>o. UNCHANGED <<oPc, oWPDIS>> /\ Kept(oWPDIS')
  BY OthersAreSteps DEF DeposedObserves, Kept, Held
<1>p. ASSUME GuardStays, OwnerStays, SeenPDIS' \subseteq SeenPDIS \cup {pdis'},
             Kept(wPDIS'), pc' \in GuardedSteps => wPDIS'.finalizer,
             pc' = "removeFinalizer" => wPDIS'.deleting
      PROVE  HandGuard'
  <2>1. HeldStays
    BY <1>o, <1>p, KeptHeld DEF Held
  <2> QED BY <1>o, <1>p, <2>1, PromisesKept DEF HandType, HandGuard, StepsJustified
<1>k. ASSUME UNCHANGED <<pc, wPDIS>>
      PROVE  /\ Kept(wPDIS') /\ (pc' \in GuardedSteps => wPDIS'.finalizer)
             /\ (pc' = "removeFinalizer" => wPDIS'.deleting)
  BY <1>k DEF Kept, Held, HandGuard, StepsJustified
<1>1. CASE Users
  <2>1. ASSUME NEW new, OthersPutPDIS(new), GuardStays PROVE HandGuard'
    <3>1. /\ PutPDIS(pdis') /\ UNCHANGED <<cPDIS, rbg, pc, wPDIS>>
      BY <2>1 DEF OthersPutPDIS, PutPDIS, cacheVars
    <3>2. SeenPDIS' \subseteq SeenPDIS \cup {pdis'}
      BY <3>1, SeenAfterWrite DEF HandType
    <3>3. OwnerStays
      BY <3>1 DEF OwnerStays
    <3> QED BY <1>p, <1>k, <2>1, <3>1, <3>2, <3>3
  <2>2. ASSUME NEW spec \in ServiceSpecs, CreateService(spec) PROVE HandGuard'
    <3> DEFINE new == [uid |-> uidCount + 1, spec |-> Stored(spec), finalizer |-> FALSE,
                       deleting |-> FALSE, status |-> NewStatus]
    <3>1. /\ pdis = Nil /\ OthersPutPDIS(new) /\ uidCount' = uidCount + 1
          /\ pdis' = new /\ new.uid = uidCount + 1
      BY <2>2 DEF CreateService, OthersPutPDIS, PutPDIS
    <3>2. new # Nil
      <4>1. new \in PDISObject \cup {Nil} BY <3>1 DEF TypeInv, TypeOK
      <4>2. Stored(spec) \in StoredSpecs BY StoredType, SpecsAssumption
      <4>3. NewStatus \in PDInferenceServiceStatus
        BY DEF NewStatus, PDInferenceServiceStatus, Phases
      <4>4. uidCount + 1 \in Nat
        BY BoundsAssumption DEF HandType, TypeInv, TypeOK
      <4>5. new \in PDISObject BY <4>2, <4>3, <4>4 DEF PDISObject
      <4> QED BY <4>5, NilAssumption
    <3> HIDE DEF new
    <3> QED BY <2>1, <3>1, <3>2 DEF GuardStays
  <2>3. ASSUME NEW spec \in ServiceSpecs, UpdateService(spec) PROVE HandGuard'
    <3>1. /\ pdis # Nil /\ OthersPutPDIS([pdis EXCEPT !.spec = Stored(spec)])
          /\ pdis' = [pdis EXCEPT !.spec = Stored(spec)] /\ UNCHANGED uidCount
      BY <2>3 DEF UpdateService, Disturb, OthersPutPDIS, PutPDIS
    <3>2. pdis'.uid = pdis.uid /\ pdis'.finalizer = pdis.finalizer
      BY <3>1 DEF HandType, TypeInv, TypeOK, PDISObject
    <3> QED BY <2>1, <3>1, <3>2 DEF GuardStays
  <2>4. CASE DeleteService
    <3>1. /\ pdis # Nil /\ UNCHANGED uidCount
          /\ OthersPutPDIS(IF pdis.finalizer THEN [pdis EXCEPT !.deleting = TRUE] ELSE Nil)
          /\ pdis' = IF pdis.finalizer THEN [pdis EXCEPT !.deleting = TRUE] ELSE Nil
      BY <2>4 DEF DeleteService, OthersPutPDIS, PutPDIS, envVars
    <3>2. pdis' # Nil => pdis'.uid = pdis.uid /\ pdis'.finalizer = pdis.finalizer
      BY <3>1 DEF HandType, TypeInv, TypeOK, PDISObject
    <3>3. GuardStays
      BY <3>1, <3>2 DEF GuardStays
    <3> QED BY <2>1, <3>1, <3>3
  <2>5. ASSUME NEW name, NEW q, SetProfile(name, q) \/ DeleteProfile(name) PROVE HandGuard'
    <3>1. UNCHANGED <<pdis, rbg, uidCount, pdisWatch, cPDIS, pc, wPDIS>>
      BY <2>5 DEF SetProfile, DeleteProfile, OthersPutProfiles, Disturb, cacheVars, workerVars
    <3> QED BY <1>p, <1>k, <3>1 DEF GuardStays, OwnerStays, SeenPDIS
  <2> QED BY <1>1, <2>2, <2>3, <2>4, <2>5 DEF Users
<1>2. CASE Cluster
  <2>1. /\ UNCHANGED <<pdis, uidCount, pdisWatch, cPDIS, pc, wPDIS>>
        /\ rbg' = Nil \/ rbg' = rbg \/ (rbg # Nil /\ \E st : rbg' = [rbg EXCEPT !.status = st])
    BY <1>2 DEF Cluster, RBGReportsStatus, DeleteRBG, CollectRBG, ServiceAges, OthersPutRBG,
       PutRBG, Disturb, storeVars, watchVars, cacheVars, workerVars, envVars
  <2>2. OwnerStays
    BY <2>1 DEF OwnerStays, HandType, TypeInv, TypeOK, RBGObject
  <2> QED BY <1>p, <1>k, <2>1, <2>2 DEF GuardStays, SeenPDIS
<1>3. CASE Manager
  <2>1. UNCHANGED <<pdis, rbg, uidCount, pc, wPDIS>>
    BY <1>3 DEF Manager, PDISInformer, RBGInformer, ProfileInformer, DelayExpires, Resync,
       storeVars, workerVars, envVars
  <2>2. SeenPDIS' \subseteq SeenPDIS
    <3>1. CASE PDISInformer
      BY <3>1, SeenAfterDelivery DEF HandType
    <3>2. CASE RBGInformer \/ ProfileInformer \/ DelayExpires \/ Resync
      BY <3>2 DEF RBGInformer, ProfileInformer, DelayExpires, Resync, watchVars, cacheVars,
         SeenPDIS
    <3> QED BY <1>3, <3>1, <3>2 DEF Manager
  <2> QED BY <1>p, <1>k, <2>1, <2>2 DEF GuardStays, OwnerStays
<1>4. CASE Restart
  <2>1. /\ SeenPDIS' = {pdis} /\ UNCHANGED <<pdis, rbg, uidCount>>
        /\ pc' = "idle" /\ wPDIS' = Nil
    BY <1>4, SeenAfterRelist DEF Restart, Relist, Disturb, storeVars
  <2> QED BY <1>p, <2>1 DEF GuardStays, OwnerStays, Kept, GuardedSteps
<1>5. CASE Worker \/ RequestLost \/ ReplyLost
  <2>1. UNCHANGED <<uidCount, cPDIS>> /\ PutPDIS(pdis')
    <3>1. Accepted => UNCHANGED <<pdis, pdisWatch>> \/ \E new : PutPDIS(new)
      BY DEF Accepted, PutFinalizer, PutNoFinalizer, PutNewRBG, PutRBGRoles, PutStatus
    <3>2. UNCHANGED <<pdis, pdisWatch>> \/ (\E new : PutPDIS(new)) => PutPDIS(pdis')
      BY DEF PutPDIS
    <3>3. /\ Accepted \/ UNCHANGED <<pdis, pdisWatch>>
          /\ UNCHANGED <<uidCount, cPDIS>>
      BY <1>5 DEF Worker, Reconcile, ensureFinalizer, handleDeletion, ResolveAndBuild,
         ResolveFails, BuildFails, applyRBG, RBGApplied, syncStatus, StatusSynced,
         setFailedStatus, WriteRejected, RequestLost, ReplyLost, Accepted, WorkerLeavesAlone,
         Disturb, storeVars, watchVars, cacheVars, envVars
    <3> QED BY <3>1, <3>2, <3>3
  <2>2. SeenPDIS' \subseteq SeenPDIS \cup {pdis'}
    BY <2>1, SeenAfterWrite DEF HandType
  <2>3. GuardStays /\ OwnerStays
    <3>1. CASE UNCHANGED <<pdis, rbg>>
      BY <2>1, <3>1 DEF GuardStays, OwnerStays
    <3>2. CASE LeaderStores
      <4>1. pc # "idle" /\ wPDIS \in Held \ {Nil}
        BY <3>2 DEF LeaderStores, Stores, Held, HandType, TypeInv, TypeOK
      <4> QED
        BY <2>1, <3>2, <4>1, StoresGuarded DEF LeaderStores, HandType, TypeInv, CopiesCurrent,
           HandGuard, StepsJustified
    <3> QED BY <1>5, <3>1, <3>2, LeaderWrites
  <2> QED BY <1>p, <1>5, <2>2, <2>3, LeaderJustified DEF HandType
<1> QED BY <1>0, <1>1, <1>2, <1>3, <1>4, <1>5 DEF Faults


\* A takeover, the deposed manager's writes and its end keep them as well.
LEMMA GuardThroughHandover ==
    ASSUME HandType, TypeInv', HandGuard, TakeOver \/ DeposedWorks \/ DeposedExits
    PROVE  HandGuard'
<1> USE DEF HandType
<1>1. CASE TakeOver
  <2>1. /\ SeenPDIS' = {pdis} /\ UNCHANGED <<pdis, rbg, uidCount>>
        /\ pc' = "idle" /\ wPDIS' = Nil /\ oPc' = pc /\ oWPDIS' = wPDIS
    BY <1>1, SeenAfterRelist DEF TakeOver, Relist, storeVars, envVars
  <2>2. HeldStays
    <3>1. Kept(wPDIS') /\ Kept(oWPDIS') BY <2>1 DEF Kept, Held
    <3> QED BY <2>1, <3>1, KeptHeld
  <2>3. StepsJustified'
    BY <2>1 DEF HandGuard, StepsJustified, GuardedSteps
  <2> QED BY <2>1, <2>2, <2>3, PromisesKept DEF HandGuard, GuardStays, OwnerStays
<1>2. CASE DeposedWorks
  <2>1. UNCHANGED <<cPDIS, pc, wPDIS, uidCount>> /\ PutPDIS(pdis')
    BY <1>2, DeposedWrites DEF DeposedWorks, Observes, PutPDIS, cacheVars
  <2>2. HeldStays
    <3>1. SeenPDIS' \subseteq SeenPDIS \cup {pdis'}
      BY <2>1, SeenAfterWrite
    <3>2. Kept(wPDIS')
      BY <2>1 DEF Kept, Held
    <3>3. Kept(oWPDIS')
      BY <1>2, DeposedJustified
    <3> QED BY <3>1, <3>2, <3>3, KeptHeld DEF Held
  <2>3. GuardStays /\ OwnerStays
    <3>1. CASE UNCHANGED <<pdis, rbg>>
      BY <2>1, <3>1 DEF GuardStays, OwnerStays
    <3>2. CASE DeposedStores
      <4>1. oWPDIS \in Held \ {Nil}
        BY <1>2 DEF DeposedWorks, DeposedOK, Held
      <4> QED
        BY <2>1, <3>2, <4>1, StoresGuarded DEF DeposedStores, DeposedOK, HandGuard,
           StepsJustified
    <3> QED BY <1>2, <3>1, <3>2, DeposedWrites
  <2>4. StepsJustified'
    BY <1>2, <2>1, DeposedJustified DEF HandGuard, StepsJustified
  <2> QED BY <2>2, <2>3, <2>4, PromisesKept DEF HandGuard
<1>3. CASE DeposedExits
  <2>1. /\ UNCHANGED <<pdis, rbg, uidCount, SeenPDIS, pc, wPDIS>>
        /\ oPc' = "idle" /\ oWPDIS' = Nil
    BY <1>3 DEF DeposedExits, SeenPDIS, vars, storeVars, watchVars, cacheVars, workerVars, envVars
  <2>2. HeldStays
    <3>1. Kept(wPDIS') /\ Kept(oWPDIS') BY <2>1 DEF Kept, Held
    <3> QED BY <2>1, <3>1, KeptHeld DEF Held
  <2>3. StepsJustified'
    BY <2>1 DEF HandGuard, StepsJustified, GuardedSteps
  <2> QED BY <2>1, <2>2, <2>3, PromisesKept DEF HandGuard, GuardStays, OwnerStays
<1> QED BY <1>1, <1>2, <1>3

\* The promises hold at first, when there are none.
LEMMA HandGuardInit == HandInit => HandGuard
<1> SUFFICES ASSUME HandInit PROVE HandGuard
  OBVIOUS
<1>1. SeenPDIS = {Nil}
  <2>1. Len(pdisWatch) = 0 /\ cPDIS = Nil BY DEF HandInit, Init
  <2> QED BY <2>1 DEF SeenPDIS
<1> QED
  BY <1>1 DEF HandInit, Init, HandGuard, UidsUsed, HeldGuarded, Held, OwnedIsGuarded,
     StepsJustified, GuardedSteps

\* They hold throughout.
LEMMA HandGuarded == HandSpec => []HandGuard
<1>1. HandType /\ HandGuard /\ [HandNext]_handVars => HandGuard'
  <2>1. HandGuard /\ UNCHANGED handVars => HandGuard'
    BY DEF HandGuard, UidsUsed, HeldGuarded, Held, SeenPDIS, OwnedIsGuarded, StepsJustified,
       handVars, deposedVars, vars, storeVars, watchVars, cacheVars, workerVars, envVars
  <2>2. ASSUME HandType, HandGuard, HandNext PROVE HandGuard'
    <3>1. TypeInv' BY <2>2, HandTypeStep DEF HandType
    <3> QED BY <2>2, <3>1, GuardThroughOthers, GuardThroughHandover DEF HandNext
  <2> QED BY <2>1, <2>2
<1> QED BY <1>1, HandTyped, HandGuardInit, PTL DEF HandSpec

\* Even while two managers work on one service, a group that the stored service
\* owns is guarded by its finalizer.
THEOREM HandoverOwnedGuarded == HandSpec => []OwnedIsGuarded
<1>1. HandGuard => OwnedIsGuarded
  BY DEF HandGuard
<1> QED BY <1>1, HandGuarded, PTL

-----------------------------------------------------------------------------
(***************************************************************************)
(* The Ready condition and its lastTransitionTime.                         *)
(***************************************************************************)
\* A status is accepted from a copy that is what may become of the stored one.
LEMMA StoresStamped ==
    ASSUME TypeInv, NEW p, NEW w, NEW current, NEW rbgCurrent, NEW desired,
           Stores(p, w, current, rbgCurrent, desired),
           current => /\ pdis # Nil
                      /\ p \in {"writeStatus", "writeFailed"} =>
                            Written(pdis.status, w.status)
    PROVE  Stamped
<1>1. current => pdis \in PDISObject
  BY DEF TypeInv, TypeOK
<1>2. \/ UNCHANGED pdis
      \/ current /\ (pdis' # Nil => pdis'.status = pdis.status)
      \/ current /\ p \in {"writeStatus", "writeFailed"} /\ pdis'.status = w.status
  BY <1>1 DEF Stores, PDISObject
<1> QED BY <1>2, StaysWritten DEF Stamped

\* The leader's copy while the other manager writes.
LEMMA ObservesStamp ==
    ASSUME StampInv, Observes
    PROVE  StampInv'
BY DEF StampInv, Observes

\* The copy of the deposed manager.
LEMMA DeposedStamps ==
    ASSUME HandType, DeposedStamp, DeposedWorks
    PROVE  DeposedStamp' /\ Stamped
<1>0. /\ oPc # "idle" /\ oWPDIS \in PDISObject
      /\ oWPDIS.status \in PDInferenceServiceStatus
  BY DEF DeposedWorks, HandType, DeposedOK, PDISObject
<1>s. Stamped
  <2>1. CASE UNCHANGED <<pdis, rbg>>
    BY <2>1, StillStamped
  <2>2. CASE DeposedStores
    BY <2>2, StoresStamped DEF DeposedStores, HandType, DeposedOK, DeposedStamp
  <2> QED BY <2>1, <2>2, DeposedWrites
<1>i. CASE DeposedInforms
  BY <1>i, <1>s, DeposedInformed DEF DeposedStamp
<1>1. CASE DeposedLast
  BY <1>1, <1>s, DeposedReturns DEF DeposedReturned, DeposedStamp
<1>2. CASE Deposed!ensureFinalizer
  BY <1>2, <1>s DEF Deposed!ensureFinalizer, Deposed!Goto, DeposedStamp
<1>3. CASE Deposed!ResolveAndBuild \/ Deposed!applyRBG \/ Deposed!RBGApplied
  <2>1. /\ UNCHANGED <<pdis, oWPDIS, oWPDISCurrent>>
        /\ {oPc, oPc'} \cap {"writeStatus", "writeFailed"} = {}
    BY <1>3 DEF Deposed!ResolveAndBuild, Deposed!applyRBG, Deposed!RBGApplied,
       Deposed!PutNewRBG, Deposed!PutRBGRoles, Deposed!Goto, Deposed!storeVars
  <2> QED BY <1>s, <2>1 DEF DeposedStamp
<1>4. CASE Deposed!ResolveFails
  <2>1. /\ oPc = "resolve" /\ oPc' = "writeFailed" /\ UNCHANGED <<pdis, oWPDISCurrent>>
        /\ oWPDIS' = [oWPDIS EXCEPT !.status =
                         FailedStatus(oWPDIS.status, "ProfileResolveFailed")]
    BY <1>4, DeposedReplaces
  <2>2. oWPDIS'.status = FailedStatus(oWPDIS.status, "ProfileResolveFailed")
    BY <1>0, <2>1 DEF PDISObject
  <2>3. oWPDISCurrent' => Written(pdis'.status, oWPDIS'.status)
    BY <1>0, <2>1, <2>2, FailedWrites DEF DeposedStamp
  <2> QED BY <1>s, <2>1, <2>3 DEF DeposedStamp
<1>5. CASE Deposed!syncStatus
  <2> DEFINE st == IF oCRBG = Nil THEN Nil ELSE oCRBG.status
  <2>1. /\ oPc = "syncStatus" /\ oPc' = "writeStatus" /\ UNCHANGED <<pdis, oWPDISCurrent>>
        /\ oWPDIS' = [oWPDIS EXCEPT !.status = DeposedAggregate]
    BY <1>5, DeposedReplaces
  <2>2. st # Nil => st \in RBGStatus
    BY <1>0 DEF HandType, DeposedOK, DeposedCaches, RBGObject
  <2>3. DeposedAggregate = AggregateStatus(oWPDIS.status, st, oWPDIS.deleting,
                                           oWPDIS.uid <= agedUpTo)
    BY DEF DeposedAggregate
  <2> HIDE DEF st
  <2>4. Tracks(oWPDIS.status.ready, DeposedAggregate.ready) /\ ReadyAgrees(DeposedAggregate)
    BY <1>0, <2>2, <2>3, AggregateTracks, AggregateAgrees
  <2>5. oWPDIS'.status = DeposedAggregate
    BY <1>0, <2>1 DEF PDISObject
  <2> QED BY <1>s, <2>1, <2>4, <2>5 DEF DeposedStamp, Written
<1> QED BY <1>i, <1>1, <1>2, <1>3, <1>4, <1>5, DeposedGoesOn

\* Both copies, and the step of the stored condition, through every step.
LEMMA HandStampStep ==
    ASSUME HandType, StampInv, DeposedStamp, HandNext
    PROVE  StampInv' /\ DeposedStamp' /\ Stamped
<1>1. CASE Others
  <2>1. StampInv' /\ Stamped
    BY <1>1, OthersAreSteps, UsersStamp, OthersStamp, WorkerStamps DEF HandType, Faults
  <2>2. DeposedStamp'
    BY <1>1, OthersAreSteps DEF DeposedObserves, DeposedStamp
  <2> QED BY <2>1, <2>2
<1>2. CASE TakeOver
  BY <1>2, StillStamped DEF TakeOver, Relist, storeVars, StampInv, DeposedStamp
<1>3. CASE DeposedWorks
  BY <1>3, DeposedStamps, ObservesStamp DEF DeposedWorks
<1>4. CASE DeposedExits
  BY <1>4, StillStamped DEF DeposedExits, vars, storeVars, workerVars, StampInv, DeposedStamp
<1> QED BY <1>1, <1>2, <1>3, <1>4 DEF HandNext

\* Every step of the stored status, whoever makes it, is such a step.
LEMMA HandStamped == HandSpec => TransitionTimeTracksStatus /\ ReadyTracksPhase
<1>1. HandInit => StampInv /\ DeposedStamp
  BY DEF HandInit, Init, StampInv, DeposedStamp
<1>2. HandType /\ StampInv /\ DeposedStamp /\ [HandNext]_handVars =>
        StampInv' /\ DeposedStamp' /\ (Stamped \/ UNCHANGED vars)
  <2>1. StampInv /\ DeposedStamp /\ UNCHANGED handVars =>
          StampInv' /\ DeposedStamp' /\ UNCHANGED vars
    BY DEF StampInv, DeposedStamp, handVars, deposedVars, vars, storeVars, workerVars
  <2> QED BY <2>1, HandStampStep
<1> QED
  BY <1>1, <1>2, StampedTracks, HandTyped, PTL
     DEF HandSpec, TransitionTimeTracksStatus, ReadyTracksPhase

\* With two managers writing, each from a copy of its own, the stored
\* lastTransitionTime still moves exactly when the stored status does.
THEOREM HandoverTransitionsTracked == HandSpec => TransitionTimeTracksStatus
BY HandStamped, PTL

\* And what either of them stores has the Ready condition of its phase, or is
\* what was stored with the failure of setFailedStatus.
THEOREM HandoverReadyIsTracked == HandSpec => ReadyTracksPhase
BY HandStamped, PTL

-----------------------------------------------------------------------------
(***************************************************************************)
(* What a stored status may say, and how small a role may be.              *)
(***************************************************************************)
\* A worker whose copies are good stores a good service and good roles.
LEMMA StoresGood ==
    ASSUME TypeInv, GoodInv, NEW p, NEW w \in PDISObject, NEW current, NEW rbgCurrent,
           NEW desired, Stores(p, w, current, rbgCurrent, desired),
           current => pdis # Nil, rbgCurrent => rbg # Nil,
           GoodStatus(w.status),
           p \in {"createRBG", "updateRBG"} => GoodRoles(desired)
    PROVE  GoodService(pdis') /\ GroupReplicasPositive'
<1>0. /\ current => pdis \in PDISObject /\ GoodStatus(pdis.status) /\ GoodSpec(pdis.spec)
      /\ rbgCurrent => rbg \in RBGObject
      /\ GoodService(pdis) /\ GroupReplicasPositive
  BY DEF TypeInv, TypeOK, GoodInv, GoodStore, GoodService
<1>1. CASE /\ current /\ UNCHANGED rbg
           /\ \/ pdis' = [pdis EXCEPT !.finalizer = TRUE]
              \/ pdis' = IF pdis.deleting THEN Nil ELSE [pdis EXCEPT !.finalizer = FALSE]
              \/ pdis' = [pdis EXCEPT !.status = w.status]
  <2>1. pdis' # Nil => /\ pdis'.spec = pdis.spec
                       /\ pdis'.status = pdis.status \/ pdis'.status = w.status
    BY <1>0, <1>1 DEF PDISObject
  <2> QED BY <1>0, <1>1, <2>1 DEF GoodService, GroupReplicasPositive
<1>2. CASE /\ UNCHANGED pdis /\ p \in {"createRBG", "updateRBG"}
           /\ \/ rbg' = [owner |-> w.uid, roles |-> desired, status |-> NewRBGStatus]
              \/ rbgCurrent /\ rbg' = [rbg EXCEPT !.roles = desired]
  <2>1. rbg'.roles = desired
    BY <1>0, <1>2 DEF RBGObject
  <2> QED BY <1>0, <1>2, <2>1 DEF GroupReplicasPositive, GoodRoles
<1> QED BY <1>1, <1>2 DEF Stores

\* The copies of the deposed manager stay good through its own steps.
LEMMA DeposedStaysGood ==
    ASSUME HandType, GoodInv, DeposedGood, DeposedWorks
    PROVE  DeposedGood' /\ GoodService(pdis') /\ GroupReplicasPositive'
<1>0. /\ oPc # "idle" /\ oWPDIS \in PDISObject /\ oWPDIS # Nil
      /\ GoodStatus(oWPDIS.status) /\ GoodSpec(oWPDIS.spec)
      /\ oWPDIS.status \in PDInferenceServiceStatus
  BY DEF DeposedWorks, HandType, DeposedOK, DeposedGood, GoodService, PDISObject
<1>s. GoodService(pdis') /\ GroupReplicasPositive'
  <2>1. CASE UNCHANGED <<pdis, rbg>>
    BY <2>1 DEF GoodInv, GoodStore, GroupReplicasPositive
  <2>2. CASE DeposedStores
    BY <1>0, <2>2, StoresGood DEF DeposedStores, HandType, DeposedOK, DeposedGood
  <2> QED BY <2>1, <2>2, DeposedWrites
<1>i. CASE DeposedInforms
  BY <1>i, <1>s, DeposedInformed DEF DeposedGood
<1>1. CASE DeposedLast
  BY <1>1, <1>s, DeposedReturns DEF DeposedReturned, DeposedGood, GoodService
<1>2. CASE Deposed!ensureFinalizer
  BY <1>2, <1>s DEF Deposed!ensureFinalizer, Deposed!Goto, DeposedGood
<1>3. CASE Deposed!ResolveAndBuild
  <2>1. /\ oWDesired' = Build(oWPDIS.spec, Resolve(oWPDIS.spec, oCProfiles))
        /\ UNCHANGED oWPDIS
    BY <1>3, SameResolve, SameBuild DEF Deposed!ResolveAndBuild
  <2>2. GoodRoles(oWDesired')
    BY <1>0, <2>1, BuildGood DEF PDISObject
  <2> QED BY <1>s, <2>1, <2>2 DEF DeposedGood
<1>4. CASE Deposed!ResolveFails \/ Deposed!syncStatus
  <2>1. PICK st : /\ st \in PDInferenceServiceStatus /\ GoodStatus(st)
                  /\ oWPDIS' = [oWPDIS EXCEPT !.status = st]
    <3>1. GoodStatus(FailedStatus(oWPDIS.status, "ProfileResolveFailed"))
      BY <1>0, FailedGood
    <3>2. GoodStatus(DeposedAggregate)
      <4> DEFINE rst == IF oCRBG = Nil THEN Nil ELSE oCRBG.status
      <4>1. rst # Nil => rst \in RBGStatus
        BY <1>0 DEF HandType, DeposedOK, DeposedCaches, RBGObject
      <4>2. DeposedAggregate = AggregateStatus(oWPDIS.status, rst, oWPDIS.deleting,
                                               oWPDIS.uid <= agedUpTo)
        BY DEF DeposedAggregate
      <4> HIDE DEF rst
      <4> QED BY <1>0, <4>1, <4>2, AggregateGood
    <3> QED BY <1>0, <1>4, <3>1, <3>2, DeposedReplaces, DeposedStatusType DEF HandType
  <2>2. oWPDIS'.status = st /\ oWPDIS'.spec = oWPDIS.spec
    BY <1>0, <2>1, StatusReplaced
  <2>3. oPc' \in {"writeFailed", "writeStatus"}
    BY <1>4, DeposedReplaces
  <2> QED BY <1>0, <1>s, <2>1, <2>2, <2>3 DEF DeposedGood, GoodService
<1>5. CASE Deposed!applyRBG
  BY <1>5, <1>s DEF Deposed!applyRBG, Deposed!Goto, DeposedGood
<1>6. CASE Deposed!RBGApplied
  BY <1>6, <1>s DEF Deposed!RBGApplied, Deposed!Goto, DeposedGood
<1> QED BY <1>i, <1>1, <1>2, <1>3, <1>4, <1>5, <1>6, DeposedGoesOn

\* Every copy of either manager stays good.
LEMMA HandGoodStep ==
    ASSUME HandType, TypeInv', GoodInv, DeposedGood, HandNext
    PROVE  GoodInv' /\ DeposedGood'
<1>1. CASE Others
  <2>1. GoodInv'
    BY <1>1, OthersAreSteps, GoodUsers, GoodCluster, GoodManager, GoodSteps
       DEF HandType, Faults
  <2>2. DeposedGood'
    BY <1>1, OthersAreSteps DEF DeposedObserves, DeposedGood
  <2> QED BY <2>1, <2>2
<1>2. CASE TakeOver
  <2>1. /\ SeenPDIS' = {pdis} /\ UNCHANGED <<pdis, rbg>> /\ wPDIS' = Nil /\ wDesired' = Nil
        /\ oPc' = pc /\ oWPDIS' = wPDIS /\ oWDesired' = wDesired
    BY <1>2, SeenAfterRelist DEF TakeOver, Relist, storeVars
  <2>2. GoodInv'
    BY <2>1 DEF GoodInv, GoodStore, GoodWorker, GoodService, GroupReplicasPositive
  <2>3. pc \in {"getRBG", "createRBG", "updateRBG"} => wDesired # Nil
    BY DEF HandType, TypeInv, TypeOK
  <2> QED BY <2>1, <2>2, <2>3 DEF GoodInv, GoodWorker, DeposedGood
<1>3. CASE DeposedWorks
  <2>1. DeposedGood' /\ GoodService(pdis') /\ GroupReplicasPositive'
    BY <1>3, DeposedStaysGood
  <2>2. PutPDIS(pdis') /\ UNCHANGED <<cPDIS, wPDIS, wDesired>>
    BY <1>3 DEF DeposedWorks, Observes, PutPDIS, cacheVars
  <2>3. pdis' \in PDISObject \cup {Nil}
    BY DEF TypeInv, TypeOK
  <2>4. GoodStore'
    BY <2>1, <2>2, <2>3, PutGood DEF HandType, GoodInv
  <2> QED BY <2>1, <2>2, <2>4 DEF GoodInv, GoodWorker
<1>4. CASE DeposedExits
  BY <1>4 DEF DeposedExits, vars, storeVars, watchVars, cacheVars, workerVars, GoodInv,
     GoodStore, GoodWorker, SeenPDIS, GroupReplicasPositive, DeposedGood, GoodService
<1> QED BY <1>1, <1>2, <1>3, <1>4 DEF HandNext

\* They are good throughout.
LEMMA HandGood == HandSpec => []GoodInv
<1>1. HandInit => GoodInv /\ DeposedGood
  BY GoodInit DEF HandInit, DeposedGood, GoodService
<1>2. HandType /\ HandType' /\ GoodInv /\ DeposedGood /\ [HandNext]_handVars =>
        GoodInv' /\ DeposedGood'
  <2>1. GoodInv /\ DeposedGood /\ UNCHANGED handVars => GoodInv' /\ DeposedGood'
    BY DEF GoodInv, GoodStore, GoodWorker, SeenPDIS, GroupReplicasPositive, DeposedGood,
       handVars, deposedVars, vars, storeVars, watchVars, cacheVars, workerVars
  <2> QED BY <2>1, HandGoodStep DEF HandType
<1> QED BY <1>1, <1>2, HandTyped, PTL DEF HandSpec

\* Two managers never make a stored status say Running without roles that are
\* ready, whichever of them aggregated the older group.
THEOREM HandoverRunningIsReady == HandSpec => []RunningMeansReady
<1>1. GoodInv => RunningMeansReady
  BY DEF GoodInv, GoodStore, GoodService, GoodStatus, RunningMeansReady
<1> QED BY <1>1, HandGood, PTL

\* Nor do they scale a role to zero.
THEOREM HandoverReplicasPositive == HandSpec => []GroupReplicasPositive
<1>1. GoodInv => GroupReplicasPositive
  BY DEF GoodInv
<1> QED BY <1>1, HandGood, PTL

-----------------------------------------------------------------------------
(***************************************************************************)
(* No wake-up is lost.  What the deposed manager owes a service, a requeue *)
(* or a retry, dies with its process; what it writes the leader's watch    *)
(* delivers, and the leader has queued the service when it started.        *)
(***************************************************************************)
\* What a manager stores is guarded if it is marked.
LEMMA StoresMarked ==
    ASSUME TypeInv, MarkedGuarded, NEW p, NEW w, NEW current, NEW rbgCurrent, NEW desired,
           Stores(p, w, current, rbgCurrent, desired),
           current => pdis # Nil /\ pdis.deleting = w.deleting,
           p = "removeFinalizer" => w.deleting
    PROVE  pdis' # Nil /\ pdis'.deleting => pdis'.finalizer
<1>0. /\ pdis # Nil => pdis \in PDISObject
      /\ pdis # Nil /\ pdis.deleting => pdis.finalizer
  BY StoredSeen DEF TypeInv, TypeOK, MarkedGuarded
<1>1. CASE current /\ pdis' = [pdis EXCEPT !.finalizer = TRUE]
  <2>1. pdis'.finalizer
    BY <1>0, <1>1 DEF PDISObject
  <2> QED BY <2>1
<1>2. CASE /\ p = "removeFinalizer" /\ current
           /\ pdis' = IF pdis.deleting THEN Nil ELSE [pdis EXCEPT !.finalizer = FALSE]
  BY <1>2
<1>3. CASE UNCHANGED pdis
  BY <1>0, <1>3
<1>4. CASE current /\ pdis' = [pdis EXCEPT !.status = w.status]
  <2>1. pdis'.finalizer = pdis.finalizer /\ pdis'.deleting = pdis.deleting
    BY <1>0, <1>4 DEF PDISObject
  <2> QED BY <1>0, <1>4, <2>1
<1> QED BY <1>1, <1>2, <1>3, <1>4 DEF Stores

\* A write of the deposed manager wakes the leader.
LEMMA DeposedWakes ==
    ASSUME HandType, HandType', HandGuard, WakeInv, DeposedWorks
    PROVE  WakeInv'
<1>1. pdis' # Nil /\ pdis'.deleting => pdis'.finalizer
  <2>1. CASE DeposedStores
    BY <2>1, StoresMarked DEF DeposedStores, HandType, DeposedOK, HandGuard, StepsJustified,
       WakeInv
  <2>2. CASE UNCHANGED pdis
    BY <2>2, StoredSeen DEF HandType, WakeInv, MarkedGuarded
  <2> QED BY <2>1, <2>2, DeposedWrites
<1>2. /\ PutPDIS(pdis') /\ UNCHANGED <<cPDIS, queue, delayed, pc, wPDIS>>
  BY DEF DeposedWorks, Observes, PutPDIS, cacheVars, queueVars
<1>3. pdis' \in PDISObject \cup {Nil}
  BY DEF HandType, TypeInv, TypeOK
<1>4. MarkedGuarded'
  BY <1>1, <1>2, <1>3, PutMarked DEF HandType, WakeInv
<1>5. pdisWatch' # <<>> \/ UNCHANGED <<pdis, pdisWatch>>
  BY <1>2, <1>3, PutWakes DEF HandType
<1>6. NeverForgotten'
  BY <1>2, <1>5 DEF WakeInv, NeverForgotten, GivenUp
<1> QED BY <1>2, <1>4, <1>6 DEF WakeInv, UnmarkedWork, FailsForReason

\* No step of the handover forgets a service.
LEMMA HandWakeStep ==
    ASSUME HandType, HandType', HandGuard, WakeInv, HandNext
    PROVE  WakeInv'
<1>1. CASE Others
  <2>1. RemovesMarked
    BY DEF HandGuard, StepsJustified, RemovesMarked
  <2> QED
    BY <1>1, <2>1, OthersAreSteps, WakeOthers, WakeManager, WakeWorker DEF HandType, Faults
<1>2. CASE TakeOver
  BY <1>2, WakeRelist DEF TakeOver, HandType
<1>3. CASE DeposedWorks
  BY <1>3, DeposedWakes
<1>4. CASE DeposedExits
  BY <1>4, WakeStutter DEF DeposedExits
<1> QED BY <1>1, <1>2, <1>3, <1>4 DEF HandNext

\* A stored service is not forgotten in a handover either: whatever the deposed
\* manager had still to retry or to requeue, the one that leads has the service
\* queued, delayed or in hand, unless it was given up.
THEOREM HandoverNothingForgotten == HandSpec => []NeverForgotten
<1>1. HandInit => WakeInv
  BY WakeInit DEF HandInit
<1>2. HandType /\ HandType' /\ HandGuard /\ WakeInv /\ [HandNext]_handVars => WakeInv'
  BY HandWakeStep, WakeStutter DEF handVars
<1>3. WakeInv => NeverForgotten
  BY DEF WakeInv
<1> QED BY <1>1, <1>2, <1>3, HandTyped, HandGuarded, PTL DEF HandSpec
=============================================================================
