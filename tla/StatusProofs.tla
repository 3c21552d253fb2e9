---------------------------- MODULE StatusProofs ----------------------------
(***************************************************************************)
(* What a stored status may say, and how small a role of a group may be,   *)
(* for every value of the constants.                                       *)
(*                                                                         *)
(* Neither depends on the order of anything: whatever version of a service *)
(* the worker aggregates into, the result is a good one.  What has to be   *)
(* carried through the steps is that every copy is good: the stored one,   *)
(* those of the cache and its watch, and the worker's.                     *)
(***************************************************************************)
EXTENDS ReconcilerProofs

GoodStatus(st) ==
    st.phase = PhaseRunning =>
        /\ st.roleStatuses # {}
        /\ \A rs \in st.roleStatuses : rs.ready >= rs.total

GoodSpec(spec) == \A r \in InferenceRoles : spec.roles[r].replicas >= 1

GoodService(o) == o # Nil => GoodStatus(o.status) /\ GoodSpec(o.spec)

GoodRoles(roles) == \A r \in Roles : roles[r].replicas >= 1

GoodStore == GoodService(pdis) /\ \A v \in SeenPDIS : GoodService(v)

GoodWorker == GoodService(wPDIS) /\ (wDesired # Nil => GoodRoles(wDesired))

GoodInv == GoodStore /\ GoodWorker /\ GroupReplicasPositive

-----------------------------------------------------------------------------
\* The status of a new service is good.
LEMMA NewStatusGood == GoodStatus(NewStatus)
BY DEF GoodStatus, NewStatus, PhaseRunning

\* Whatever syncStatus aggregates into, it gets a good status.
LEMMA AggregateGood ==
    ASSUME NEW status \in PDInferenceServiceStatus, NEW st, st # Nil => st \in RBGStatus,
           NEW deleting, NEW old
    PROVE  GoodStatus(AggregateStatus(status, st, deleting, old))
<1> DEFINE phase == computePhase(st, deleting, old)
           mid   == [status EXCEPT !.phase = phase,
                        !.roleStatuses = IF st = Nil THEN status.roleStatuses
                                         ELSE buildRoleStatuses(st)]
           agg   == setReadyCondition(mid)
<1>1. phase = PhaseRunning => st # Nil /\ allRolesReady(st)
  BY DEF computePhase, PhaseRunning, PhaseTerminating, PhasePending, PhaseFailed,
     PhaseInitializing
<1>2. /\ mid.phase = phase
      /\ st # Nil => mid.roleStatuses = buildRoleStatuses(st)
      /\ DOMAIN mid = {"phase", "ready", "roleStatuses", "lastEvent"}
  BY DEF PDInferenceServiceStatus
<1>3. AggregateStatus(status, st, deleting, old) = agg
  BY DEF AggregateStatus
<1> HIDE DEF phase, mid
<1>4. agg.phase = phase /\ agg.roleStatuses = mid.roleStatuses
  BY <1>2 DEF setReadyCondition
<1>5. CASE phase = PhaseRunning
  <2>1. agg.roleStatuses = buildRoleStatuses(st) /\ allRolesReady(st) /\ st \in RBGStatus
    BY <1>1, <1>2, <1>4, <1>5
  <2> HIDE DEF agg
  <2>2. PICK rs \in st.roleStatuses : TRUE
    BY <2>1 DEF allRolesReady
  <2>3. agg.roleStatuses # {}
    BY <2>1, <2>2 DEF buildRoleStatuses
  <2>4. \A s \in agg.roleStatuses : s.ready >= s.total
    BY <2>1 DEF allRolesReady, buildRoleStatuses, RBGStatus, RBGRoleStatus
  <2> QED BY <1>3, <2>3, <2>4 DEF GoodStatus
<1>6. CASE phase # PhaseRunning
  <2> HIDE DEF agg
  <2> QED BY <1>3, <1>4, <1>6 DEF GoodStatus
<1> QED BY <1>5, <1>6

\* And so does whatever setFailedStatus writes into.
LEMMA FailedGood ==
    ASSUME NEW status \in PDInferenceServiceStatus
    PROVE  GoodStatus(FailedStatus(status, "ProfileResolveFailed"))
BY DEF GoodStatus, FailedStatus, PDInferenceServiceStatus, PhaseFailed, PhaseRunning

\* An admitted spec asks for a prefill and a decode replica, webhooks or not.
LEMMA AdmittedGood ==
    ASSUME NEW spec, SchemaValid(Stored(spec))
    PROVE  GoodSpec(Stored(spec))
BY DEF SchemaValid, GoodSpec, MaxInferenceReplicas, InferenceRoles

\* The builder turns such a spec into roles with a replica each.
LEMMA BuildGood ==
    ASSUME NEW spec \in StoredSpecs, NEW cfg, GoodSpec(spec)
    PROVE  GoodRoles(Build(spec, cfg))
<1>1. spec.roles["router"].replicas \in Int
  BY DEF StoredSpecs, PDInferenceServiceSpec, Roles, RoleSpec
<1>2. Build(spec, cfg)["router"].replicas >= 1
  <2>1. Build(spec, cfg)["router"] = buildRouterRole(spec, cfg)
    BY DEF Build, Roles
  <2>2. buildRouterRole(spec, cfg).replicas
          = IF spec.roles["router"].replicas < 1 THEN 1 ELSE spec.roles["router"].replicas
    BY DEF buildRouterRole
  <2> QED BY <1>1, <2>1, <2>2
<1>3. ASSUME NEW r \in InferenceRoles PROVE Build(spec, cfg)[r].replicas >= 1
  BY <1>3 DEF Build, buildInferenceRole, GoodSpec, Roles, InferenceRoles
<1> QED BY <1>2, <1>3 DEF GoodRoles, Roles, InferenceRoles

-----------------------------------------------------------------------------
\* A good version written by anybody leaves every version good.
LEMMA PutGood ==
    ASSUME TypeInv, GoodStore, NEW new \in PDISObject \cup {Nil}, GoodService(new),
           PutPDIS(new), UNCHANGED cPDIS
    PROVE  GoodStore'
<1>1. SeenPDIS' \subseteq SeenPDIS \cup {new}
  BY SeenAfterPut
<1> QED BY <1>1 DEF GoodStore, PutPDIS

\* What users do keeps every copy good.
LEMMA GoodUsers == TypeInv /\ GoodInv /\ Users => GoodInv'
<1> SUFFICES ASSUME TypeInv, GoodInv, Users PROVE GoodInv'
  OBVIOUS
<1>o. ASSUME NEW new \in PDISObject \cup {Nil}, GoodService(new), OthersPutPDIS(new)
      PROVE  GoodInv'
  <2>1. GoodStore'
    BY <1>o, PutGood DEF OthersPutPDIS, GoodInv, cacheVars
  <2> QED
    BY <1>o, <2>1 DEF OthersPutPDIS, GoodInv, GoodWorker, GroupReplicasPositive
<1>1. ASSUME NEW spec \in ServiceSpecs, CreateService(spec) PROVE GoodInv'
  <2> DEFINE new == [uid |-> uidCount + 1, spec |-> Stored(spec), finalizer |-> FALSE,
                     deleting |-> FALSE, status |-> NewStatus]
  <2>1. OthersPutPDIS(new) /\ GoodSpec(Stored(spec))
    BY <1>1, AdmittedGood DEF CreateService, CreateAdmitted
  <2>2. new.spec = Stored(spec) /\ new.status = NewStatus
    OBVIOUS
  <2>3. TypeInv' BY UsersType
  <2> HIDE DEF new
  <2>4. new \in PDISObject \cup {Nil}
    BY <2>1, <2>3 DEF OthersPutPDIS, PutPDIS, TypeInv, TypeOK
  <2>5. GoodService(new)
    BY <2>1, <2>2, NewStatusGood DEF GoodService
  <2> QED BY <1>o, <2>1, <2>4, <2>5
<1>2. ASSUME NEW spec \in ServiceSpecs, UpdateService(spec) PROVE GoodInv'
  <2> DEFINE new == [pdis EXCEPT !.spec = Stored(spec)]
  <2>1. pdis \in PDISObject /\ pdis # Nil /\ OthersPutPDIS(new) /\ GoodSpec(Stored(spec))
    BY <1>2, AdmittedGood DEF UpdateService, UpdateAdmitted, TypeInv, TypeOK
  <2>2. Stored(spec) \in StoredSpecs
    BY StoredType, SpecsAssumption
  <2>3. new \in PDISObject /\ new.spec = Stored(spec) /\ new.status = pdis.status
    BY <2>1, <2>2 DEF PDISObject
  <2>4. GoodService(new)
    BY <2>1, <2>3 DEF GoodService, GoodInv, GoodStore
  <2> HIDE DEF new
  <2> QED BY <1>o, <2>1, <2>3, <2>4
<1>3. CASE DeleteService
  <2> DEFINE marked == [pdis EXCEPT !.deleting = TRUE]
  <2>1. pdis \in PDISObject /\ pdis # Nil
        /\ OthersPutPDIS(IF pdis.finalizer THEN marked ELSE Nil)
    BY <1>3 DEF DeleteService, TypeInv, TypeOK
  <2>2. marked \in PDISObject /\ marked.spec = pdis.spec /\ marked.status = pdis.status
    BY <2>1 DEF PDISObject
  <2>3. GoodService(marked) /\ GoodService(Nil)
    BY <2>1, <2>2 DEF GoodService, GoodInv, GoodStore
  <2> HIDE DEF marked
  <2> QED BY <1>o, <2>1, <2>2, <2>3
<1>4. ASSUME NEW name, NEW p, SetProfile(name, p) \/ DeleteProfile(name) PROVE GoodInv'
  BY <1>4 DEF SetProfile, DeleteProfile, OthersPutProfiles, workerVars, cacheVars, GoodInv,
     GoodStore, GoodWorker, SeenPDIS, GroupReplicasPositive
<1> QED
  BY <1>1, <1>2, <1>3, <1>4 DEF Users

\* What the rest of the cluster does keeps them good.
LEMMA GoodCluster == TypeInv /\ GoodInv /\ Cluster => GoodInv'
<1> SUFFICES ASSUME TypeInv, GoodInv, Cluster PROVE GoodInv'
  OBVIOUS
<1>o. ASSUME NEW new, OthersPutRBG(new), new # Nil => rbg # Nil /\ new.roles = rbg.roles
      PROVE  GoodInv'
  BY <1>o DEF OthersPutRBG, PutRBG, cacheVars, GoodInv, GoodStore, GoodWorker, SeenPDIS,
     GroupReplicasPositive
<1>1. ASSUME NEW st \in RBGStatuses, RBGReportsStatus(st) PROVE GoodInv'
  <2>1. [rbg EXCEPT !.status = st].roles = rbg.roles
    BY <1>1 DEF RBGReportsStatus, RBGObject, TypeInv, TypeOK
  <2> QED BY <1>1, <1>o, <2>1 DEF RBGReportsStatus
<1>2. CASE DeleteRBG \/ CollectRBG
  BY <1>2, <1>o DEF DeleteRBG, CollectRBG
<1>3. CASE ServiceAges
  BY <1>3 DEF ServiceAges, storeVars, watchVars, cacheVars, workerVars, GoodInv, GoodStore,
     GoodWorker, SeenPDIS, GroupReplicasPositive
<1> QED
  BY <1>1, <1>2, <1>3 DEF Cluster

\* Deliveries, the queue and a restart make no new version.
LEMMA GoodManager == TypeInv /\ GoodInv /\ (Manager \/ Restart) => GoodInv'
<1> SUFFICES ASSUME TypeInv, GoodInv, Manager \/ Restart PROVE GoodInv'
  OBVIOUS
<1> USE DEF storeVars, watchVars, cacheVars, workerVars
<1>1. CASE PDISInformer
  <2>1. SeenPDIS' \subseteq SeenPDIS
    BY <1>1, SeenAfterDelivery
  <2> QED
    BY <1>1, <2>1 DEF PDISInformer, GoodInv, GoodStore, GoodWorker, GroupReplicasPositive
<1>2. CASE RBGInformer \/ ProfileInformer \/ DelayExpires \/ Resync
  BY <1>2 DEF RBGInformer, ProfileInformer, DelayExpires, Resync, GoodInv, GoodStore,
     GoodWorker, SeenPDIS, GroupReplicasPositive
<1>3. CASE Restart
  <2>1. SeenPDIS' = {pdis}
    BY <1>3, SeenAfterRelist DEF Restart
  <2> QED
    BY <1>3, <2>1 DEF Restart, Relist, GoodInv, GoodStore, GoodWorker, GoodService,
       GroupReplicasPositive
<1> QED
  BY <1>1, <1>2, <1>3 DEF Manager

\* An accepted write of the worker stores a good status and good roles.
LEMMA GoodAccepted ==
    ASSUME TypeInv, GoodInv, Accepted, UNCHANGED cPDIS
    PROVE  GoodStore' /\ GroupReplicasPositive'
<1>p. ASSUME NEW new \in PDISObject \cup {Nil}, PutPDIS(new), UNCHANGED rbg,
             new # Nil => new.spec = pdis.spec /\ GoodStatus(new.status), pdis # Nil
      PROVE  GoodStore' /\ GroupReplicasPositive'
  <2>1. GoodService(new)
    BY <1>p DEF GoodService, GoodInv, GoodStore
  <2> QED BY <1>p, <2>1, PutGood DEF GoodInv, GroupReplicasPositive
<1>s. pdis # Nil => GoodStatus(pdis.status)
  BY DEF GoodInv, GoodStore, GoodService
<1>1. CASE PutFinalizer
  <2>1. pdis \in PDISObject /\ pdis # Nil
    BY <1>1 DEF PutFinalizer, TypeInv, TypeOK, CopiesCurrent
  <2>2. /\ [pdis EXCEPT !.finalizer = TRUE] \in PDISObject
        /\ [pdis EXCEPT !.finalizer = TRUE].spec = pdis.spec
        /\ [pdis EXCEPT !.finalizer = TRUE].status = pdis.status
    BY <2>1 DEF PDISObject
  <2> QED BY <1>1, <1>p, <1>s, <2>1, <2>2 DEF PutFinalizer
<1>2. CASE PutNoFinalizer
  <2>1. pdis \in PDISObject /\ pdis # Nil
    BY <1>2 DEF PutNoFinalizer, TypeInv, TypeOK, CopiesCurrent
  <2>2. /\ [pdis EXCEPT !.finalizer = FALSE] \in PDISObject
        /\ [pdis EXCEPT !.finalizer = FALSE].spec = pdis.spec
        /\ [pdis EXCEPT !.finalizer = FALSE].status = pdis.status
    BY <2>1 DEF PDISObject
  <2>3. CASE pdis.deleting
    BY <1>2, <1>p, <2>1, <2>3 DEF PutNoFinalizer
  <2>4. CASE ~pdis.deleting
    BY <1>2, <1>p, <1>s, <2>1, <2>2, <2>4 DEF PutNoFinalizer
  <2> QED BY <2>3, <2>4
<1>3. CASE PutNewRBG \/ PutRBGRoles
  <2>1. UNCHANGED <<pdis, pdisWatch>>
    BY <1>3 DEF PutNewRBG, PutRBGRoles
  <2>2. GoodRoles(wDesired)
    BY <1>3 DEF PutNewRBG, PutRBGRoles, GoodInv, GoodWorker, TypeInv, TypeOK
  <2>3. rbg'.roles = wDesired
    <3>1. CASE PutNewRBG
      BY <3>1 DEF PutNewRBG, PutRBG
    <3>2. CASE PutRBGRoles
      BY <3>2 DEF PutRBGRoles, PutRBG, TypeInv, TypeOK, CopiesCurrent, RBGObject
    <3> QED BY <1>3, <3>1, <3>2
  <2> QED
    BY <2>1, <2>2, <2>3 DEF GoodInv, GoodStore, SeenPDIS, GroupReplicasPositive, GoodRoles
<1>4. CASE PutStatus
  <2>1. pdis \in PDISObject /\ pdis # Nil /\ wPDIS \in PDISObject /\ wPDIS # Nil
    BY <1>4 DEF PutStatus, TypeInv, TypeOK, CopiesCurrent
  <2>2. /\ [pdis EXCEPT !.status = wPDIS.status] \in PDISObject
        /\ [pdis EXCEPT !.status = wPDIS.status].spec = pdis.spec
        /\ [pdis EXCEPT !.status = wPDIS.status].status = wPDIS.status
    BY <2>1 DEF PDISObject
  <2>3. GoodStatus(wPDIS.status)
    BY <2>1 DEF GoodInv, GoodWorker, GoodService
  <2> QED BY <1>4, <1>p, <2>1, <2>2, <2>3 DEF PutStatus
<1> QED
  BY <1>1, <1>2, <1>3, <1>4 DEF Accepted

\* The end of Reconcile drops the worker's copies.
LEMMA GoodIdle == ASSUME NEW requeue, Return(requeue) PROVE GoodWorker'
BY DEF Return, GoodWorker, GoodService

\* Every step of Reconcile keeps every copy good.
LEMMA GoodSteps ==
    TypeInv /\ GoodInv /\ (Worker \/ RequestLost \/ ReplyLost) => GoodInv'
<1> SUFFICES ASSUME TypeInv, GoodInv, Worker \/ RequestLost \/ ReplyLost PROVE GoodInv'
  OBVIOUS
<1> USE DEF cacheVars
<1>u. ASSUME UNCHANGED <<pdis, rbg, pdisWatch, cPDIS>>
      PROVE  GoodStore' /\ GroupReplicasPositive'
  BY <1>u DEF GoodInv, GoodStore, SeenPDIS, GroupReplicasPositive
<1>s. ASSUME NEW st, GoodStatus(st), wPDIS \in PDISObject, wPDIS # Nil,
             wPDIS' = [wPDIS EXCEPT !.status = st], UNCHANGED wDesired
      PROVE  GoodWorker'
  <2>1. wPDIS'.status = st /\ wPDIS'.spec = wPDIS.spec
    BY <1>s DEF PDISObject
  <2> QED BY <1>s, <2>1 DEF GoodInv, GoodWorker, GoodService
<1>1. CASE Reconcile
  <2>1. cPDIS \in SeenPDIS BY DEF SeenPDIS
  <2>2. GoodWorker'
    BY <1>1, <2>1 DEF Reconcile, workerVars, GoodInv, GoodStore, GoodWorker
  <2> QED
    BY <1>1, <1>u, <2>2 DEF Reconcile, storeVars, watchVars, GoodInv
<1>2. CASE ensureFinalizer
  <2>1. GoodStore' /\ GroupReplicasPositive'
    BY <1>2, GoodAccepted DEF ensureFinalizer, Accepted, WorkerLeavesAlone
  <2> QED
    BY <1>2, <2>1 DEF ensureFinalizer, GoodInv, GoodStore, GoodWorker
<1>3. CASE handleDeletion
  BY <1>3, GoodAccepted, GoodIdle DEF handleDeletion, Accepted, WorkerLeavesAlone, GoodInv
<1>4. CASE ResolveAndBuild
  <2>1. wPDIS.spec \in StoredSpecs /\ GoodSpec(wPDIS.spec)
    BY <1>4 DEF ResolveAndBuild, TypeInv, TypeOK, PDISObject, GoodInv, GoodWorker, GoodService
  <2>2. GoodRoles(wDesired')
    BY <1>4, <2>1, BuildGood DEF ResolveAndBuild
  <2> QED
    BY <1>4, <1>u, <2>2 DEF ResolveAndBuild, WorkerLeavesAlone, storeVars, watchVars,
       GoodInv, GoodWorker
<1>5. CASE ResolveFails
  <2>1. wPDIS \in PDISObject /\ wPDIS # Nil
    BY <1>5 DEF ResolveFails, TypeInv, TypeOK
  <2>2. GoodStatus(FailedStatus(wPDIS.status, "ProfileResolveFailed"))
    BY <2>1, FailedGood DEF PDISObject
  <2>3. GoodWorker'
    BY <1>5, <1>s, <2>1, <2>2 DEF ResolveFails
  <2> QED
    BY <1>5, <1>u, <2>3 DEF ResolveFails, WorkerLeavesAlone, storeVars, watchVars, GoodInv
<1>6. CASE BuildFails
  BY <1>6, <1>u, GoodIdle DEF BuildFails, ReturnError, WorkerLeavesAlone, storeVars,
     watchVars, GoodInv
<1>7. CASE applyRBG
  BY <1>7, <1>u DEF applyRBG, WorkerLeavesAlone, storeVars, watchVars, GoodInv, GoodWorker
<1>8. CASE RBGApplied
  BY <1>8, GoodAccepted DEF RBGApplied, Accepted, WorkerLeavesAlone, GoodInv, GoodWorker
<1>9. CASE syncStatus
  <2>1. wPDIS \in PDISObject /\ wPDIS # Nil /\ wPDIS.status \in PDInferenceServiceStatus
    BY <1>9 DEF syncStatus, TypeInv, TypeOK, PDISObject
  <2> DEFINE st  == IF cRBG = Nil THEN Nil ELSE cRBG.status
             agg == AggregateStatus(wPDIS.status, st, wPDIS.deleting, wPDIS.uid <= agedUpTo)
  <2>2. st # Nil => st \in RBGStatus
    BY DEF TypeInv, TypeOK, RBGObject
  <2>3. wPDIS' = [wPDIS EXCEPT !.status = agg] /\ UNCHANGED wDesired
    BY <1>9 DEF syncStatus
  <2> HIDE DEF st
  <2>4. GoodStatus(agg)
    BY <2>1, <2>2, AggregateGood
  <2> HIDE DEF agg
  <2>5. GoodWorker'
    BY <1>s, <2>1, <2>3, <2>4
  <2> QED
    BY <1>9, <1>u, <2>5 DEF syncStatus, WorkerLeavesAlone, storeVars, watchVars, GoodInv
<1>10. CASE StatusSynced \/ setFailedStatus
  BY <1>10, GoodAccepted, GoodIdle DEF StatusSynced, setFailedStatus, Accepted,
     WorkerLeavesAlone, GoodInv
<1>11. CASE WriteRejected
  BY <1>11, <1>u, GoodIdle DEF WriteRejected, ReturnError, WorkerLeavesAlone, storeVars,
     watchVars, GoodInv
<1>12. CASE RequestLost
  BY <1>12, <1>u, GoodIdle DEF RequestLost, ReturnError, storeVars, watchVars, GoodInv
<1>13. CASE ReplyLost
  BY <1>13, GoodAccepted, GoodIdle DEF ReplyLost, ReturnError, GoodInv
<1> QED
  BY <1>1, <1>2, <1>3, <1>4, <1>5, <1>6, <1>7, <1>8, <1>9, <1>10, <1>11, <1>12, <1>13
     DEF Worker

-----------------------------------------------------------------------------
\* There is nothing to be good or bad at first.
LEMMA GoodInit == Init => GoodInv
<1> SUFFICES ASSUME Init PROVE GoodInv
  OBVIOUS
<1>1. SeenPDIS = {Nil}
  <2>1. Len(pdisWatch) = 0 /\ cPDIS = Nil BY DEF Init
  <2> QED BY <2>1 DEF SeenPDIS
<1> QED
  BY <1>1 DEF Init, GoodInv, GoodStore, GoodWorker, GoodService, GroupReplicasPositive

\* Every copy is good in every reachable state.
LEMMA GoodHolds == Spec => []GoodInv
<1>1. TypeInv /\ GoodInv /\ UNCHANGED vars => GoodInv'
  BY DEF GoodInv, GoodStore, GoodWorker, SeenPDIS, GroupReplicasPositive, vars, storeVars,
     watchVars, cacheVars, workerVars
<1>2. TypeInv /\ GoodInv /\ [Next]_vars => GoodInv'
  BY <1>1, GoodUsers, GoodCluster, GoodManager, GoodSteps DEF Next, Faults
<1> QED
  BY <1>2, TypeInit, TypeStep, GoodInit, PTL DEF Spec

\* A stored status that says Running reports roles and none of them short of
\* replicas, whatever stale group or copy syncStatus read.
THEOREM RunningIsReady == Spec => []RunningMeansReady
<1>1. GoodInv => RunningMeansReady
  BY DEF GoodInv, GoodStore, GoodService, GoodStatus, RunningMeansReady
<1> QED BY <1>1, GoodHolds, PTL

\* No stored group has a role without replicas, with webhooks or without.
THEOREM ReplicasArePositive == Spec => []GroupReplicasPositive
<1>1. GoodInv => GroupReplicasPositive
  BY DEF GoodInv
<1> QED BY <1>1, GoodHolds, PTL
=============================================================================
