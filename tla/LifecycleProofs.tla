--------------------------- MODULE LifecycleProofs ---------------------------
(***************************************************************************)
(* Reconciler implements the safety part of Lifecycle, for every value of  *)
(* the constants: a step simulation under the mapping of                   *)
(* ReconcilerLifecycle, from the invariants of ReconcilerProofs.           *)
(***************************************************************************)
EXTENDS ReconcilerProofs, ReconcilerLifecycle

\* What the mapping needs beyond GuardInv: the stored service is the newest
\* incarnation, only a guarded service is marked, and a group has an owner.
LifeInv ==
    /\ pdis # Nil => /\ pdis.uid = uidCount /\ uidCount # 0
                     /\ pdis.deleting => pdis.finalizer
    /\ rbg # Nil => rbg.owner # 0

\* The service and the group are as before, in all that Lifecycle sees.
SameService ==
    /\ UNCHANGED uidCount
    /\ pdis' = Nil <=> pdis = Nil
    /\ pdis # Nil => /\ pdis'.uid = pdis.uid
                     /\ pdis'.finalizer = pdis.finalizer
                     /\ pdis'.deleting = pdis.deleting

SameGroup ==
    /\ rbg' = Nil <=> rbg = Nil
    /\ rbg # Nil => rbg'.owner = rbg.owner

Simulates == LifeInv' /\ [Life!LifeNext]_(Life!lifeVars)

\* Such a step is no step of Lifecycle.
LEMMA SameStutters ==
    ASSUME LifeInv, SameService, SameGroup
    PROVE  Simulates
<1>1. StageOf(pdis)' = StageOf(pdis)
  BY DEF SameService, StageOf
<1>2. OwnerOf(rbg)' = OwnerOf(rbg)
  BY DEF SameGroup, OwnerOf
<1>3. LifeInv'
  BY DEF LifeInv, SameService, SameGroup
<1> QED
  BY <1>1, <1>2, <1>3 DEF Simulates, SameService, Life!lifeVars

\* Requests of users are Appear, Vanish, Mark or, for an update, nothing.
LEMMA UsersLive ==
    ASSUME TypeInv, LifeInv, Users
    PROVE  Simulates
<1>1. ASSUME NEW spec \in ServiceSpecs, CreateService(spec) PROVE Simulates
  <2> DEFINE new == [uid |-> uidCount + 1, spec |-> Stored(spec), finalizer |-> FALSE,
                     deleting |-> FALSE, status |-> NewStatus]
  <2>1. /\ pdis = Nil /\ pdis' = new /\ uidCount' = uidCount + 1 /\ UNCHANGED rbg
    BY <1>1 DEF CreateService, OthersPutPDIS, PutPDIS
  <2>2. new \in PDISObject
    <3>1. Stored(spec) \in StoredSpecs BY StoredType, SpecsAssumption
    <3>2. NewStatus \in PDInferenceServiceStatus
      BY DEF NewStatus, PDInferenceServiceStatus, Phases
    <3>3. uidCount + 1 \in Nat BY DEF TypeInv, TypeOK
    <3> QED BY <3>1, <3>2, <3>3 DEF PDISObject
  <2>3. /\ new # Nil /\ new.uid = uidCount + 1 /\ new.finalizer = FALSE
        /\ new.deleting = FALSE /\ uidCount + 1 # 0
    <3>1. new # Nil BY <2>2, NilAssumption
    <3>2. uidCount + 1 # 0 BY DEF TypeInv, TypeOK
    <3> QED BY <3>1, <3>2
  <2> HIDE DEF new
  <2>4. LifeInv'
    BY <2>1, <2>3 DEF LifeInv
  <2>5. StageOf(pdis) = "absent" /\ StageOf(pdis)' = "bare" /\ OwnerOf(rbg)' = OwnerOf(rbg)
    BY <2>1, <2>3 DEF StageOf, OwnerOf
  <2> QED
    BY <2>1, <2>4, <2>5 DEF Simulates, Life!LifeNext, Life!Appear, Life!StageGoes
<1>2. ASSUME NEW spec \in ServiceSpecs, UpdateService(spec) PROVE Simulates
  <2>1. /\ pdis \in PDISObject /\ pdis # Nil /\ pdis' = [pdis EXCEPT !.spec = Stored(spec)]
        /\ UNCHANGED <<rbg, uidCount>>
    BY <1>2 DEF UpdateService, OthersPutPDIS, PutPDIS, Disturb, TypeInv, TypeOK
  <2>2. Stored(spec) \in StoredSpecs BY StoredType, SpecsAssumption
  <2>3. /\ pdis' \in PDISObject /\ pdis'.uid = pdis.uid
        /\ pdis'.finalizer = pdis.finalizer /\ pdis'.deleting = pdis.deleting
    BY <2>1, <2>2 DEF PDISObject
  <2> QED
    BY <2>1, <2>3, NilAssumption, SameStutters DEF SameService, SameGroup
<1>3. CASE DeleteService
  <2>1. /\ pdis \in PDISObject /\ pdis # Nil /\ ~pdis.deleting /\ UNCHANGED <<rbg, uidCount>>
        /\ pdis' = IF pdis.finalizer THEN [pdis EXCEPT !.deleting = TRUE] ELSE Nil
    BY <1>3 DEF DeleteService, OthersPutPDIS, PutPDIS, envVars, TypeInv, TypeOK
  <2>2. CASE pdis.finalizer
    <3>1. /\ pdis' \in PDISObject /\ pdis'.uid = pdis.uid
          /\ pdis'.finalizer = pdis.finalizer /\ pdis'.deleting = TRUE
      BY <2>1, <2>2 DEF PDISObject
    <3>2. pdis' # Nil BY <3>1, NilAssumption
    <3>3. LifeInv'
      BY <2>1, <2>2, <3>1, <3>2 DEF LifeInv
    <3>4. StageOf(pdis) = "guarded" /\ StageOf(pdis)' = "ending" /\ OwnerOf(rbg)' = OwnerOf(rbg)
      BY <2>1, <2>2, <3>1, <3>2 DEF StageOf, OwnerOf
    <3> QED
      BY <2>1, <3>3, <3>4 DEF Simulates, Life!LifeNext, Life!Mark, Life!StageGoes
  <2>3. CASE ~pdis.finalizer
    <3>1. pdis' = Nil BY <2>1, <2>3
    <3>2. LifeInv'
      BY <2>1, <3>1 DEF LifeInv
    <3>3. StageOf(pdis) = "bare" /\ StageOf(pdis)' = "absent" /\ OwnerOf(rbg)' = OwnerOf(rbg)
      BY <2>1, <2>3, <3>1 DEF StageOf, OwnerOf
    <3> QED
      BY <2>1, <3>2, <3>3 DEF Simulates, Life!LifeNext, Life!Vanish, Life!StageGoes
  <2> QED BY <2>2, <2>3
<1>4. ASSUME NEW name, NEW p, SetProfile(name, p) \/ DeleteProfile(name) PROVE Simulates
  <2>1. UNCHANGED <<pdis, rbg, uidCount>>
    BY <1>4 DEF SetProfile, DeleteProfile, OthersPutProfiles, Disturb
  <2> QED BY <2>1, SameStutters DEF SameService, SameGroup
<1> QED
  BY <1>1, <1>2, <1>3, <1>4 DEF Users

\* The cluster reports, which is nothing, or takes the group away.
LEMMA ClusterLives ==
    ASSUME TypeInv, LifeInv, Cluster
    PROVE  Simulates
<1>1. ASSUME NEW st \in RBGStatuses, RBGReportsStatus(st) PROVE Simulates
  <2>1. /\ rbg \in RBGObject /\ rbg # Nil /\ rbg' = [rbg EXCEPT !.status = st]
        /\ UNCHANGED <<pdis, uidCount>>
    BY <1>1 DEF RBGReportsStatus, OthersPutRBG, PutRBG, Disturb, TypeInv, TypeOK
  <2>2. rbg' \in RBGObject /\ rbg'.owner = rbg.owner
    BY <2>1, SpecsAssumption DEF RBGObject
  <2> QED BY <2>1, <2>2, NilAssumption, SameStutters DEF SameService, SameGroup
<1>2. CASE DeleteRBG \/ CollectRBG
  <2>1. rbg # Nil /\ rbg' = Nil /\ UNCHANGED <<pdis, uidCount>>
    BY <1>2 DEF DeleteRBG, CollectRBG, OthersPutRBG, PutRBG, Disturb, envVars
  <2>2. LifeInv'
    BY <2>1 DEF LifeInv
  <2>3. OwnerOf(rbg) # 0 /\ OwnerOf(rbg)' = 0 /\ StageOf(pdis)' = StageOf(pdis)
    BY <2>1 DEF OwnerOf, StageOf, LifeInv
  <2> QED
    BY <2>1, <2>2, <2>3 DEF Simulates, Life!LifeNext, Life!LoseGroup
<1>3. CASE ServiceAges
  BY <1>3, SameStutters DEF ServiceAges, storeVars, SameService, SameGroup
<1> QED
  BY <1>1, <1>2, <1>3 DEF Cluster

\* An accepted write of Reconcile is Guard, Release, Provision or nothing.
LEMMA AcceptedLives ==
    ASSUME TypeInv, GuardInv, LifeInv, Accepted, UNCHANGED uidCount
    PROVE  Simulates
<1>1. CASE PutFinalizer
  <2>1. /\ pdis \in PDISObject /\ pdis # Nil /\ pdis' = [pdis EXCEPT !.finalizer = TRUE]
        /\ UNCHANGED rbg
    BY <1>1 DEF PutFinalizer, PutPDIS, TypeInv, TypeOK, CopiesCurrent
  <2>2. /\ pdis' \in PDISObject /\ pdis'.uid = pdis.uid
        /\ pdis'.finalizer = TRUE /\ pdis'.deleting = pdis.deleting
    BY <2>1 DEF PDISObject
  <2>3. pdis' # Nil BY <2>2, NilAssumption
  <2>4. CASE pdis.finalizer
    <3>1. pdis.finalizer = TRUE BY <2>1, <2>4 DEF PDISObject
    <3> QED BY <2>1, <2>2, <2>3, <3>1, SameStutters DEF SameService, SameGroup
  <2>5. CASE ~pdis.finalizer
    <3>1. ~pdis.deleting
      BY <2>1, <2>5 DEF LifeInv
    <3>2. LifeInv'
      BY <2>1, <2>2, <2>3 DEF LifeInv
    <3>3. StageOf(pdis) = "bare" /\ StageOf(pdis)' = "guarded" /\ OwnerOf(rbg)' = OwnerOf(rbg)
      BY <2>1, <2>2, <2>3, <2>5, <3>1 DEF StageOf, OwnerOf
    <3> QED
      BY <3>2, <3>3 DEF Simulates, Life!LifeNext, Life!Guard, Life!StageGoes
  <2> QED BY <2>4, <2>5
<1>2. CASE PutNoFinalizer
  <2>1. pdis # Nil /\ pdis.deleting
    BY <1>2 DEF PutNoFinalizer, GuardInv, RemovesFromDeleted, TypeInv, CopiesCurrent
  <2>2. pdis' = Nil /\ UNCHANGED rbg
    BY <1>2, <2>1 DEF PutNoFinalizer, PutPDIS
  <2>3. LifeInv'
    BY <2>2 DEF LifeInv
  <2>4. StageOf(pdis) = "ending" /\ StageOf(pdis)' = "absent" /\ OwnerOf(rbg)' = OwnerOf(rbg)
    BY <2>1, <2>2 DEF StageOf, OwnerOf, LifeInv
  <2> QED
    BY <2>3, <2>4 DEF Simulates, Life!LifeNext, Life!Release, Life!StageGoes
<1>3. CASE PutNewRBG
  <2>1. pdis # Nil /\ pdis.uid = wPDIS.uid /\ pdis.finalizer
    BY <1>3 DEF PutNewRBG, GuardInv, WorkerServesStored
  <2>2. /\ rbg = Nil /\ UNCHANGED pdis
        /\ rbg' = [owner |-> wPDIS.uid, roles |-> wDesired, status |-> NewRBGStatus]
    BY <1>3 DEF PutNewRBG, PutRBG
  <2>3. rbg'.owner = uidCount /\ uidCount # 0
    BY <2>1, <2>2 DEF LifeInv
  <2>4. rbg' # Nil
    <3>1. /\ wPDIS.uid \in Nat /\ wDesired \in [Roles -> RBGRole]
      BY <1>3 DEF PutNewRBG, TypeInv, TypeOK, PDISObject
    <3>2. NewRBGStatus \in RBGStatus BY DEF NewRBGStatus, RBGStatus
    <3>3. rbg' \in RBGObject BY <2>2, <3>1, <3>2 DEF RBGObject
    <3> QED BY <3>3, NilAssumption
  <2>5. LifeInv'
    BY <2>2, <2>3 DEF LifeInv
  <2>6. /\ OwnerOf(rbg) = 0 /\ OwnerOf(rbg)' = uidCount /\ StageOf(pdis)' = StageOf(pdis)
        /\ StageOf(pdis) \in {"guarded", "ending"}
    BY <2>1, <2>2, <2>3, <2>4 DEF OwnerOf, StageOf
  <2> QED
    BY <2>5, <2>6 DEF Simulates, Life!LifeNext, Life!Provision
<1>4. CASE PutRBGRoles
  <2>1. /\ rbg \in RBGObject /\ rbg # Nil /\ wDesired \in [Roles -> RBGRole]
        /\ rbg' = [rbg EXCEPT !.roles = wDesired] /\ UNCHANGED pdis
    BY <1>4 DEF PutRBGRoles, PutRBG, TypeInv, TypeOK, CopiesCurrent
  <2>2. rbg' \in RBGObject /\ rbg'.owner = rbg.owner
    BY <2>1 DEF RBGObject
  <2> QED BY <2>1, <2>2, NilAssumption, SameStutters DEF SameService, SameGroup
<1>5. CASE PutStatus
  <2>1. /\ pdis \in PDISObject /\ pdis # Nil /\ wPDIS \in PDISObject
        /\ pdis' = [pdis EXCEPT !.status = wPDIS.status] /\ UNCHANGED rbg
    BY <1>5 DEF PutStatus, PutPDIS, TypeInv, TypeOK, CopiesCurrent
  <2>2. /\ pdis' \in PDISObject /\ pdis'.uid = pdis.uid
        /\ pdis'.finalizer = pdis.finalizer /\ pdis'.deleting = pdis.deleting
    BY <2>1 DEF PDISObject
  <2> QED BY <2>1, <2>2, NilAssumption, SameStutters DEF SameService, SameGroup
<1> QED
  BY <1>1, <1>2, <1>3, <1>4, <1>5 DEF Accepted

\* Every step of the detailed system is a step of Lifecycle or none.
LEMMA LifeStep ==
    ASSUME TypeInv, GuardInv, LifeInv, [Next]_vars
    PROVE  Simulates
<1>s. ASSUME UNCHANGED <<pdis, rbg, uidCount>> PROVE Simulates
  BY <1>s, SameStutters DEF SameService, SameGroup
<1>1. CASE Worker \/ RequestLost \/ ReplyLost
  <2>1. UNCHANGED uidCount
    BY <1>1 DEF Worker, Reconcile, ensureFinalizer, handleDeletion, ResolveAndBuild,
       ResolveFails, BuildFails, applyRBG, RBGApplied, syncStatus, StatusSynced,
       setFailedStatus, WriteRejected, RequestLost, ReplyLost, WorkerLeavesAlone, Disturb,
       envVars
  <2>2. Accepted \/ UNCHANGED <<pdis, rbg>>
    BY <1>1 DEF Worker, Reconcile, ensureFinalizer, handleDeletion, ResolveAndBuild,
       ResolveFails, BuildFails, applyRBG, RBGApplied, syncStatus, StatusSynced,
       setFailedStatus, WriteRejected, RequestLost, ReplyLost, Accepted, storeVars
  <2> QED BY <1>s, <2>1, <2>2, AcceptedLives
<1>2. CASE Manager \/ Restart \/ UNCHANGED vars
  BY <1>2, <1>s DEF Manager, PDISInformer, RBGInformer, ProfileInformer, DelayExpires,
     Resync, Restart, Relist, Disturb, vars, storeVars, envVars
<1> QED
  BY <1>1, <1>2, UsersLive, ClusterLives DEF Next, Faults

\* Before anything is stored nothing has lived.
LEMMA LifeInitially == Init => LifeInv /\ Life!LifeInit
BY DEF Init, LifeInv, StageOf, OwnerOf, Life!LifeInit

\* Reconciler implements Lifecycle: however far the caches lag behind, whatever
\* is lost and whenever the manager dies, a service passes through its stages in
\* order and a group is made only for the stored, guarded service.
THEOREM ImplementsLifecycle == Spec => FollowsLifecycle
<1>1. TypeInv /\ GuardInv /\ LifeInv /\ [Next]_vars => LifeInv' /\ [Life!LifeNext]_(Life!lifeVars)
  BY LifeStep DEF Simulates
<1> QED
  BY <1>1, LifeInitially, GuardHolds, PTL DEF Spec, FollowsLifecycle, Life!LifeSpec
=============================================================================
