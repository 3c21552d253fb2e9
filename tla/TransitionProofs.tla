-------------------------- MODULE TransitionProofs --------------------------
(***************************************************************************)
(* The stored Ready condition moves with the phase, and its                *)
(* lastTransitionTime with its status.  syncStatus and setFailedStatus     *)
(* start from the copy the worker holds, not from what is stored; the      *)
(* proof is about why that is the same whenever it is written.             *)
(***************************************************************************)
EXTENDS ReconcilerProofs

Tracks(old, new) ==
    old # Nil =>
        /\ new # Nil
        /\ new.lastTransitionTime # old.lastTransitionTime <=> new.status # old.status

\* What may become of a stored status.
Written(old, new) ==
    /\ Tracks(old.ready, new.ready)
    /\ new = old \/ ReadyAgrees(new) \/ new = FailedStatus(old, "ProfileResolveFailed")

\* A copy that would be accepted differs from the stored status only by what
\* syncStatus or setFailedStatus has done to it, in the one step before the write.
StampInv ==
    wPDISCurrent =>
        IF pc \in {"writeStatus", "writeFailed"} THEN Written(pdis.status, wPDIS.status)
        ELSE wPDIS.status = pdis.status

\* The step of the stored service that the properties are about.
Stamped ==
    pdis' # Nil => IF pdis = Nil THEN ReadyAgrees(pdis'.status)
                   ELSE Written(pdis.status, pdis'.status)

\* An aggregation stamps the condition exactly when it changes its status.
LEMMA AggregateTracks ==
    ASSUME NEW status \in PDInferenceServiceStatus, NEW st,
           st # Nil => st \in RBGStatus, NEW deleting, NEW old
    PROVE  Tracks(status.ready, AggregateStatus(status, st, deleting, old).ready)
<1> DEFINE s == [status EXCEPT !.phase = computePhase(st, deleting, old),
                               !.roleStatuses = IF st = Nil THEN status.roleStatuses
                                                ELSE buildRoleStatuses(st)]
           n == [status |-> ReadyStatusOf(s.phase),
                 reason |-> ReadyReasonOf(s.phase, s.lastEvent),
                 lastTransitionTime |-> IF s.ready = Nil THEN 0
                                        ELSE IF s.ready.status # ReadyStatusOf(s.phase)
                                        THEN 1 - s.ready.lastTransitionTime
                                        ELSE s.ready.lastTransitionTime]
<1>1. AggregateStatus(status, st, deleting, old) = [s EXCEPT !.ready = n]
  BY DEF AggregateStatus, setReadyCondition
<1>2. s.ready = status.ready /\ [s EXCEPT !.ready = n].ready = n
  BY DEF PDInferenceServiceStatus
<1>3. ASSUME status.ready # Nil PROVE status.ready.lastTransitionTime \in {0, 1}
  BY <1>3 DEF PDInferenceServiceStatus, Condition
<1>4. ASSUME status.ready # Nil
      PROVE  /\ n # Nil
             /\ n.lastTransitionTime # status.ready.lastTransitionTime
                  <=> n.status # status.ready.status
  <2>1. n # Nil
    <3>1. AggregateStatus(status, st, deleting, old).ready \in Condition
      BY AggregateType
    <3> HIDE DEF n, s
    <3> QED BY <1>1, <1>2, <3>1, NilValueAssumption
  <2>2. /\ n.status = ReadyStatusOf(s.phase)
        /\ n.lastTransitionTime =
             IF status.ready.status # ReadyStatusOf(s.phase)
             THEN 1 - status.ready.lastTransitionTime
             ELSE status.ready.lastTransitionTime
    BY <1>2, <1>4
  <2> HIDE DEF n, s
  <2> QED BY <1>3, <1>4, <2>1, <2>2
<1> HIDE DEF n, s
<1> QED
  BY <1>1, <1>2, <1>4 DEF Tracks

\* It leaves a condition that agrees with the phase.
LEMMA AggregateAgrees ==
    ASSUME NEW status \in PDInferenceServiceStatus, NEW st,
           st # Nil => st \in RBGStatus, NEW deleting, NEW old
    PROVE  ReadyAgrees(AggregateStatus(status, st, deleting, old))
<1> DEFINE phase == computePhase(st, deleting, old)
           mid   == [status EXCEPT !.phase = phase,
                        !.roleStatuses = IF st = Nil THEN status.roleStatuses
                                         ELSE buildRoleStatuses(st)]
           agg   == setReadyCondition(mid)
<1>1. mid.phase = phase /\ DOMAIN mid = {"phase", "ready", "roleStatuses", "lastEvent"}
  BY DEF PDInferenceServiceStatus
<1>2. AggregateStatus(status, st, deleting, old) = agg
  BY DEF AggregateStatus
<1> HIDE DEF phase, mid
<1>3. agg.phase = phase /\ agg.ready.status = ReadyStatusOf(phase)
  BY <1>1 DEF setReadyCondition
<1>4. agg.ready # Nil
  BY <1>2, AggregateType, NilValueAssumption
<1>5. ReadyStatusOf(phase) = "True" <=> phase = PhaseRunning
  BY DEF ReadyStatusOf, PhaseRunning, PhaseTerminating, PhasePending, PhaseFailed,
     PhaseInitializing
<1> HIDE DEF agg
<1> QED BY <1>2, <1>3, <1>4, <1>5 DEF ReadyAgrees

\* A failure keeps the condition.
LEMMA FailedWrites ==
    ASSUME NEW status \in PDInferenceServiceStatus
    PROVE  Written(status, FailedStatus(status, "ProfileResolveFailed"))
<1>1. FailedStatus(status, "ProfileResolveFailed").ready = status.ready
  BY DEF FailedStatus, PDInferenceServiceStatus
<1> QED BY <1>1 DEF Written, Tracks

\* A status that stays is as it may be.
LEMMA StaysWritten == ASSUME NEW status PROVE Written(status, status)
BY DEF Written, Tracks

LEMMA StillStamped == UNCHANGED pdis => Stamped
BY StaysWritten DEF Stamped

LEMMA UnchangedStamps ==
    StampInv /\ UNCHANGED <<pdis, pc, wPDIS, wPDISCurrent>> => StampInv' /\ Stamped
BY StillStamped DEF StampInv

\* Such a step is what the properties ask for.
LEMMA StampedTracks ==
    Stamped \/ UNCHANGED vars =>
        /\ [pdis # Nil /\ pdis' # Nil /\ pdis'.uid = pdis.uid /\ pdis.status.ready # Nil =>
              /\ pdis'.status.ready # Nil
              /\ pdis'.status.ready.lastTransitionTime # pdis.status.ready.lastTransitionTime
                   <=> pdis'.status.ready.status # pdis.status.ready.status]_vars
        /\ [pdis' # Nil /\ (pdis = Nil \/ pdis'.status # pdis.status) =>
              \/ ReadyAgrees(pdis'.status)
              \/ /\ pdis # Nil
                 /\ pdis'.status = FailedStatus(pdis.status, "ProfileResolveFailed")]_vars
BY DEF Stamped, Written, Tracks

-----------------------------------------------------------------------------
\* A write of anybody else keeps the status, and makes any copy outdated.
LEMMA UsersStamp == TypeInv /\ StampInv /\ Users => StampInv' /\ Stamped
<1> SUFFICES ASSUME TypeInv, StampInv, Users PROVE StampInv' /\ Stamped
  OBVIOUS
<1>1. ASSUME NEW new, OthersPutPDIS(new) PROVE StampInv'
  BY <1>1 DEF OthersPutPDIS, PutPDIS, StampInv
<1>2. ASSUME NEW spec \in ServiceSpecs, CreateService(spec) PROVE StampInv' /\ Stamped
  <2> DEFINE new == [uid |-> uidCount + 1, spec |-> Stored(spec), finalizer |-> FALSE,
                     deleting |-> FALSE, status |-> NewStatus]
  <2>1. pdis = Nil /\ OthersPutPDIS(new) /\ pdis' = new
    BY <1>2 DEF CreateService, OthersPutPDIS, PutPDIS
  <2>2. ReadyAgrees(NewStatus)
    BY DEF ReadyAgrees, NewStatus, PhaseRunning
  <2> QED BY <1>1, <2>1, <2>2 DEF Stamped
<1>3. ASSUME NEW spec \in ServiceSpecs, UpdateService(spec) PROVE StampInv' /\ Stamped
  <2>1. /\ OthersPutPDIS([pdis EXCEPT !.spec = Stored(spec)])
        /\ pdis \in PDISObject /\ pdis # Nil
    BY <1>3 DEF UpdateService, TypeInv, TypeOK
  <2>2. pdis'.status = pdis.status
    BY <2>1 DEF OthersPutPDIS, PutPDIS, PDISObject
  <2> QED BY <1>1, <2>1, <2>2, StaysWritten DEF Stamped
<1>4. CASE DeleteService
  <2>1. /\ OthersPutPDIS(IF pdis.finalizer THEN [pdis EXCEPT !.deleting = TRUE] ELSE Nil)
        /\ pdis \in PDISObject /\ pdis # Nil
    BY <1>4 DEF DeleteService, TypeInv, TypeOK
  <2>2. pdis' # Nil => pdis'.status = pdis.status
    BY <2>1 DEF OthersPutPDIS, PutPDIS, PDISObject
  <2> QED BY <1>1, <2>1, <2>2, StaysWritten DEF Stamped
<1>5. ASSUME NEW name, NEW p, SetProfile(name, p) \/ DeleteProfile(name)
      PROVE  StampInv' /\ Stamped
  <2>1. UNCHANGED <<pdis, pc, wPDIS, wPDISCurrent>>
    BY <1>5 DEF SetProfile, DeleteProfile, OthersPutProfiles, workerVars
  <2> QED BY <2>1, UnchangedStamps
<1> QED
  BY <1>2, <1>3, <1>4, <1>5 DEF Users

\* Cluster, informers, queues and restarts touch neither the service nor a copy
\* of it, but for a restart, which drops the copy.
LEMMA OthersStamp ==
    TypeInv /\ StampInv /\ (Cluster \/ Manager \/ Restart) => StampInv' /\ Stamped
<1> SUFFICES ASSUME TypeInv, StampInv, Cluster \/ Manager \/ Restart
             PROVE  StampInv' /\ Stamped
  OBVIOUS
<1>1. CASE Cluster \/ Manager
  <2>1. UNCHANGED <<pdis, pc, wPDIS, wPDISCurrent>>
    BY <1>1 DEF Cluster, RBGReportsStatus, DeleteRBG, CollectRBG, ServiceAges, OthersPutRBG,
       Manager, PDISInformer, RBGInformer, ProfileInformer, DelayExpires, Resync,
       storeVars, workerVars
  <2> QED BY <2>1, UnchangedStamps
<1>2. CASE Restart
  BY <1>2, StillStamped DEF Restart, Relist, storeVars, StampInv
<1> QED BY <1>1, <1>2

\* A write of Reconcile that is accepted comes from a current copy.
LEMMA AcceptedStamped == TypeInv /\ StampInv /\ Accepted => Stamped
<1> SUFFICES ASSUME TypeInv, StampInv, Accepted PROVE Stamped
  OBVIOUS
<1>1. wPDISCurrent => pdis \in PDISObject /\ wPDIS \in PDISObject /\ pdis # Nil
  BY NilAssumption DEF TypeInv, TypeOK, CopiesCurrent
<1>2. CASE PutFinalizer \/ PutNoFinalizer
  <2>1. pdis # Nil /\ (pdis' # Nil => pdis'.status = pdis.status)
    BY <1>1, <1>2 DEF PutFinalizer, PutNoFinalizer, PutPDIS, PDISObject
  <2> QED BY <2>1, StaysWritten DEF Stamped
<1>3. CASE PutNewRBG \/ PutRBGRoles
  BY <1>3, StillStamped DEF PutNewRBG, PutRBGRoles
<1>4. CASE PutStatus
  <2>1. wPDISCurrent /\ pdis'.status = wPDIS.status
    BY <1>1, <1>4 DEF PutStatus, PutPDIS, PDISObject
  <2>2. Written(pdis.status, wPDIS.status)
    BY <1>4, <2>1 DEF PutStatus, StampInv
  <2> QED BY <1>1, <2>1, <2>2 DEF Stamped
<1> QED BY <1>2, <1>3, <1>4 DEF Accepted

\* Reconcile starts from what is stored or with a copy that is outdated, and
\* only syncStatus changes the condition of its copy.
LEMMA WorkerStamps ==
    TypeInv /\ StampInv /\ (Worker \/ RequestLost \/ ReplyLost) => StampInv' /\ Stamped
<1> SUFFICES ASSUME TypeInv, StampInv, Worker \/ RequestLost \/ ReplyLost
             PROVE  StampInv' /\ Stamped
  OBVIOUS
<1>a. Accepted \/ UNCHANGED pdis
  BY DEF Worker, Reconcile, ensureFinalizer, handleDeletion, ResolveAndBuild,
     ResolveFails, BuildFails, applyRBG, RBGApplied, syncStatus, StatusSynced,
     setFailedStatus, WriteRejected, RequestLost, ReplyLost, Accepted, storeVars
<1>b. Stamped
  BY <1>a, AcceptedStamped, StillStamped
<1>c. wPDISCurrent => /\ pdis \in PDISObject /\ wPDIS \in PDISObject
                      /\ wPDIS.status \in PDInferenceServiceStatus
  BY DEF TypeInv, TypeOK, CopiesCurrent, PDISObject
<1>1. CASE Reconcile
  <2>1. pdisWatch = <<>> => cPDIS = pdis
    BY DEF TypeInv, Delivered, Latest
  <2>2. AfterFetch \notin {"writeStatus", "writeFailed"}
    BY DEF AfterFetch
  <2> QED BY <1>1, <1>b, <2>1, <2>2 DEF Reconcile, storeVars, workerVars, StampInv
<1>2. CASE ensureFinalizer
  BY <1>2, <1>b DEF ensureFinalizer, Goto, StampInv
<1>3. CASE ResolveAndBuild \/ applyRBG \/ RBGApplied
  <2>1. /\ UNCHANGED <<pdis, wPDIS, wPDISCurrent>>
        /\ {pc, pc'} \cap {"writeStatus", "writeFailed"} = {}
    BY <1>3 DEF ResolveAndBuild, applyRBG, RBGApplied, PutNewRBG, PutRBGRoles, Goto, storeVars
  <2> QED BY <1>b, <2>1 DEF StampInv
<1>4. CASE ResolveFails
  <2>1. /\ wPDIS' = [wPDIS EXCEPT !.status = FailedStatus(@, "ProfileResolveFailed")]
        /\ UNCHANGED <<pdis, wPDISCurrent>> /\ pc = "resolve" /\ pc' = "writeFailed"
    BY <1>4 DEF ResolveFails, Goto, storeVars
  <2>2. wPDISCurrent => /\ wPDIS.status = pdis.status
                        /\ wPDIS'.status = FailedStatus(pdis.status, "ProfileResolveFailed")
    BY <1>c, <2>1 DEF StampInv, PDISObject
  <2>3. wPDISCurrent' => Written(pdis'.status, wPDIS'.status)
    BY <1>c, <2>1, <2>2, FailedWrites
  <2> QED BY <1>b, <2>1, <2>3 DEF StampInv
<1>5. CASE syncStatus
  <2> DEFINE st  == IF cRBG = Nil THEN Nil ELSE cRBG.status
             agg == AggregateStatus(wPDIS.status, st, wPDIS.deleting, wPDIS.uid <= agedUpTo)
  <2>1. /\ wPDIS' = [wPDIS EXCEPT !.status = agg]
        /\ UNCHANGED <<pdis, wPDISCurrent>> /\ pc = "syncStatus" /\ pc' = "writeStatus"
    BY <1>5 DEF syncStatus, Goto, storeVars
  <2>2. st # Nil => st \in RBGStatus
    BY DEF TypeInv, TypeOK, RBGObject
  <2> HIDE DEF st
  <2>3. wPDISCurrent => Tracks(wPDIS.status.ready, agg.ready) /\ ReadyAgrees(agg)
    BY <1>c, <2>2, AggregateTracks, AggregateAgrees
  <2> HIDE DEF agg
  <2>4. wPDISCurrent => wPDIS'.status = agg /\ wPDIS.status = pdis.status
    BY <1>c, <2>1 DEF StampInv, PDISObject
  <2> QED BY <1>b, <2>1, <2>3, <2>4 DEF StampInv, Written
<1>6. CASE handleDeletion \/ BuildFails \/ StatusSynced \/ setFailedStatus \/ WriteRejected
           \/ RequestLost \/ ReplyLost
  <2>1. wPDISCurrent' = FALSE
    BY <1>6 DEF handleDeletion, BuildFails, StatusSynced, setFailedStatus, WriteRejected,
       RequestLost, ReplyLost, ReturnError, Return
  <2> QED BY <1>b, <2>1 DEF StampInv
<1> QED
  BY <1>1, <1>2, <1>3, <1>4, <1>5, <1>6 DEF Worker

-----------------------------------------------------------------------------
\* Every step of the stored status is such a step.
LEMMA AlwaysStamped ==
    Spec => /\ TransitionTimeTracksStatus
            /\ ReadyTracksPhase
<1>1. Init => StampInv
  BY DEF Init, StampInv
<1>2. TypeInv /\ StampInv /\ [Next]_vars => StampInv' /\ (Stamped \/ UNCHANGED vars)
  <2>1. StampInv /\ UNCHANGED vars => StampInv'
    BY DEF StampInv, vars, storeVars, workerVars
  <2> QED
    BY <2>1, UsersStamp, OthersStamp, WorkerStamps DEF Next, Faults
<1> QED
  BY <1>1, <1>2, StampedTracks, TypeInit, TypeStep, PTL
     DEF Spec, TransitionTimeTracksStatus, ReadyTracksPhase

\* The stored lastTransitionTime moves exactly when the stored status does,
\* although syncStatus stamps a copy read from a cache: a copy on which the
\* stamp would be wrong is outdated, and its write is a conflict.
THEOREM TransitionsTracked == Spec => TransitionTimeTracksStatus
BY AlwaysStamped, PTL

\* A status that is stored has the Ready condition of its phase, unless it is the
\* status that was stored before with the failure of setFailedStatus.
THEOREM ReadyIsTracked == Spec => ReadyTracksPhase
BY AlwaysStamped, PTL
=============================================================================
