-------------------------- MODULE ConvergenceProofs --------------------------
(***************************************************************************)
(* The safety half of convergence, for every value of the constants.  That *)
(* Reconcile does make progress is liveness and is left to TLC; here: that *)
(* nothing loses the wake-up of a stored service, that what Reconcile      *)
(* writes it would write again, and that nothing it does undoes a state it *)
(* has converged to.                                                       *)
(***************************************************************************)
EXTENDS ReconcilerProofs

-----------------------------------------------------------------------------
(***************************************************************************)
(* No wake-up is lost.  NeverForgotten is not inductive: a pass ends with  *)
(* nothing queued when the cached service is marked and has no finalizer,  *)
(* and when setFailedStatus has written.  The first never happens, because *)
(* no version of a service is like that; the second is a service given up  *)
(* only if the worker holds the Failed status and no deletion mark.        *)
(***************************************************************************)
MarkedGuarded == \A v \in SeenPDIS : v # Nil /\ v.deleting => v.finalizer

UnmarkedWork ==
    pc \in {"addFinalizer", "resolve", "writeFailed"} => ~wPDIS.deleting

FailsForReason ==
    pc = "writeFailed" =>
        wPDIS.status.phase = PhaseFailed /\ wPDIS.status.lastEvent # Nil

WakeInv == NeverForgotten /\ MarkedGuarded /\ UnmarkedWork /\ FailsForReason

\* All it takes from the finalizer protocol, so that it holds where that does not.
RemovesMarked == pc = "removeFinalizer" => wPDIS.deleting

\* The stored version is the cached one or the last one to be delivered.
LEMMA StoredSeen ==
    ASSUME TypeInv
    PROVE  pdis \in SeenPDIS
<1>1. CASE pdisWatch = <<>>
  BY <1>1 DEF TypeInv, Delivered, Latest, SeenPDIS
<1>2. CASE pdisWatch # <<>>
  <2>1. pdisWatch \in Seq(PDISObject \cup {Nil})
    BY DEF TypeInv, TypeOK
  <2>2. Len(pdisWatch) \in 1 .. Len(pdisWatch)
    BY <1>2, <2>1, EmptySeq
  <2>3. pdis = pdisWatch[Len(pdisWatch)]
    BY <1>2 DEF TypeInv, Delivered, Latest
  <2> QED BY <2>2, <2>3 DEF SeenPDIS
<1> QED BY <1>1, <1>2

\* A write that changes the service is a wake-up to come; one that does not
\* leaves everything as it is.
LEMMA PutWakes ==
    ASSUME TypeInv, NEW new \in PDISObject \cup {Nil}, PutPDIS(new)
    PROVE  pdis' = new /\ (pdisWatch' # <<>> \/ UNCHANGED <<pdis, pdisWatch>>)
<1>1. pdisWatch \in Seq(PDISObject \cup {Nil})
  BY DEF TypeInv, TypeOK
<1>2. Append(pdisWatch, new) # <<>>
  BY <1>1
<1> QED BY <1>2 DEF PutPDIS

\* A write of a version that is guarded if it is marked keeps all versions so.
LEMMA PutMarked ==
    ASSUME TypeInv, MarkedGuarded, NEW new \in PDISObject \cup {Nil}, PutPDIS(new),
           UNCHANGED cPDIS, new # Nil /\ new.deleting => new.finalizer
    PROVE  MarkedGuarded'
<1>1. SeenPDIS' \subseteq SeenPDIS \cup {new}
  BY SeenAfterPut
<1> QED BY <1>1 DEF MarkedGuarded

\* What an accepted write of the worker does to the versions to be seen.
LEMMA AcceptedMarked ==
    ASSUME TypeInv, RemovesMarked, MarkedGuarded, Accepted, UNCHANGED cPDIS
    PROVE  MarkedGuarded'
<1>m. pdis # Nil /\ pdis.deleting => pdis.finalizer
  BY StoredSeen DEF MarkedGuarded
<1>1. CASE PutFinalizer
  <2>1. pdis \in PDISObject /\ PutPDIS([pdis EXCEPT !.finalizer = TRUE])
    BY <1>1 DEF PutFinalizer, TypeInv, TypeOK, CopiesCurrent
  <2>2. /\ [pdis EXCEPT !.finalizer = TRUE] \in PDISObject
        /\ [pdis EXCEPT !.finalizer = TRUE].finalizer
    BY <2>1 DEF PDISObject
  <2> QED BY <2>1, <2>2, PutMarked
<1>2. CASE PutNoFinalizer
  <2>1. pdis.deleting
    BY <1>2 DEF PutNoFinalizer, RemovesMarked, TypeInv, CopiesCurrent
  <2>2. PutPDIS(Nil)
    BY <1>2, <2>1 DEF PutNoFinalizer
  <2> QED BY <2>2, PutMarked
<1>3. CASE PutNewRBG \/ PutRBGRoles
  BY <1>3 DEF PutNewRBG, PutRBGRoles, MarkedGuarded, SeenPDIS
<1>4. CASE PutStatus
  <2>1. pdis \in PDISObject /\ pdis # Nil /\ wPDIS \in PDISObject
        /\ PutPDIS([pdis EXCEPT !.status = wPDIS.status])
    BY <1>4 DEF PutStatus, TypeInv, TypeOK, CopiesCurrent
  <2>2. /\ [pdis EXCEPT !.status = wPDIS.status] \in PDISObject
        /\ [pdis EXCEPT !.status = wPDIS.status].finalizer = pdis.finalizer
        /\ [pdis EXCEPT !.status = wPDIS.status].deleting = pdis.deleting
    BY <2>1 DEF PDISObject
  <2> QED BY <1>m, <2>1, <2>2, PutMarked
<1> QED BY <1>1, <1>2, <1>3, <1>4 DEF Accepted

-----------------------------------------------------------------------------
\* Whatever users and the cluster do to the service, the watch will tell.
LEMMA WakeOthers == TypeInv /\ WakeInv /\ (Users \/ Cluster) => WakeInv'
<1> SUFFICES ASSUME TypeInv, WakeInv, Users \/ Cluster PROVE WakeInv'
  OBVIOUS
<1> USE DEF cacheVars, queueVars
<1>m. pdis # Nil /\ pdis.deleting => pdis.finalizer
  BY StoredSeen DEF WakeInv, MarkedGuarded
<1>o. ASSUME NEW new \in PDISObject \cup {Nil}, OthersPutPDIS(new),
             new # Nil /\ new.deleting => new.finalizer
      PROVE  WakeInv'
  <2>1. PutPDIS(new) /\ UNCHANGED <<cPDIS, queue, delayed, pc, wPDIS>>
    BY <1>o DEF OthersPutPDIS
  <2>2. MarkedGuarded'
    BY <1>o, <2>1, PutMarked DEF WakeInv
  <2>3. pdisWatch' # <<>> \/ UNCHANGED <<pdis, pdisWatch>>
    BY <1>o, <2>1, PutWakes
  <2>4. NeverForgotten'
    BY <2>1, <2>3 DEF WakeInv, NeverForgotten, GivenUp
  <2> QED
    BY <2>1, <2>2, <2>4 DEF WakeInv, UnmarkedWork, FailsForReason
<1>u. ASSUME UNCHANGED <<pdis, pdisWatch, cPDIS, queue, delayed, pc, wPDIS>> PROVE WakeInv'
  BY <1>u DEF WakeInv, NeverForgotten, GivenUp, MarkedGuarded, SeenPDIS, UnmarkedWork,
     FailsForReason
<1>1. ASSUME NEW spec \in ServiceSpecs, CreateService(spec) PROVE WakeInv'
  <2> DEFINE new == [uid |-> uidCount + 1, spec |-> Stored(spec), finalizer |-> FALSE,
                     deleting |-> FALSE, status |-> NewStatus]
  <2>1. OthersPutPDIS(new)
    BY <1>1 DEF CreateService
  <2>2. ~new.deleting
    OBVIOUS
  <2>3. new \in PDISObject \cup {Nil}
    <3>1. TypeInv'
      BY <1>1, UsersType DEF Users
    <3>2. pdis' = new BY <2>1 DEF OthersPutPDIS, PutPDIS
    <3> HIDE DEF new
    <3> QED BY <3>1, <3>2 DEF TypeInv, TypeOK
  <2> HIDE DEF new
  <2> QED BY <1>o, <2>1, <2>2, <2>3
<1>2. ASSUME NEW spec \in ServiceSpecs, UpdateService(spec) PROVE WakeInv'
  <2>1. Stored(spec) \in StoredSpecs
    BY StoredType, SpecsAssumption
  <2>2. /\ [pdis EXCEPT !.spec = Stored(spec)] \in PDISObject
        /\ [pdis EXCEPT !.spec = Stored(spec)].finalizer = pdis.finalizer
        /\ [pdis EXCEPT !.spec = Stored(spec)].deleting = pdis.deleting
    BY <1>2, <2>1 DEF UpdateService, PDISObject, TypeInv, TypeOK
  <2> QED BY <1>2, <1>m, <1>o, <2>2 DEF UpdateService
<1>3. CASE DeleteService
  <2>1. CASE pdis.finalizer
    <3>1. /\ [pdis EXCEPT !.deleting = TRUE] \in PDISObject
          /\ [pdis EXCEPT !.deleting = TRUE].finalizer = pdis.finalizer
      BY <1>3 DEF DeleteService, PDISObject, TypeInv, TypeOK
    <3> QED BY <1>3, <1>o, <2>1, <3>1 DEF DeleteService
  <2>2. CASE ~pdis.finalizer
    BY <1>3, <1>o, <2>2 DEF DeleteService
  <2> QED BY <2>1, <2>2
<1>4. ASSUME NEW name, NEW p, SetProfile(name, p) \/ DeleteProfile(name) PROVE WakeInv'
  BY <1>4, <1>u DEF SetProfile, DeleteProfile, OthersPutProfiles, workerVars
<1>5. ASSUME Cluster PROVE WakeInv'
  BY <1>5, <1>u DEF Cluster, RBGReportsStatus, DeleteRBG, CollectRBG, ServiceAges,
     OthersPutRBG, storeVars, watchVars, workerVars
<1> QED
  BY <1>1, <1>2, <1>3, <1>4, <1>5 DEF Users

\* A manager that starts queues whatever is stored.
LEMMA WakeRelist ==
    ASSUME TypeInv, WakeInv, Relist
    PROVE  WakeInv'
<1>1. SeenPDIS' = {pdis} /\ pdis \in SeenPDIS
  BY SeenAfterRelist, StoredSeen
<1>2. MarkedGuarded'
  BY <1>1 DEF WakeInv, MarkedGuarded
<1> QED
  BY <1>2 DEF Relist, storeVars, WakeInv, NeverForgotten, UnmarkedWork, FailsForReason

\* A delivery, a delay that ends, a resync and a restart queue the request.
LEMMA WakeManager == TypeInv /\ WakeInv /\ (Manager \/ Restart) => WakeInv'
<1> SUFFICES ASSUME TypeInv, WakeInv, Manager \/ Restart PROVE WakeInv'
  OBVIOUS
<1> USE DEF storeVars, watchVars, cacheVars, queueVars, workerVars
<1>1. CASE PDISInformer
  <2>1. MarkedGuarded'
    BY <1>1, SeenAfterDelivery DEF WakeInv, MarkedGuarded
  <2> QED
    BY <1>1, <2>1 DEF PDISInformer, WakeInv, NeverForgotten, UnmarkedWork, FailsForReason
<1>2. CASE RBGInformer \/ ProfileInformer \/ DelayExpires \/ Resync
  BY <1>2 DEF RBGInformer, ProfileInformer, DelayExpires, Resync, WakeInv, NeverForgotten,
     GivenUp, MarkedGuarded, SeenPDIS, UnmarkedWork, FailsForReason
<1>3. CASE Restart
  BY <1>3, WakeRelist DEF Restart
<1> QED BY <1>1, <1>2, <1>3 DEF Manager

\* A pass of Reconcile ends with the request delayed, with the service removed,
\* or with the service given up.
LEMMA WakeWorker ==
    TypeInv /\ RemovesMarked /\ WakeInv /\ (Worker \/ RequestLost \/ ReplyLost) => WakeInv'
<1> SUFFICES ASSUME TypeInv, RemovesMarked, WakeInv, Worker \/ RequestLost \/ ReplyLost
             PROVE  WakeInv'
  OBVIOUS
<1> USE DEF cacheVars, queueVars
<1>m. ASSUME UNCHANGED <<pdisWatch, cPDIS>> PROVE MarkedGuarded'
  BY <1>m DEF WakeInv, MarkedGuarded, SeenPDIS
<1>r. ASSUME ReturnError, MarkedGuarded' PROVE WakeInv'
  BY <1>r DEF ReturnError, Return, WakeInv, NeverForgotten, UnmarkedWork, FailsForReason
<1>g. ASSUME pc' \notin {"idle", "addFinalizer", "resolve", "writeFailed"}, MarkedGuarded'
      PROVE  WakeInv'
  BY <1>g DEF WakeInv, NeverForgotten, UnmarkedWork, FailsForReason
<1>1. CASE Reconcile
  <2>1. MarkedGuarded' /\ UNCHANGED <<pdis, pdisWatch, cPDIS>> /\ pc = "idle"
    BY <1>1, <1>m DEF Reconcile, storeVars, watchVars
  <2>2. cPDIS # Nil => AfterFetch # "idle"
    <3>1. cPDIS \in SeenPDIS BY DEF SeenPDIS
    <3> QED BY <3>1 DEF AfterFetch, WakeInv, MarkedGuarded
  <2>3. CASE cPDIS = Nil
    <3>1. pdis # Nil => pdisWatch # <<>>
      BY <2>3 DEF TypeInv, Delivered, Latest
    <3>2. UNCHANGED <<pc, wPDIS>>
      BY <1>1, <2>3 DEF Reconcile, workerVars
    <3> QED
      BY <2>1, <3>1, <3>2 DEF WakeInv, NeverForgotten, UnmarkedWork, FailsForReason
  <2>4. CASE cPDIS # Nil
    <3>1. pc' = AfterFetch /\ wPDIS' = cPDIS
      BY <1>1, <2>2, <2>4 DEF Reconcile
    <3> QED
      BY <2>1, <2>2, <2>4, <3>1 DEF AfterFetch, WakeInv, NeverForgotten, UnmarkedWork,
         FailsForReason
  <2> QED BY <2>3, <2>4
<1>2. CASE ensureFinalizer
  <2>1. MarkedGuarded'
    BY <1>2, AcceptedMarked DEF ensureFinalizer, Accepted, WorkerLeavesAlone, WakeInv
  <2>2. pdis \in PDISObject /\ pdis' = [pdis EXCEPT !.finalizer = TRUE]
        /\ pdis.deleting = wPDIS.deleting /\ ~wPDIS.deleting
    BY <1>2 DEF ensureFinalizer, PutFinalizer, PutPDIS, TypeInv, TypeOK, CopiesCurrent,
       WakeInv, UnmarkedWork
  <2>3. ~pdis'.deleting
    BY <2>2 DEF PDISObject
  <2>4. pc' = "resolve" /\ wPDIS' = pdis'
    BY <1>2 DEF ensureFinalizer, Goto
  <2> QED
    BY <2>1, <2>3, <2>4 DEF WakeInv, NeverForgotten, UnmarkedWork, FailsForReason
<1>3. CASE handleDeletion
  <2>1. MarkedGuarded'
    BY <1>3, AcceptedMarked DEF handleDeletion, Accepted, WorkerLeavesAlone, WakeInv
  <2>2. pdis.deleting
    BY <1>3 DEF handleDeletion, PutNoFinalizer, RemovesMarked, TypeInv, CopiesCurrent
  <2>3. pdis' = Nil /\ pc' = "idle"
    BY <1>3, <2>2 DEF handleDeletion, PutNoFinalizer, PutPDIS, Return
  <2> QED
    BY <2>1, <2>3 DEF WakeInv, NeverForgotten, UnmarkedWork, FailsForReason
<1>4. CASE ResolveAndBuild
  BY <1>4, <1>g, <1>m DEF ResolveAndBuild, Goto, WorkerLeavesAlone, watchVars
<1>5. CASE ResolveFails
  <2>1. MarkedGuarded' /\ pc' = "writeFailed" /\ ~wPDIS.deleting
    BY <1>5, <1>m DEF ResolveFails, Goto, WorkerLeavesAlone, watchVars, WakeInv, UnmarkedWork
  <2>2. /\ wPDIS \in PDISObject
        /\ wPDIS' = [wPDIS EXCEPT !.status = FailedStatus(wPDIS.status, "ProfileResolveFailed")]
    BY <1>5 DEF ResolveFails, TypeInv, TypeOK
  <2>3. wPDIS.status \in PDInferenceServiceStatus
    BY <2>2 DEF PDISObject
  <2>4. /\ FailedStatus(wPDIS.status, "ProfileResolveFailed").phase = PhaseFailed
        /\ FailedStatus(wPDIS.status, "ProfileResolveFailed").lastEvent = "ProfileResolveFailed"
    BY <2>3 DEF FailedStatus, PDInferenceServiceStatus
  <2>5. "ProfileResolveFailed" # Nil
    BY TextAssumption, NilValueAssumption
  <2>6. /\ wPDIS'.status = FailedStatus(wPDIS.status, "ProfileResolveFailed")
        /\ wPDIS'.deleting = wPDIS.deleting
    BY <2>2 DEF PDISObject
  <2> QED
    BY <2>1, <2>4, <2>5, <2>6 DEF WakeInv, NeverForgotten, UnmarkedWork, FailsForReason
<1>6. CASE BuildFails
  BY <1>6, <1>m, <1>r DEF BuildFails, WorkerLeavesAlone, watchVars
<1>7. CASE applyRBG
  BY <1>7, <1>g, <1>m DEF applyRBG, Goto, WorkerLeavesAlone, watchVars
<1>8. CASE RBGApplied
  <2>1. MarkedGuarded'
    BY <1>8, AcceptedMarked DEF RBGApplied, Accepted, WorkerLeavesAlone, WakeInv
  <2> QED BY <1>8, <1>g, <2>1 DEF RBGApplied, Goto
<1>9. CASE syncStatus
  BY <1>9, <1>g, <1>m DEF syncStatus, Goto, WorkerLeavesAlone, watchVars
<1>10. CASE StatusSynced
  <2>1. MarkedGuarded'
    BY <1>10, AcceptedMarked DEF StatusSynced, Accepted, WorkerLeavesAlone, WakeInv
  <2> QED BY <1>10, <1>r, <2>1 DEF StatusSynced, ReturnError
<1>11. CASE setFailedStatus
  <2>1. MarkedGuarded'
    BY <1>11, AcceptedMarked DEF setFailedStatus, Accepted, WorkerLeavesAlone, WakeInv
  <2>2. /\ pdis \in PDISObject /\ wPDIS \in PDISObject
        /\ pdis' = [pdis EXCEPT !.status = wPDIS.status]
        /\ pdis.deleting = wPDIS.deleting /\ ~wPDIS.deleting
        /\ wPDIS.status.phase = PhaseFailed /\ wPDIS.status.lastEvent # Nil
    BY <1>11 DEF setFailedStatus, PutStatus, PutPDIS, TypeInv, TypeOK, CopiesCurrent,
       WakeInv, UnmarkedWork, FailsForReason
  <2>3. pdis'.status = wPDIS.status /\ ~pdis'.deleting
    BY <2>2 DEF PDISObject
  <2>4. pc' = "idle"
    BY <1>11 DEF setFailedStatus, Return
  <2>5. GivenUp' /\ ~pdis'.deleting
    BY <2>2, <2>3 DEF GivenUp
  <2> QED
    BY <2>1, <2>4, <2>5 DEF WakeInv, NeverForgotten, UnmarkedWork, FailsForReason
<1>12. CASE WriteRejected
  BY <1>12, <1>m, <1>r DEF WriteRejected, WorkerLeavesAlone, watchVars
<1>13. CASE RequestLost
  BY <1>13, <1>m, <1>r DEF RequestLost, watchVars
<1>14. CASE ReplyLost
  <2>1. MarkedGuarded'
    BY <1>14, AcceptedMarked DEF ReplyLost, WakeInv
  <2> QED BY <1>14, <1>r, <2>1 DEF ReplyLost
<1> QED
  BY <1>1, <1>2, <1>3, <1>4, <1>5, <1>6, <1>7, <1>8, <1>9, <1>10, <1>11, <1>12, <1>13,
     <1>14 DEF Worker

\* Nothing is stored at first.
LEMMA WakeInit == Init => WakeInv
<1> SUFFICES ASSUME Init PROVE WakeInv
  OBVIOUS
<1>1. SeenPDIS = {Nil}
  <2>1. Len(pdisWatch) = 0 /\ cPDIS = Nil BY DEF Init
  <2> QED BY <2>1 DEF SeenPDIS
<1> QED
  BY <1>1 DEF Init, WakeInv, NeverForgotten, MarkedGuarded, UnmarkedWork, FailsForReason

\* Nothing is forgotten where nothing happens.
LEMMA WakeStutter == WakeInv /\ UNCHANGED vars => WakeInv'
BY DEF WakeInv, NeverForgotten, GivenUp, MarkedGuarded, SeenPDIS, UnmarkedWork,
   FailsForReason, vars, storeVars, watchVars, cacheVars, queueVars, workerVars

\* No step of anybody forgets a service.
LEMMA WakeStep == TypeInv /\ GuardInv /\ WakeInv /\ [Next]_vars => WakeInv'
<1>1. GuardInv => RemovesMarked
  BY DEF GuardInv, RemovesFromDeleted, RemovesMarked
<1> QED
  BY <1>1, WakeStutter, WakeOthers, WakeManager, WakeWorker DEF Next, Faults

\* No stored service is forgotten: through lost requests and replies, conflicts,
\* panics of Build and restarts a pass of Reconcile is under way or to come, or
\* setFailedStatus gave the service up, which no deletion mark is lost to.
THEOREM NothingForgotten == Spec => []NeverForgotten
<1>1. WakeInv => NeverForgotten
  BY DEF WakeInv
<1> QED BY <1>1, WakeInit, WakeStep, GuardHolds, PTL DEF Spec

-----------------------------------------------------------------------------
(***************************************************************************)
(* What Reconcile has written it writes again.                             *)
(***************************************************************************)
\* Aggregating the same report again changes nothing, not even the time stamp of
\* the condition: the pass that a status update of the controller itself wakes
\* up finds nothing to write, for every report and every status before it.
THEOREM AggregationSettles ==
    ASSUME NEW status \in PDInferenceServiceStatus, NEW st,
           st # Nil => st \in RBGStatus, NEW deleting, NEW old
    PROVE  LET agg == AggregateStatus(status, st, deleting, old)
           IN  AggregateStatus(agg, st, deleting, old) = agg
<1> DEFINE phase  == computePhase(st, deleting, old)
           roles  == IF st = Nil THEN status.roleStatuses ELSE buildRoleStatuses(st)
           new    == ReadyStatusOf(phase)
           reason == ReadyReasonOf(phase, status.lastEvent)
           time   == IF status.ready = Nil THEN 0
                     ELSE IF status.ready.status # new
                     THEN 1 - status.ready.lastTransitionTime
                     ELSE status.ready.lastTransitionTime
           cond   == [status |-> new, reason |-> reason, lastTransitionTime |-> time]
           agg    == AggregateStatus(status, st, deleting, old)
           again  == AggregateStatus(agg, st, deleting, old)
<1>1. agg \in PDInferenceServiceStatus /\ agg.ready # Nil
  BY AggregateType, NilValueAssumption
<1>2. agg = [[status EXCEPT !.phase = phase, !.roleStatuses = roles] EXCEPT !.ready = cond]
  <2> DEFINE mid == [status EXCEPT !.phase = phase, !.roleStatuses = roles]
  <2>1. agg = setReadyCondition(mid)
    BY DEF AggregateStatus
  <2> HIDE DEF phase, roles, agg
  <2>2. mid.phase = phase /\ mid.ready = status.ready /\ mid.lastEvent = status.lastEvent
    BY DEF PDInferenceServiceStatus
  <2> HIDE DEF mid
  <2> QED BY <2>1, <2>2 DEF setReadyCondition, mid
<1>3. /\ agg.phase = phase /\ agg.lastEvent = status.lastEvent /\ agg.ready = cond
      /\ agg.roleStatuses = roles /\ cond.status = new /\ cond.lastTransitionTime = time
  <2> HIDE DEF agg, phase, roles, new, reason, time
  <2> QED BY <1>2 DEF PDInferenceServiceStatus
<1>4. (IF st = Nil THEN agg.roleStatuses ELSE buildRoleStatuses(st)) = roles
  BY <1>3
<1> HIDE DEF agg, phase, roles, cond, new, reason, time
<1>5. again = setReadyCondition([agg EXCEPT !.phase = phase, !.roleStatuses = roles])
  BY <1>4 DEF AggregateStatus, phase, again
<1>6. [agg EXCEPT !.phase = phase, !.roleStatuses = roles] = agg
  BY <1>1, <1>3 DEF PDInferenceServiceStatus
<1>7. setReadyCondition(agg) = [agg EXCEPT !.ready = cond]
  BY <1>1, <1>3 DEF setReadyCondition, cond, new, reason
<1>8. [agg EXCEPT !.ready = cond] = agg
  BY <1>1, <1>3 DEF PDInferenceServiceStatus
<1> QED BY <1>5, <1>6, <1>7, <1>8 DEF agg, again

\* A write of what is stored changes nothing.
LEMMA SameWrites ==
    /\ \A o \in PDISObject : [o EXCEPT !.status = o.status] = o
    /\ \A o \in PDISObject : o.finalizer => [o EXCEPT !.finalizer = TRUE] = o
    /\ \A g \in RBGObject : [g EXCEPT !.roles = g.roles] = g
BY DEF PDISObject, RBGObject

\* What Converged says of the objects and caches; the rest is about the worker.
Settled ==
    /\ Serviceable /\ pdis.finalizer /\ GroupMatches
    /\ AggregateStatus(pdis.status, rbg.status, FALSE, pdis.uid <= agedUpTo) = pdis.status
    /\ cPDIS = pdis /\ cRBG = rbg /\ cProfiles = profiles
    /\ pdisWatch = <<>> /\ rbgWatch = <<>> /\ profileWatch = <<>>

\* A worker that holds what is stored has converged with it.
LEMMA ConvergedParts ==
    Converged <=> /\ Settled
                  /\ pc # "idle" => wPDIS = pdis
                  /\ pc \in {"getRBG", "createRBG", "updateRBG"} => wDesired = rbg.roles
BY DEF Converged, Settled

\* Nothing that matters to Settled has changed.
LEMMA SettledKept ==
    ASSUME Settled, UNCHANGED <<pdis, rbg, profiles, pdisWatch, rbgWatch, profileWatch,
                                cPDIS, cRBG, cProfiles, agedUpTo>>
    PROVE  Settled'
BY DEF Settled, Serviceable, GroupMatches

\* An accepted write of a worker that has converged writes what is stored.
LEMMA ConvergedAccepted ==
    ASSUME TypeInv, GuardInv, Converged, Accepted
    PROVE  UNCHANGED <<pdis, rbg, pdisWatch, rbgWatch>>
<1>1. pdis \in PDISObject /\ rbg \in RBGObject /\ pdis.finalizer /\ ~pdis.deleting
  BY DEF TypeInv, TypeOK, Converged, Serviceable, GroupMatches
<1>2. CASE PutFinalizer
  BY <1>1, <1>2, SameWrites DEF PutFinalizer, PutPDIS
<1>3. CASE PutNoFinalizer
  BY <1>1, <1>3 DEF PutNoFinalizer, Converged, GuardInv, RemovesFromDeleted
<1>4. CASE PutNewRBG
  BY <1>4 DEF PutNewRBG, Converged, GroupMatches
<1>5. CASE PutRBGRoles
  BY <1>1, <1>5, SameWrites DEF PutRBGRoles, PutRBG, Converged
<1>6. CASE PutStatus
  <2>1. wPDIS = pdis
    BY <1>6 DEF PutStatus, Converged
  <2> QED BY <1>1, <1>6, <2>1, SameWrites DEF PutStatus, PutPDIS
<1> QED BY <1>2, <1>3, <1>4, <1>5, <1>6 DEF Accepted

\* No step of the manager leaves a state it has converged to, or writes there.
LEMMA ConvergedStep ==
    ASSUME TypeInv, GuardInv, Converged, Worker \/ Manager \/ Faults
    PROVE  Converged' /\ UNCHANGED <<pdis, rbg>>
<1> USE DEF storeVars, watchVars, cacheVars, workerVars, envVars
<1> DEFINE SameStore == UNCHANGED <<pdis, rbg, profiles, pdisWatch, rbgWatch, profileWatch,
                                  cPDIS, cRBG, cProfiles, agedUpTo>>
<1>0. /\ Settled /\ pdis \in PDISObject /\ rbg \in RBGObject /\ pdis # Nil /\ rbg # Nil
      /\ pdis.finalizer /\ ~pdis.deleting
      /\ cPDIS = pdis /\ cRBG = rbg /\ cProfiles = profiles
      /\ pc # "idle" => wPDIS = pdis
      /\ ~ProfileMissing(pdis.spec, profiles) /\ ~BuildPanics(pdis.spec)
  BY ConvergedParts DEF TypeInv, TypeOK, Settled, Serviceable, GroupMatches
<1>k. ASSUME SameStore, pc' # "idle" => wPDIS' = pdis,
             pc' \in {"getRBG", "createRBG", "updateRBG"} => wDesired' = rbg.roles
      PROVE  Converged' /\ UNCHANGED <<pdis, rbg>>
  <2>1. Settled' /\ pdis' = pdis /\ rbg' = rbg
    BY <1>0, <1>k, SettledKept
  <2>2. /\ Settled'
        /\ pc' # "idle" => wPDIS' = pdis'
        /\ pc' \in {"getRBG", "createRBG", "updateRBG"} => wDesired' = rbg'.roles
    BY <1>k, <2>1
  <2> QED BY <2>1, <2>2 DEF Converged, Settled
<1>r. ASSUME SameStore, pc' = "idle" PROVE Converged' /\ UNCHANGED <<pdis, rbg>>
  BY <1>k, <1>r
<1>1. CASE Reconcile
  <2>1. pc' = "resolve" /\ wPDIS' = pdis
    BY <1>0, <1>1 DEF Reconcile, AfterFetch
  <2> QED BY <1>1, <1>k, <2>1 DEF Reconcile
<1>2. CASE ensureFinalizer
  <2>1. UNCHANGED <<pdis, rbg, pdisWatch, rbgWatch>>
    BY <1>2, ConvergedAccepted DEF ensureFinalizer, Accepted
  <2> QED BY <1>2, <1>k, <2>1 DEF ensureFinalizer, Goto, WorkerLeavesAlone
<1>3. CASE handleDeletion
  <2>1. UNCHANGED <<pdis, rbg, pdisWatch, rbgWatch>>
    BY <1>3, ConvergedAccepted DEF handleDeletion, Accepted
  <2> QED BY <1>3, <1>r, <2>1 DEF handleDeletion, Return, WorkerLeavesAlone
<1>4. CASE ResolveAndBuild
  <2>1. wDesired' = Build(pdis.spec, Resolve(pdis.spec, profiles)) /\ wPDIS' = pdis
    BY <1>0, <1>4 DEF ResolveAndBuild
  <2>2. wDesired' = rbg.roles
    BY <1>0, <2>1 DEF Settled, GroupMatches
  <2> QED BY <1>4, <1>k, <2>1, <2>2 DEF ResolveAndBuild, Goto, WorkerLeavesAlone
<1>5. CASE ResolveFails \/ BuildFails
  BY <1>0, <1>5 DEF ResolveFails, BuildFails
<1>6. CASE applyRBG
  <2>1. wDesired = rbg.roles /\ wPDIS = pdis
    BY <1>6 DEF applyRBG, Converged
  <2> QED BY <1>6, <1>k, <2>1 DEF applyRBG, Goto, WorkerLeavesAlone
<1>7. CASE RBGApplied
  <2>1. UNCHANGED <<pdis, rbg, pdisWatch, rbgWatch>>
    BY <1>7, ConvergedAccepted DEF RBGApplied, Accepted
  <2>2. pc # "idle"
    BY <1>7 DEF RBGApplied, PutNewRBG, PutRBGRoles
  <2> QED BY <1>0, <1>7, <1>k, <2>1, <2>2 DEF RBGApplied, Goto, WorkerLeavesAlone
<1>8. CASE syncStatus
  <2>1. wPDIS = pdis /\ pdis.deleting = FALSE
    BY <1>0, <1>8 DEF syncStatus, PDISObject
  <2>2. wPDIS' = [pdis EXCEPT !.status =
                    AggregateStatus(pdis.status, rbg.status, FALSE, pdis.uid <= agedUpTo)]
    BY <1>0, <1>8, <2>1 DEF syncStatus
  <2>3. wPDIS' = pdis
    BY <1>0, <2>2, SameWrites DEF Settled
  <2> QED BY <1>8, <1>k, <2>3 DEF syncStatus, Goto, WorkerLeavesAlone
<1>9. CASE StatusSynced \/ setFailedStatus
  <2>1. UNCHANGED <<pdis, rbg, pdisWatch, rbgWatch>>
    BY <1>9, ConvergedAccepted DEF StatusSynced, setFailedStatus, Accepted
  <2> QED BY <1>9, <1>r, <2>1 DEF StatusSynced, setFailedStatus, Return, WorkerLeavesAlone
<1>10. CASE WriteRejected
  BY <1>10, <1>r DEF WriteRejected, ReturnError, Return, WorkerLeavesAlone
<1>11. CASE RequestLost
  BY <1>11, <1>r DEF RequestLost, ReturnError, Return, Disturb
<1>12. CASE ReplyLost
  <2>1. UNCHANGED <<pdis, rbg, pdisWatch, rbgWatch>>
    BY <1>12, ConvergedAccepted DEF ReplyLost
  <2> QED BY <1>12, <1>r, <2>1 DEF ReplyLost, ReturnError, Return, Disturb
<1>13. CASE Restart
  <2>1. pdisWatch = <<>> /\ rbgWatch = <<>> /\ profileWatch = <<>>
    BY <1>0 DEF Settled
  <2> QED BY <1>0, <1>13, <1>r, <2>1 DEF Restart, Relist, Disturb
<1>14. CASE PDISInformer \/ RBGInformer \/ ProfileInformer
  BY <1>0, <1>14 DEF Settled, PDISInformer, RBGInformer, ProfileInformer
<1>15. CASE DelayExpires \/ Resync
  <2>1. pc \in {"getRBG", "createRBG", "updateRBG"} => wDesired = rbg.roles
    BY DEF Converged
  <2> QED BY <1>0, <1>15, <1>k, <2>1 DEF DelayExpires, Resync
<1> QED
  BY <1>1, <1>2, <1>3, <1>4, <1>5, <1>6, <1>7, <1>8, <1>9, <1>10, <1>11, <1>12, <1>13,
     <1>14, <1>15 DEF Worker, Manager, Faults

\* Once the group, the status and the caches are as Reconcile wants them, only
\* users, the RoleBasedGroup controller, the garbage collector and the passing
\* of 30 minutes change anything: no requeue, conflict, lost reply or restart.
THEOREM ConvergedStays == Spec => StaysConverged
<1>1. TypeInv /\ GuardInv => [Converged /\ (Worker \/ Manager \/ Faults) =>
                                 Converged' /\ UNCHANGED <<pdis, rbg>>]_vars
  BY ConvergedStep
<1> QED BY <1>1, GuardHolds, PTL DEF StaysConverged
=============================================================================
