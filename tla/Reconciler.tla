----------------------------- MODULE Reconciler -----------------------------
(***************************************************************************)
(* The reconciliation of one PDInferenceService name:                      *)
(* internal/controller/pdinferenceservice_controller.go and status.go,     *)
(* between the API server, the informer caches the manager reads from and  *)
(* the work queue that decides when Reconcile runs.                        *)
(*                                                                         *)
(* The controller has one worker.  Every read of a cache and every write   *)
(* to the API server is a step of its own, so users, the RoleBasedGroup    *)
(* controller, the garbage collector, the watches, faults and restarts     *)
(* interleave with one call of Reconcile anywhere the code lets them.      *)
(***************************************************************************)
EXTENDS RBGBuilder, StatusAgg, Admission

CONSTANTS
    ServiceSpecs,     \* the specs users send
    ProfileNames,     \* names of engine profiles in the namespace
    EngineProfiles,   \* the profile specs users send
    RBGStatuses,      \* the statuses the RoleBasedGroup controller reports
    MaxIncarnations,  \* bound: how often the name is created
    MaxDisturbances   \* bound: user edits, reports, faults and restarts

\* A reference to a profile names one of the namespace.
StoredSpecs == {s \in PDInferenceServiceSpec :
                    s.engineProfileRef \in ProfileNames \cup {""}}

ASSUME SpecsAssumption ==
    /\ ServiceSpecs \subseteq StoredSpecs
    /\ EngineProfiles \subseteq PDEngineProfileSpec
    /\ RBGStatuses \subseteq RBGStatus

ASSUME BoundsAssumption == MaxIncarnations \in Nat /\ MaxDisturbances \in Nat

VARIABLES
    (* The API server: the service of this name, its group, the profiles. *)
    pdis, rbg, profiles,
    (* Versions written and not yet delivered to the informers, in order. *)
    pdisWatch, rbgWatch, profileWatch,
    (* The informer caches. *)
    cPDIS, cRBG, cProfiles,
    (* Whether the request is in the work queue, or waits to be added to it
       after a back-off or a RequeueAfter. *)
    queue, delayed,
    (* The worker: the write or read it does next, its copies of the two
       objects, whether the resource versions of these copies are still the
       stored ones, and the roles it is about to write. *)
    pc, wPDIS, wPDISCurrent, wRBGCurrent, wDesired,
    (* The newest uid, the newest uid created more than 30 minutes ago, and
       the disturbances left. *)
    uidCount, agedUpTo, budget

storeVars  == <<pdis, rbg, profiles>>
watchVars  == <<pdisWatch, rbgWatch, profileWatch>>
cacheVars  == <<cPDIS, cRBG, cProfiles>>
queueVars  == <<queue, delayed>>
workerVars == <<pc, wPDIS, wPDISCurrent, wRBGCurrent, wDesired>>
envVars    == <<uidCount, agedUpTo, budget>>

vars == <<storeVars, watchVars, cacheVars, queueVars, workerVars, envVars>>

PDISObject == [uid : Nat, spec : StoredSpecs, finalizer : BOOLEAN,
               deleting : BOOLEAN, status : PDInferenceServiceStatus]

RBGObject == [owner : Nat, roles : [Roles -> RBGRole], status : RBGStatus]

Profiles == [ProfileNames -> EngineProfiles \cup {Nil}]

\* Nil stands for no object, so it is none.
ASSUME NilAssumption ==
    Nil \notin PDISObject /\ Nil \notin RBGObject /\ Nil \notin [Roles -> RBGRole]

WriteSteps == {"addFinalizer", "removeFinalizer", "createRBG", "updateRBG",
               "writeStatus", "writeFailed"}

Steps == {"idle", "resolve", "getRBG", "syncStatus"} \cup WriteSteps

TypeOK ==
    /\ pdis \in PDISObject \cup {Nil}
    /\ rbg \in RBGObject \cup {Nil}
    /\ profiles \in Profiles
    /\ pdisWatch \in Seq(PDISObject \cup {Nil})
    /\ rbgWatch \in Seq(RBGObject \cup {Nil})
    /\ profileWatch \in Seq(Profiles)
    /\ cPDIS \in PDISObject \cup {Nil}
    /\ cRBG \in RBGObject \cup {Nil}
    /\ cProfiles \in Profiles
    /\ queue \in BOOLEAN /\ delayed \in BOOLEAN
    /\ pc \in Steps
    /\ wPDIS \in PDISObject \cup {Nil}
    /\ wPDIS = Nil <=> pc = "idle"
    /\ wPDISCurrent \in BOOLEAN /\ wRBGCurrent \in BOOLEAN
    /\ wDesired \in [Roles -> RBGRole] \cup {Nil}
    /\ pc \in {"getRBG", "createRBG", "updateRBG"} => wDesired # Nil
    /\ uidCount \in 0 .. MaxIncarnations
    /\ agedUpTo \in 0 .. uidCount
    /\ budget \in 0 .. MaxDisturbances

Init ==
    /\ pdis = Nil /\ rbg = Nil /\ profiles \in Profiles
    /\ pdisWatch = <<>> /\ rbgWatch = <<>> /\ profileWatch = <<>>
    /\ cPDIS = Nil /\ cRBG = Nil /\ cProfiles = profiles
    /\ queue = FALSE /\ delayed = FALSE
    /\ pc = "idle" /\ wPDIS = Nil /\ wDesired = Nil
    /\ wPDISCurrent = FALSE /\ wRBGCurrent = FALSE
    /\ uidCount = 0 /\ agedUpTo = 0 /\ budget = MaxDisturbances

-----------------------------------------------------------------------------
(***************************************************************************)
(* Writes to the API server.  A write that changes nothing keeps the       *)
(* resource version and notifies nobody.  Any other write makes the copy   *)
(* the worker holds outdated: a later update from that copy is a conflict. *)
(***************************************************************************)
PutPDIS(new) ==
    /\ pdis' = new
    /\ pdisWatch' = IF new = pdis THEN pdisWatch ELSE Append(pdisWatch, new)

PutRBG(new) ==
    /\ rbg' = new
    /\ rbgWatch' = IF new = rbg THEN rbgWatch ELSE Append(rbgWatch, new)

PutProfiles(new) ==
    /\ profiles' = new
    /\ profileWatch' = IF new = profiles THEN profileWatch
                       ELSE Append(profileWatch, new)

OthersPutPDIS(new) ==
    /\ PutPDIS(new)
    /\ wPDISCurrent' = (wPDISCurrent /\ new = pdis)
    /\ UNCHANGED <<rbg, profiles, rbgWatch, profileWatch, cacheVars, queueVars,
                   pc, wPDIS, wRBGCurrent, wDesired>>

OthersPutRBG(new) ==
    /\ PutRBG(new)
    /\ wRBGCurrent' = (wRBGCurrent /\ new = rbg)
    /\ UNCHANGED <<pdis, profiles, pdisWatch, profileWatch, cacheVars, queueVars,
                   pc, wPDIS, wPDISCurrent, wDesired>>

OthersPutProfiles(new) ==
    /\ PutProfiles(new)
    /\ UNCHANGED <<pdis, rbg, pdisWatch, rbgWatch, cacheVars, queueVars, workerVars>>

\* What a manager notices of a step of anybody else, as watch events to come and
\* as copies that are outdated.  The actions above say this for one write each.
Observes ==
    /\ pdisWatch' = IF pdis' = pdis THEN pdisWatch ELSE Append(pdisWatch, pdis')
    /\ rbgWatch' = IF rbg' = rbg THEN rbgWatch ELSE Append(rbgWatch, rbg')
    /\ profileWatch' = IF profiles' = profiles THEN profileWatch
                       ELSE Append(profileWatch, profiles')
    /\ wPDISCurrent' = (wPDISCurrent /\ pdis' = pdis)
    /\ wRBGCurrent' = (wRBGCurrent /\ rbg' = rbg)
    /\ UNCHANGED <<cacheVars, queueVars, pc, wPDIS, wDesired>>

Disturb == budget > 0 /\ budget' = budget - 1 /\ UNCHANGED <<uidCount, agedUpTo>>

-----------------------------------------------------------------------------
(***************************************************************************)
(* Users.                                                                  *)
(***************************************************************************)
CreateService(spec) ==
    /\ pdis = Nil
    /\ uidCount < MaxIncarnations
    /\ CreateAdmitted(spec, cProfiles)
    /\ OthersPutPDIS([uid |-> uidCount + 1, spec |-> Stored(spec),
                      finalizer |-> FALSE, deleting |-> FALSE,
                      status |-> NewStatus])
    /\ uidCount' = uidCount + 1
    /\ UNCHANGED <<agedUpTo, budget>>

\* One update request; what it is based on has been read before.
UpdateService(spec) ==
    /\ pdis # Nil
    /\ UpdateAdmitted(pdis.spec, spec)
    /\ Stored(spec) # pdis.spec
    /\ OthersPutPDIS([pdis EXCEPT !.spec = Stored(spec)])
    /\ Disturb

\* A service with a finalizer is marked, one without is removed at once.
DeleteService ==
    /\ pdis # Nil
    /\ ~pdis.deleting
    /\ OthersPutPDIS(IF pdis.finalizer THEN [pdis EXCEPT !.deleting = TRUE] ELSE Nil)
    /\ UNCHANGED envVars

SetProfile(name, profile) ==
    /\ profiles[name] # profile
    /\ OthersPutProfiles([profiles EXCEPT ![name] = profile])
    /\ Disturb

DeleteProfile(name) ==
    /\ profiles[name] # Nil
    /\ OthersPutProfiles([profiles EXCEPT ![name] = Nil])
    /\ Disturb

-----------------------------------------------------------------------------
(***************************************************************************)
(* The rest of the cluster.                                                *)
(***************************************************************************)
RBGReportsStatus(st) ==
    /\ rbg # Nil
    /\ rbg.status # st
    /\ OthersPutRBG([rbg EXCEPT !.status = st])
    /\ Disturb

DeleteRBG ==
    /\ rbg # Nil
    /\ OthersPutRBG(Nil)
    /\ Disturb

\* The garbage collector: an owner reference names a uid, not a name.
CollectRBG ==
    /\ rbg # Nil
    /\ ~(pdis # Nil /\ pdis.uid = rbg.owner)
    /\ OthersPutRBG(Nil)
    /\ UNCHANGED envVars

\* Services get old in the order of their creation.
ServiceAges ==
    /\ agedUpTo < uidCount
    /\ agedUpTo' = agedUpTo + 1
    /\ UNCHANGED <<storeVars, watchVars, cacheVars, queueVars, workerVars,
                   uidCount, budget>>

-----------------------------------------------------------------------------
(***************************************************************************)
(* The informers and the queue.  SetupWithManager watches services and the *)
(* groups they own, without predicates; profiles are cached and watched by *)
(* nobody.                                                                 *)
(***************************************************************************)
PDISInformer ==
    /\ pdisWatch # <<>>
    /\ cPDIS' = Head(pdisWatch)
    /\ pdisWatch' = Tail(pdisWatch)
    /\ queue' = TRUE
    /\ UNCHANGED <<storeVars, rbgWatch, profileWatch, cRBG, cProfiles, delayed,
                   workerVars, envVars>>

RBGInformer ==
    /\ rbgWatch # <<>>
    /\ cRBG' = Head(rbgWatch)
    /\ rbgWatch' = Tail(rbgWatch)
    /\ queue' = TRUE
    /\ UNCHANGED <<storeVars, pdisWatch, profileWatch, cPDIS, cProfiles, delayed,
                   workerVars, envVars>>

ProfileInformer ==
    /\ profileWatch # <<>>
    /\ cProfiles' = Head(profileWatch)
    /\ profileWatch' = Tail(profileWatch)
    /\ UNCHANGED <<storeVars, pdisWatch, rbgWatch, cPDIS, cRBG, queueVars,
                   workerVars, envVars>>

DelayExpires ==
    /\ delayed
    /\ delayed' = FALSE /\ queue' = TRUE
    /\ UNCHANGED <<storeVars, watchVars, cacheVars, workerVars, envVars>>

\* The caches replay their objects to the handlers every ten hours.
Resync ==
    /\ cPDIS # Nil \/ cRBG # Nil
    /\ queue' = TRUE
    /\ UNCHANGED <<storeVars, watchVars, cacheVars, delayed, workerVars, envVars>>

\* A manager starts: it lists every object, then works.
Relist ==
    /\ cPDIS' = pdis /\ cRBG' = rbg /\ cProfiles' = profiles
    /\ pdisWatch' = <<>> /\ rbgWatch' = <<>> /\ profileWatch' = <<>>
    /\ queue' = (pdis # Nil \/ rbg # Nil) /\ delayed' = FALSE
    /\ pc' = "idle" /\ wPDIS' = Nil /\ wDesired' = Nil
    /\ wPDISCurrent' = FALSE /\ wRBGCurrent' = FALSE
    /\ UNCHANGED storeVars

\* The manager dies and another one starts.
Restart == Relist /\ Disturb

-----------------------------------------------------------------------------
(***************************************************************************)
(* Reconcile.  Goto continues it; Return ends it, with the request queued  *)
(* again later or not.  A returned error and a recovered panic are retried *)
(* after a back-off, RequeueAfter after ten seconds.                       *)
(***************************************************************************)
Goto(step) == pc' = step /\ UNCHANGED queueVars

Return(requeue) ==
    /\ pc' = "idle" /\ wPDIS' = Nil /\ wDesired' = Nil
    /\ wPDISCurrent' = FALSE /\ wRBGCurrent' = FALSE
    /\ delayed' = (delayed \/ requeue)
    /\ UNCHANGED queue

\* Variant: an error is not retried.
ReturnErrorForgotten == Return(FALSE)

ReturnError == Return(TRUE)

\* Variant: a service is worked on without the finalizer.
AfterFetchUnguarded ==
    IF cPDIS.deleting
    THEN IF cPDIS.finalizer THEN "removeFinalizer" ELSE "idle"
    ELSE "resolve"

\* Variant: a service marked for deletion is left to others.
AfterFetchNoDeletion ==
    IF cPDIS.deleting THEN "idle"
    ELSE IF cPDIS.finalizer THEN "resolve" ELSE "addFinalizer"

\* The worker takes the request; the cached service decides what it does.
AfterFetch ==
    IF cPDIS.deleting
    THEN IF cPDIS.finalizer THEN "removeFinalizer" ELSE "idle"
    ELSE IF cPDIS.finalizer THEN "resolve" ELSE "addFinalizer"

Reconcile ==
    /\ pc = "idle" /\ queue
    /\ queue' = FALSE
    /\ IF cPDIS = Nil \/ AfterFetch = "idle"
       THEN UNCHANGED workerVars
       ELSE /\ pc' = AfterFetch
            /\ wPDIS' = cPDIS
            /\ wPDISCurrent' = (pdisWatch = <<>>)
            /\ UNCHANGED <<wRBGCurrent, wDesired>>
    /\ UNCHANGED <<storeVars, watchVars, cacheVars, delayed, envVars>>

-----------------------------------------------------------------------------
(***************************************************************************)
(* What each write does to the API server when it is accepted.             *)
(***************************************************************************)
PutFinalizer ==
    /\ pc = "addFinalizer" /\ wPDISCurrent
    /\ PutPDIS([pdis EXCEPT !.finalizer = TRUE])
    /\ UNCHANGED <<rbg, rbgWatch>>

\* The service is marked for deletion: without its finalizer it is gone.
PutNoFinalizer ==
    /\ pc = "removeFinalizer" /\ wPDISCurrent
    /\ PutPDIS(IF pdis.deleting THEN Nil ELSE [pdis EXCEPT !.finalizer = FALSE])
    /\ UNCHANGED <<rbg, rbgWatch>>

PutNewRBG ==
    /\ pc = "createRBG" /\ rbg = Nil
    /\ PutRBG([owner |-> wPDIS.uid, roles |-> wDesired, status |-> NewRBGStatus])
    /\ UNCHANGED <<pdis, pdisWatch>>

\* Variant: the group is replaced, with what the controller never set.
PutRBGRolesReplaced ==
    /\ pc = "updateRBG" /\ wRBGCurrent
    /\ PutRBG([owner |-> wPDIS.uid, roles |-> wDesired, status |-> NewRBGStatus])
    /\ UNCHANGED <<pdis, pdisWatch>>

\* Of a group that exists only the roles are replaced.
PutRBGRoles ==
    /\ pc = "updateRBG" /\ wRBGCurrent
    /\ PutRBG([rbg EXCEPT !.roles = wDesired])
    /\ UNCHANGED <<pdis, pdisWatch>>

PutStatus ==
    /\ pc \in {"writeStatus", "writeFailed"} /\ wPDISCurrent
    /\ PutPDIS([pdis EXCEPT !.status = wPDIS.status])
    /\ UNCHANGED <<rbg, rbgWatch>>

Accepted == PutFinalizer \/ PutNoFinalizer \/ PutNewRBG \/ PutRBGRoles \/ PutStatus

\* NotFound, AlreadyExists or Conflict.
Rejected ==
    \/ pc = "createRBG" /\ rbg # Nil
    \/ pc = "updateRBG" /\ ~wRBGCurrent
    \/ pc \in WriteSteps \ {"createRBG", "updateRBG"} /\ ~wPDISCurrent

\* What no step of the worker touches.
WorkerLeavesAlone ==
    UNCHANGED <<profiles, profileWatch, cacheVars, uidCount, agedUpTo>>

-----------------------------------------------------------------------------
(***************************************************************************)
(* The steps of Reconcile after the fetch.                                 *)
(***************************************************************************)
\* Variant: a failed update of the finalizer does not end Reconcile.
ensureFinalizerUnchecked ==
    /\ pc = "addFinalizer"
    /\ IF wPDISCurrent THEN PutPDIS([pdis EXCEPT !.finalizer = TRUE])
       ELSE UNCHANGED <<pdis, pdisWatch>>
    /\ Goto("resolve")
    /\ wPDIS' = [wPDIS EXCEPT !.finalizer = TRUE]
    /\ UNCHANGED <<rbg, rbgWatch, wPDISCurrent, wRBGCurrent, wDesired, budget>>
    /\ WorkerLeavesAlone

\* The update returns the stored object, which the worker goes on with.
ensureFinalizer ==
    /\ PutFinalizer
    /\ Goto("resolve")
    /\ wPDIS' = pdis'
    /\ UNCHANGED <<wPDISCurrent, wRBGCurrent, wDesired, budget>>
    /\ WorkerLeavesAlone

handleDeletion ==
    /\ PutNoFinalizer
    /\ Return(FALSE)
    /\ UNCHANGED budget
    /\ WorkerLeavesAlone

\* Resolve reads the profile from the cache, Build computes the roles.
ResolveAndBuild ==
    /\ pc = "resolve"
    /\ ~ProfileMissing(wPDIS.spec, cProfiles)
    /\ ~BuildPanics(wPDIS.spec)
    /\ Goto("getRBG")
    /\ wDesired' = Build(wPDIS.spec, Resolve(wPDIS.spec, cProfiles))
    /\ UNCHANGED <<storeVars, watchVars, wPDIS, wPDISCurrent, wRBGCurrent, budget>>
    /\ WorkerLeavesAlone

ResolveFails ==
    /\ pc = "resolve"
    /\ ProfileMissing(wPDIS.spec, cProfiles)
    /\ Goto("writeFailed")
    /\ wPDIS' = [wPDIS EXCEPT !.status = FailedStatus(@, "ProfileResolveFailed")]
    /\ UNCHANGED <<storeVars, watchVars, wPDISCurrent, wRBGCurrent, wDesired, budget>>
    /\ WorkerLeavesAlone

\* The panic is recovered by the controller and counts as an error.
BuildFails ==
    /\ pc = "resolve"
    /\ ~ProfileMissing(wPDIS.spec, cProfiles)
    /\ BuildPanics(wPDIS.spec)
    /\ ReturnError
    /\ UNCHANGED <<storeVars, watchVars, budget>>
    /\ WorkerLeavesAlone

applyRBG ==
    /\ pc = "getRBG"
    /\ Goto(IF cRBG = Nil THEN "createRBG" ELSE "updateRBG")
    /\ wRBGCurrent' = (cRBG # Nil /\ rbgWatch = <<>>)
    /\ UNCHANGED <<storeVars, watchVars, wPDIS, wPDISCurrent, wDesired, budget>>
    /\ WorkerLeavesAlone

\* The write of applyRBG succeeds.
RBGApplied ==
    /\ PutNewRBG \/ PutRBGRoles
    /\ Goto("syncStatus")
    /\ wRBGCurrent' = FALSE /\ wDesired' = Nil
    /\ UNCHANGED <<wPDIS, wPDISCurrent, budget>>
    /\ WorkerLeavesAlone

\* The group is read again from the cache, which may not hold it yet.
syncStatus ==
    /\ pc = "syncStatus"
    /\ Goto("writeStatus")
    /\ wPDIS' = [wPDIS EXCEPT !.status =
                    AggregateStatus(@, IF cRBG = Nil THEN Nil ELSE cRBG.status,
                                    wPDIS.deleting, wPDIS.uid <= agedUpTo)]
    /\ UNCHANGED <<storeVars, watchVars, wPDISCurrent, wRBGCurrent, wDesired, budget>>
    /\ WorkerLeavesAlone

\* Variant: nothing is requeued after a status was written.
StatusSyncedOnce ==
    /\ pc = "writeStatus"
    /\ PutStatus
    /\ Return(FALSE)
    /\ UNCHANGED budget
    /\ WorkerLeavesAlone

StatusSynced ==
    /\ pc = "writeStatus"
    /\ PutStatus
    /\ Return(TRUE)
    /\ UNCHANGED budget
    /\ WorkerLeavesAlone

\* setFailedStatus asks for no requeue.
setFailedStatus ==
    /\ pc = "writeFailed"
    /\ PutStatus
    /\ Return(FALSE)
    /\ UNCHANGED budget
    /\ WorkerLeavesAlone

WriteRejected ==
    /\ Rejected
    /\ ReturnError
    /\ UNCHANGED <<storeVars, watchVars, budget>>
    /\ WorkerLeavesAlone

\* A write that never reaches the API server.
RequestLost ==
    /\ pc \in WriteSteps
    /\ ReturnError
    /\ Disturb
    /\ UNCHANGED <<storeVars, watchVars, cacheVars>>

\* A write that is done although the worker sees an error.
ReplyLost ==
    /\ Accepted
    /\ ReturnError
    /\ Disturb
    /\ UNCHANGED <<profiles, profileWatch, cacheVars>>

-----------------------------------------------------------------------------
Worker ==
    \/ Reconcile
    \/ ensureFinalizer \/ handleDeletion
    \/ ResolveAndBuild \/ ResolveFails \/ BuildFails
    \/ applyRBG \/ RBGApplied
    \/ syncStatus \/ StatusSynced \/ setFailedStatus
    \/ WriteRejected

Users ==
    \/ \E spec \in ServiceSpecs : CreateService(spec)
    \/ \E spec \in ServiceSpecs : UpdateService(spec)
    \/ DeleteService
    \/ \E name \in ProfileNames, p \in EngineProfiles : SetProfile(name, p)
    \/ \E name \in ProfileNames : DeleteProfile(name)

Cluster ==
    \/ \E st \in RBGStatuses : RBGReportsStatus(st)
    \/ DeleteRBG
    \/ CollectRBG
    \/ ServiceAges

Manager ==
    \/ PDISInformer \/ RBGInformer \/ ProfileInformer
    \/ DelayExpires \/ Resync

Faults == Restart \/ RequestLost \/ ReplyLost

Next == Worker \/ Users \/ Cluster \/ Manager \/ Faults

Spec == Init /\ [][Next]_vars

(***************************************************************************)
(* The worker goroutine, the watches, the delaying queue and the garbage   *)
(* collector keep running.  Nobody has to act on a service: users, the     *)
(* RoleBasedGroup controller, faults and the passing of 30 minutes are not *)
(* fair.  Nothing waits for the ten-hour resync.                           *)
(***************************************************************************)
Fairness ==
    /\ WF_vars(Worker)
    /\ WF_vars(PDISInformer) /\ WF_vars(RBGInformer) /\ WF_vars(ProfileInformer)
    /\ WF_vars(DelayExpires)
    /\ WF_vars(CollectRBG)

LiveSpec == Spec /\ Fairness

-----------------------------------------------------------------------------
(***************************************************************************)
(* Safety.                                                                 *)
(***************************************************************************)
\* From the moment ensureFinalizer has returned until Reconcile ends, the
\* service the worker holds is still stored, under the same uid and with the
\* finalizer: no delete, recreate or restart lets it work for a service that
\* is gone, although it read that service from a cache that lags behind.
WorkerServesStored ==
    pc \notin {"idle", "addFinalizer", "removeFinalizer"} =>
        pdis # Nil /\ pdis.uid = wPDIS.uid /\ pdis.finalizer

\* A group that runs for the stored service is guarded by the finalizer, so the
\* service cannot vanish before handleDeletion has seen its deletion.
OwnedIsGuarded ==
    rbg # Nil /\ pdis # Nil /\ rbg.owner = pdis.uid => pdis.finalizer

\* applyRBG never creates a group whose owner is gone: such a group would hold
\* GPUs for a service the user has already seen deleted.
ProvisionsForStored ==
    [][rbg = Nil /\ rbg' # Nil =>
           pdis # Nil /\ pdis.uid = rbg'.owner /\ pdis.finalizer]_vars

ReadyAgrees(st) == st.phase = PhaseRunning <=> st.ready # Nil /\ st.ready.status = "True"

\* Whatever stale copy a status was computed from, the phase and the Ready
\* condition that are stored with it agree.  The one write without this is
\* setFailedStatus, which replaces phase and lastEvent of what is stored.
ReadyTracksPhase ==
    [][pdis' # Nil /\ (pdis = Nil \/ pdis'.status # pdis.status) =>
           \/ ReadyAgrees(pdis'.status)
           \/ /\ pdis # Nil
              /\ pdis'.status = FailedStatus(pdis.status, "ProfileResolveFailed")]_vars

\* A stored status says Running only when it also reports some role, and no
\* role of it short of replicas.
RunningMeansReady ==
    pdis # Nil /\ pdis.status.phase = PhaseRunning =>
        /\ pdis.status.roleStatuses # {}
        /\ \A rs \in pdis.status.roleStatuses : rs.ready >= rs.total

\* Every role of a stored group has a replica: neither a spec that omits the
\* router's replicas nor an update, with webhooks or without, scales one to zero.
GroupReplicasPositive ==
    rbg # Nil => \A r \in Roles : rbg.roles[r].replicas >= 1

\* lastTransitionTime of the stored Ready condition moves exactly when its
\* status does, whichever copy of the service the worker aggregated into.
TransitionTimeTracksStatus ==
    [][pdis # Nil /\ pdis' # Nil /\ pdis'.uid = pdis.uid /\ pdis.status.ready # Nil =>
           /\ pdis'.status.ready # Nil
           /\ pdis'.status.ready.lastTransitionTime # pdis.status.ready.lastTransitionTime
                <=> pdis'.status.ready.status # pdis.status.ready.status]_vars

-----------------------------------------------------------------------------
(***************************************************************************)
(* Liveness.  The disturbances of a run are finite, so these say what      *)
(* becomes of the service once everybody leaves it alone.                  *)
(***************************************************************************)
\* The stored service can be turned into a group.
Serviceable ==
    /\ pdis # Nil /\ ~pdis.deleting
    /\ ~ProfileMissing(pdis.spec, profiles)
    /\ ~BuildPanics(pdis.spec)

\* setFailedStatus gave the service up until something wakes Reconcile again.
GivenUp == pdis.status.phase = PhaseFailed /\ pdis.status.lastEvent # Nil

GroupMatches ==
    /\ rbg # Nil /\ rbg.owner = pdis.uid
    /\ rbg.roles = Build(pdis.spec, Resolve(pdis.spec, profiles))

StatusMatches ==
    /\ rbg # Nil
    /\ pdis.status.phase = computePhase(rbg.status, FALSE, pdis.uid <= agedUpTo)
    /\ pdis.status.roleStatuses = buildRoleStatuses(rbg.status)
    /\ pdis.status.ready # Nil
    /\ pdis.status.ready.status = ReadyStatusOf(pdis.status.phase)

\* A stored service always has a pass of Reconcile under way or coming: queued,
\* delayed, running or about to be delivered by the watch.  Only setFailedStatus
\* lets go of a service, and never of one that is marked for deletion.
NeverForgotten ==
    pdis # Nil =>
        \/ queue \/ delayed \/ pc # "idle" \/ pdisWatch # <<>>
        \/ GivenUp /\ ~pdis.deleting

\* Everything is as Reconcile wants it, the caches show it, and a pass that is
\* under way has read it.
Converged ==
    /\ Serviceable /\ pdis.finalizer /\ GroupMatches
    /\ AggregateStatus(pdis.status, rbg.status, FALSE, pdis.uid <= agedUpTo) = pdis.status
    /\ cPDIS = pdis /\ cRBG = rbg /\ cProfiles = profiles
    /\ pdisWatch = <<>> /\ rbgWatch = <<>> /\ profileWatch = <<>>
    /\ pc # "idle" => wPDIS = pdis
    /\ pc \in {"getRBG", "createRBG", "updateRBG"} => wDesired = rbg.roles

\* Then no step of the manager, no lost request or reply and no restart writes
\* anything or undoes it, however often the ten-second requeue comes round.
StaysConverged ==
    [][Converged /\ (Worker \/ Manager \/ Faults) =>
           Converged' /\ UNCHANGED <<pdis, rbg>>]_vars

\* The group of a service not given up ends up owned by it and built from its
\* last spec and profile, through conflicts, lost writes, stale caches,
\* restarts, a group deleted by hand or left over from an earlier service.
GroupConverges == <>[](Serviceable /\ ~GivenUp => GroupMatches)

\* And its status ends up being the one the group's last report calls for, with
\* the Ready condition of that phase again after a failure that is over.
StatusConverges == <>[](Serviceable /\ ~GivenUp => StatusMatches)

\* A service whose profile is missing ends up Failed.
MissingProfileReported ==
    <>[](pdis # Nil /\ ~pdis.deleting /\ ProfileMissing(pdis.spec, profiles) =>
            pdis.status.phase = PhaseFailed)

\* A service marked for deletion goes away, and once the name stays unused no
\* group is left behind.
DeletionCompletes ==
    /\ (pdis # Nil /\ pdis.deleting) ~> (pdis = Nil \/ ~pdis.deleting)
    /\ <>[](pdis = Nil => rbg = Nil)

\* The controller stops writing: its own status updates, which wake it up
\* again, do not keep it busy for ever.
Quiesces == <>[][UNCHANGED <<pdis, rbg>>]_vars
=============================================================================
