# pd-manager: a TLA+ model of its controller and REST API

pd-manager is a Kubernetes operator. A user describes an LLM service split into a
router, prefill and decode workers as a `PDInferenceService`; the operator merges
it with an optional `PDEngineProfile`, writes a `RoleBasedGroup` (RBG) that another
controller turns into pods, and reports the group's state back in the service's
status. A REST API lets clients manage services and profiles without kubectl. This
directory models the operator and the API in TLA+, checks them with TLC on small
instances, and proves with TLAPS, for every value of the constants, that the
finalizer protocol is safe, that the controller implements an abstract life of a
service, that statuses are consistent, that no service is forgotten, that a converged
one is left alone, that no accepted request is undone, and which of this survives two
managers at once.

Paths below are relative to the repository.

## 1. Inventory

| Part | State | Operations | Hard because |
|---|---|---|---|
| Controller (`internal/controller/pdinferenceservice_controller.go`) | none of its own; local copies within one call | `Reconcile`, `ensureFinalizer`, `handleDeletion`, `applyRBG`, `setFailedStatus` | reads caches, writes to the API server, each write can conflict, get lost, or be done with its reply lost; restarts |
| Status (`status.go`) | `status` of the service | `syncStatus`, `computePhase`, `setReadyCondition`, ... | computed on copies that may be stale; its write wakes the controller again |
| Merger (`internal/config/merger.go`) | – | `Resolve`, `applyProfile` | reads the profile at every call, from a cache |
| Builder (`internal/translator/rbg_builder.go`) | – | `Build` and helpers | panics on malformed quantities |
| Webhooks (`internal/webhook/v1alpha1`) | – | `Default`, `ValidateCreate`, `ValidateUpdate` | profile looked up in a cache; can be switched off; updates are barely checked |
| API types (`api/v1alpha1`) | the stored objects | schema defaults and bounds | – |
| Manager (`cmd/main.go`) | caches, work queue | start, restart | leader election |
| REST handlers (`internal/apiserver/handler`) | local copies within one request | create, list, get, update, delete of services and of profiles | get-then-write in two requests to the API server, with other handlers and the controller in between; lost replies |
| REST server (`internal/apiserver/server.go`) | open requests | routing, graceful shutdown | shutdown waits for the handlers, which have no deadline, and the manager gives up waiting after 30 seconds |
| Outside: API server, RBG controller, garbage collector, users | stored objects | writes at any moment | – |

How they interact. The controller is woken by a queue of requests (one name is
queued at most once); watch events of services and of the groups they own put the
name there, so do back-offs after errors, the `RequeueAfter` of ten seconds, and
the caches' resync every ten hours. Profiles are cached and wake nobody. One
`Reconcile` reads service, profile and group (twice) from the caches at four
different moments and writes to the API server up to three times. The only thing
that orders these writes with those of users is the resource version, checked by
the API server.

What makes the parts correct:

* controller: it provisions only for a service that is still stored; deletions
  complete and leave nothing running; the group ends up built from the last spec;
  it stops writing when nothing changes;
* status: Running only when some role is reported and all are ready; the Ready
  condition agrees with the phase; `lastTransitionTime` moves with the condition;
  the last report ends up in the status;
* merger and builder: no role with zero replicas, mount without volume or container
  without image; the pod templates of a living service change only with its profile;
* REST: an accepted write is never undone by a handler that read before it, nothing
  deleted comes back, an answer is true when it is given.

The hazards, with the line where each one bites and the properties that watch it,
are in `PROJECT.json` under `hazards`.

## 2. Modules

| Module | Models | Notes |
|---|---|---|
| `PDTypes` | `api/v1alpha1` | sets of records; texts are opaque |
| `Merger` | `merger.go` | operators `Resolve`, `applyProfile` |
| `RBGBuilder` | `rbg_builder.go` | `Build`; `BuildPanics` says when `MustParse` panics |
| `StatusAgg` | `status.go`, the status part of `setFailedStatus` | `AggregateStatus`, `FailedStatus` |
| `Admission` | webhooks and CRD schema | `CreateAdmitted`, `UpdateAdmitted`, `Stored` |
| `Reconciler` | the controller between API server, caches and queue | the state machine; extends the five above |
| `Lifecycle` | what the operator promises of a service name | the abstract specification: four stages, the newest incarnation, the group's owner |
| `ReconcilerLifecycle` | – | the refinement mapping from `Reconciler` to `Lifecycle` |
| `Handover` | two managers around a lost lease (`cmd/main.go`) | composes two copies of `Reconciler`'s manager over one API server |
| `RestApi` | `internal/apiserver` | handlers and server; extends `Lifecycle`, which stands for the controller |
| `RestPods` | – | composes `RestApi`, `Merger` and `RBGBuilder`: what is built from what the REST API stores |
| `MCReconciler`, `MCHandover`, `MCRestApi` | – | constants for TLC |
| `DocClaims` | – | what documents and comments claim and the code does not do |
| `ReconcilerProofs` | – | types and the finalizer protocol, proved |
| `StatusProofs`, `TransitionProofs` | – | statuses and replicas, proved |
| `LifecycleProofs` | – | the step simulation, proved |
| `ConvergenceProofs` | – | nothing is forgotten, what has converged stays, proved |
| `HandoverProofs` | – | what survives two managers, proved |
| `RestProofs` | – | the promises of the REST API, proved |
| `PodsProofs` | – | the pods of what the REST API stores, proved |

Definitions whose comment begins with "Variant:" are deliberately wrong versions
of the definition that follows them. Nothing uses them; they exist to see that the
properties notice the bug.

### State and steps of `Reconciler`

The model follows one name. `pdis`, `rbg` and `profiles` are what the API server
stores (`Nil` when absent); the three `...Watch` sequences hold the versions that
the informers have not delivered yet, and `cPDIS`, `cRBG`, `cProfiles` what the
manager's client reads. `queue` and `delayed` are the work queue and the delaying
queue in front of it. `pc` is the next read or write of the running `Reconcile`
and the `w...` variables its local copies. A resource version is not a number: the
worker keeps whether its copy's version is still the stored one (`wPDISCurrent`,
`wRBGCurrent`); it is when the copy was read with nothing left to deliver, and any
other client's write ends it.

| Action | Code |
|---|---|
| `Reconcile`, `AfterFetch` | fetch, NotFound, deletion and finalizer branches (controller.go 53–70) |
| `ensureFinalizer` / `handleDeletion` | the finalizer updates (96–115) |
| `ResolveAndBuild`, `ResolveFails`, `BuildFails` | steps 4 and 5 (73–84); the panic is recovered by controller-runtime and retried like an error |
| `applyRBG`, `RBGApplied` | the cached get and the create or update (118–129) |
| `syncStatus`, `StatusSynced` | the second cached get with the aggregation, and the status write with `RequeueAfter` (status.go 33–52) |
| `setFailedStatus` | the status write without requeue (132–136) |
| `WriteRejected` | NotFound, AlreadyExists, Conflict: the error is returned and retried |
| `RequestLost`, `ReplyLost` | a write that never arrives; one that is done although the worker sees an error |
| `PDISInformer`, `RBGInformer`, `ProfileInformer`, `DelayExpires`, `Resync` | `SetupWithManager` (139–145) and the vendored controller-runtime / client-go |
| `Restart` | the manager dies anywhere in `Reconcile`; a new one lists everything |
| `CreateService`, `UpdateService`, `DeleteService`, `SetProfile`, `DeleteProfile` | requests of users, after admission |
| `RBGReportsStatus`, `DeleteRBG`, `CollectRBG` | RBG controller, a manual deletion, the garbage collector (by owner uid) |
| `ServiceAges` | 30 minutes pass since a service's creation |

Abstractions worth knowing. An informer updates its cache and queues the request
in one step; in the program the queueing follows a moment later, which adds only
a further `Reconcile`, and `Resync` allows one at any time. The vendored version
queues through client-go's rate-limited queue (the priority queue is off by
default), so a pending delay survives an immediate request. `time.Now` is the
parity of the number of stamps. Messages, labels and ports are left out. A service
has no finalizer but the operator's, and nobody but the operator removes it; users
delete in the background mode. The webhook reads the same cache as the worker.

### `Lifecycle`: what the controller promises

A service name is `absent`, `bare` (stored without the finalizer), `guarded` or
`ending` (marked for deletion); `uid` counts its incarnations and `owner` says for
which of them the group runs. A service is guarded before a group is made for it
(`Provision`), a bare one may vanish at once, a guarded one is marked and then let go
by the controller alone (`Release`). `ReconcilerLifecycle` reads stage, uid and owner
off the stored objects. `FollowsLifecycle` is the safety part, `FollowsFairLifecycle`
adds that a marked service is let go and an orphaned group collected.

What the abstraction buys: `RestApi` does not need the controller's caches. It
extends `Lifecycle` and adds status writes, which only matter because they change the
resource version.

### State and steps of `RestApi`

`call[c]` is the request a client's handler serves, `copy[c]` what it has read,
`fresh[c]` whether the resource version it read is still the stored one, `answer[c]`
the last answer; `draining` is set between the cancelled context and the end of
`Shutdown`. The handlers read with `mgr.GetAPIReader()`, hence from the store and not
from a cache; the webhook looks profiles up in the cache `cProfiles`.

| Action | Code |
|---|---|
| `RefuseBody` | the 400s: a body that does not decode, a PUT that names the model |
| `Create`, `List`, `Get`, `CreateProfile`, `ListProfiles`, `GetProfile` | one request to the API server each |
| `Update` = `UpdateReads`, `UpdateStores`, `UpdateRefused` | `Update` (pdinferenceservice.go 110–148): get, set the replicas given, update; conflict and refusal are both 500 |
| `Delete`, `UpdateProfile`, `DeleteProfile` | the same for the other handlers with two requests; the deletes carry no precondition and answer 200 for what is missing |
| `ApiFails`, `ApiReplyLost` | a request that fails; one that is done although the handler sees an error |
| `Accept`, `Shutdown`, `Stopped`, `Crash` | routing and `Start` (server.go) |
| `GraceExpires` | the manager's grace period ends with handlers still open, and the process with it (`engageStopProcedure` of the vendored manager, main.go 265–270) |
| `ControllerGuards`, `ControllerReleases`, `ControllerWritesStatus`, `GroupChanges`, `ProfileInformer` | the rest of the system |

A client waits for its answer before it sends again; a client that gives up and
retries is the other client. `answer` keeps the uid the service had when the answer
was given, `asked` the replicas last asked for: both are there for the properties.
kubectl is not a client here: what a user may do past the REST API is `UpdateService`
of `Reconciler`.

### `Handover`: two managers for a moment

`--leader-elect` uses a lease. A manager that is paused or cut off long enough loses it
without noticing, and finishes the call of `Reconcile` it is in. `Handover` has the
leading manager in `Reconciler`'s variables and the deposed one in a second set, as an
`INSTANCE` of the same module, so that both run the same code on the same objects.
At the handover (`TakeOver`) the deposed manager keeps pc, copies, caches and what its
watches have yet to deliver, and the new one lists everything. The informers of the
deposed manager run until its process ends, so `DeposedObserves` appends to its watches
what anybody writes and `DeposedWorks` delivers it. The cached get of `applyRBG` may
therefore return the group the new leader has just written, and the update from the
older spec be accepted over it; the get of `syncStatus` may aggregate the newest report
into the old copy of the service, a write that is accepted only if nobody has written
the service since.

Left out, for the size of the state space: calls of `Reconcile` that the deposed manager
begins after the handover. It would fetch the service anew, so such a call differs from
one of the leader only in how far its caches lag, and that is what the first call shows.
Its service cache and its queue serve only those calls and are not followed either.
`Others` has no resync, no ageing and no group deleted by hand.

Not everything of section 3 survives. The deposed manager may create a group for a
service that the new leader has let go in between, so `WorkerServesStored`,
`ProvisionsForStored` and with them `FollowsLifecycle` hold for one manager only. What
run `handover` shows is that such a group is collected, and that group, deletion and
condition end up right all the same; what `HandoverProofs` proves is the rest: types,
`OwnedIsGuarded`, the statuses, the replicas, the transition time and `NeverForgotten`.

### `RestPods`: from a request to the pods

`RolesOf` is what `Reconcile` builds for a service, by `Resolve` and `Build`. Two
properties look through it at what the REST API stores. `GroupsSound`: what is stored
builds into roles with replicas, volumes for their mounts and, with the webhooks on and
no profile, an image and arguments. `ValidateUpdate` checks none of that; claim
`claim_update` shows that an update by kubectl can break it, and `GroupsSound` that a PUT
cannot. `PodsKept`: the pod templates and the router of a living service change with
nothing but a write of the profile it refers to (`ProfileWritten`). That one the next
pass of `Reconcile` applies, so its pods are replaced (docs/specs.md:199 says they are
not); a PUT that scales, or a request on another profile, replaces none.

## 3. Runs

All passing runs set `CHECK_DEADLOCK FALSE`: an operator with nothing to do, whose
users have used up their edits, may rest for ever.

| Run | Instance | Shows |
|---|---|---|
| `safety` | two incarnations, two disturbances, one profile that can vanish, one spec that needs it and one that cannot be built, three reports (ready, short, crash loop); 1.46 million states | type correctness, `WorkerServesStored`, `OwnedIsGuarded`, `ProvisionsForStored`, `ReadyTracksPhase`, `RunningMeansReady`, `TransitionTimeTracksStatus`, `NeverForgotten`, `StaysConverged`, the refinement `FollowsLifecycle` |
| `recreate` | two incarnations, one disturbance, a profile with two values to edit between; 338 thousand states | `GroupConverges` to the last profile, `StatusConverges`, `MissingProfileReported`, `Quiesces`, the fair refinement `FollowsFairLifecycle` |
| `live` | webhooks off, one incarnation, two disturbances, two inline specs of which one leaves out the router's replicas; 184 thousand states | the same without profiles, with pairs of faults and edits; `GroupReplicasPositive` |
| `rest` | two clients, four requests out of nineteen on one service name and two profile names (one mounts a volume it does not have), one fault; 272 thousand states | `RestTypeOK`, `GroupsSound`, `PodsKept`, `NoScaleLost`, `OnlyScales`, `CreatedOnce`, `DeletedStaysDeleted`, `ProfilesReturnByCreate`, `DeleteFreesGroup` |
| `handover` | one handover anywhere in `Reconcile`, one incarnation, one disturbance, a spec and an edit of it; 356 thousand states | `OwnedIsGuarded`, `NeverForgotten`, `TransitionTimeTracksStatus`, `GroupConverges`, `DeletionCompletes` with two managers |

Bounds. `MaxIncarnations` is how often the name is created and `MaxDisturbances`
how many edits, reports, manual deletions, restarts and lost writes a behaviour
has. Deletions of the service, garbage collection, deliveries, retries and the
passing of time are not bounded. Two incarnations are what it takes to confuse a
service with its successor; two disturbances let a fault hit the recovery from
another. `MaxRequests` = 4 lets one client create, both read, and one of them write
between the other's read and write, or delete and create again there; `MaxFaults` = 1
puts one failed or lost request, crash or shutdown anywhere. The theorems of section 4
have no such bounds.

Fairness (`LiveSpec`): the worker, the three watches, the delaying queue and the
garbage collector keep running, because controller-runtime runs each in a loop for
the life of the process and a rejected write is retried with a back-off. Users, the
RBG controller, faults and the 30 minutes are not fair. `LiveSpec` does not wait
for the ten-hour resync. The liveness properties say what
becomes of a service once the disturbances are over. `RestLiveSpec`: the controller and
the collector do what `FollowsFairLifecycle` has shown of them. It grants the handlers
nothing: the server sets no read timeout and the handlers call the API server on a
background context, so a handler may stay open until its process ends.
`HandLiveSpec` adds that a process without its lease ends, as controller-runtime exits
when the renewal fails.

`GivenUp` in `GroupConverges` and `StatusConverges` is not a convenience:
`setFailedStatus` returns without requeue and profiles are not watched, so a
service that failed because its profile was missing stays Failed when the profile
comes back, until something wakes the controller: an edit, a report of the group, a
restart or the resync.

### Where documents and code disagree

Each run below checks one claim and TLC refutes it; `PROJECT.json` quotes the line.

| Run | Claim | What happens |
|---|---|---|
| `claim_profile_deletion` | docs/specs.md:194, deleting a profile leaves running services alone | the requeue resolves again and turns them Failed |
| `claim_owner` | docs/design/plan.md:156, the written group is owned by the service | the update keeps the previous service's owner reference (the group is later collected and created anew: `GroupConverges`) |
| `claim_timeout` | docs/specs.md:263, the timeout is about initializing | it is measured from creation |
| `claim_build_failure` | docs/design/plan.md:492, a build failure is reported | it panics and is retried for ever |
| `claim_update` | the comment of `ValidateUpdate`, only two replica counts may change | it compares three other fields; an update may leave a spec that a create is refused for |
| `claim_failed_condition` | docs/specs.md:122 (and :744, docs/design/task.md:498), the conditions of a Failed service hold the reason | `setFailedStatus` leaves them alone: a service that was Running is Failed with Ready=True |
| `claim_crash_reason` | docs/specs.md:98, the conditions name a crash loop | `lastEvent` is never cleared, so an earlier missing profile is given as the reason |

Read off the code while modelling, without a run of their own: `handleDeletion`
writes no status, so Terminating (docs/specs.md:164) is never shown.

Some properties that hold are themselves at odds with a document:

* docs/specs.md:265 and :750 say that nothing leaves Failed by itself, a user has to
  delete and create again. In the code Failed is computed anew in every pass.
  `StatusConverges` includes that a service that was Failed by `StartupTimeout` or a crash
  loop becomes Running as soon as its group reports so, and one that `setFailedStatus`
  gave up recovers at the first pass with its profile back.
* docs/specs.md:199 says that a changed profile is not applied to existing services. The
  requeue applies it: `GroupConverges` is about the last profile, and `PodsKept` excepts
  exactly that write.
* docs/specs.md:99 and :520 say that a POST of a name that exists is answered 409; the
  handler answers 500. `RestTypeOK` lists both codes, so that it neither forbids nor
  demands the documented one.

Of the REST API, too: concurrent PUTs do not end as "last write wins" (docs/specs.md:152), the late one is
answered 500 for its conflict, which is what makes `NoScaleLost` true; a DELETE of a missing
service is answered 200 and not 404 (docs/specs.md:169, against the handler's own
comment); illegal replicas are answered 500 and not 400 (docs/specs.md:144); POST takes
a namespace from the body that no other handler can reach.

## 4. Proofs

Eight modules prove, for all sets of specs, profiles, reports, clients and requests and
for all bounds:

* `TypeCorrect`: `Spec => []TypeOK`;
* `ServesStored`: `Spec => []WorkerServesStored`;
* `OwnedGuarded`: `Spec => []OwnedIsGuarded`;
* `ProvisionsStored`: `Spec => ProvisionsForStored`, an action property;
* `RunningIsReady`: `Spec => []RunningMeansReady`;
* `ReplicasArePositive`: `Spec => []GroupReplicasPositive`;
* `TransitionsTracked`, `ReadyIsTracked`: `Spec => TransitionTimeTracksStatus`,
  `Spec => ReadyTracksPhase`, action properties;
* `ImplementsLifecycle`: `Spec => FollowsLifecycle`, the refinement;
* `NothingForgotten`: `Spec => []NeverForgotten`;
* `ConvergedStays`: `Spec => StaysConverged`, an action property, and
  `AggregationSettles`, the fact about `AggregateStatus` it rests on;
* `HandoverTypeCorrect`, `HandoverOwnedGuarded`, `HandoverRunningIsReady`,
  `HandoverReplicasPositive`, `HandoverNothingForgotten`:
  `HandSpec => []P` for `TypeOK`, `OwnedIsGuarded`, `RunningMeansReady`,
  `GroupReplicasPositive`, `NeverForgotten`;
* `HandoverTransitionsTracked`, `HandoverReadyIsTracked`:
  `HandSpec => TransitionTimeTracksStatus`, `HandSpec => ReadyTracksPhase`;
* `RestTypes`, `ScalesKept`, `CreatesOnce`, `DeletesForGood`: `RestSpec => []P` for
  `RestTypeOK`, `NoScaleLost`, `CreatedOnce`, `DeletedStaysDeleted`;
* `ScalesOnly`, `ProfilesReturn`: `RestSpec => OnlyScales`,
  `RestSpec => ProfilesReturnByCreate`, action properties;
* `RestGroupsSound`: `RestSpec => []GroupsSound`; `PodsChangeWithProfile`: `RestSpec => PodsKept`,
  an action property.

Assumptions: the named `ASSUME`s of `PDTypes`, `RBGBuilder`, `Admission`,
`Reconciler` and `RestApi`: the strings the code writes are texts, constants have their types,
and `Nil` is none of the objects it stands in for.

*Type correctness* needs more than types. That an accepted update finds an object
rests on the worker's copy being current, so the inductive invariant `TypeInv` adds
`Delivered` (the last version a watch will deliver is the stored one, so a cache
with nothing left to deliver is up to date) and `CopiesCurrent` (a current copy
agrees with the stored service on uid, finalizer and deletion mark).

*The finalizer protocol.* The worker acts on a cached service that may be gone. The
inductive invariant `GuardInv` says why that is safe: every version that a cache
holds or has yet to see, if it has the finalizer and no deletion mark, is a promise
that the stored service is that one, still with its finalizer (`GuardSeen`). The
step that could break it is `handleDeletion`, the only one to remove a finalizer.
It is accepted only from a current copy, hence with no version undelivered
(`RemovesFromDeleted`), and that copy is marked: no promising version exists any
more. `WorkerServesStored` and `OwnedIsGuarded` are then conjuncts of the invariant,
and `ProvisionsForStored` follows from them for each step. `GuardInv` was checked
with TLC on the `safety` instance before it was proved.

*Statuses and replicas.* These need no ordering argument: `AggregateGood`,
`FailedGood` and `BuildGood` show that aggregation and building give a good result
from any copy, and `GoodInv` carries "good" through every copy of the service: the
stored one, the cache's, the undelivered ones and the worker's, and through the
roles the worker is about to write. The spec's part of it is what the schema
guarantees without any webhook (`AdmittedGood`).

*The Ready condition and its time.* `syncStatus` decides whether to stamp by looking at
its copy, and `setFailedStatus` writes that copy back with another phase. `StampInv` says
that a copy which would be accepted has the stored status, except before a status write,
where it is `Written`: the stored status aggregated, with one correct stamp
(`AggregateTracks`) and a condition that agrees with its phase (`AggregateAgrees`), or the
stored status with the failure (`FailedWrites`). A copy for which that is false is
outdated, and its write a conflict. Both theorems follow from what an accepted write does
(`AcceptedStamped`). That is why `ReadyTracksPhase` is about steps: the contradiction that
`setFailedStatus` leaves behind (`claim_failed_condition`) is excused for the one write
that makes it, and for no later one.

*The refinement.* `LifeInv` adds to `GuardInv` what the mapping needs: the stored
service is the newest incarnation and only a guarded one is marked. `LifeStep` then
shows of every action that it is one step of `Lifecycle` or a stutter; the only hard
case is the creation of the group, where `WorkerServesStored` gives the guarded owner.

*The REST API.* `RestInv` relates what handlers hold to what is stored: a fresh copy is
the stored service (`Holds`), so writing it back with two counts replaced changes
nothing else and undoes nothing. `NoScaleLost` alone is not inductive, because the write
depends on the copy; and it needs that defaulting a stored spec again changes nothing
(`SettledStays`). `HandlerKinds` reduces the handlers to two kinds of steps, a read and
a reply, so that each conjunct is argued once. Answers need only that uids grow and
that an ending service stays so. For profiles `HeldProfiles` says that a PUT which
would be accepted is about a profile that is still there.

*Nothing is forgotten.* Convergence is liveness, but what makes it true is a safety
fact: while a service is stored, some pass of `Reconcile` is queued, delayed, running
or about to be delivered, unless `setFailedStatus` gave the service up. It is not
inductive. A pass may end with nothing left behind in two places, and `WakeInv` says why
both are harmless. One is a marked service without the finalizer, which `Reconcile`
returns on at once: no version that anybody can read is like that (`MarkedGuarded`). The
other is the write of `setFailedStatus`: the worker there holds a Failed status with its
event (`FailsForReason`) and a copy without the mark (`UnmarkedWork`), so an accepted
write leaves a service that is given up and not being deleted, and a mark that came in
between makes the write a conflict. The step that removes the finalizer takes the
service away with it (`RemovesMarked`). `WakeInv` was checked with TLC on the `safety`
instance first.

*What has converged stays.* `Converged` says that group, status, caches and the running
pass agree. Each step of worker, informers, queue, faults and restart is shown to keep
that and to write nothing. The applied roles are those already stored because `Build`
is a function of spec and profile, and the aggregated status is the stored one because
aggregating once more changes nothing (`AggregationSettles`), not even the time stamp.
With `NothingForgotten` this is the safety half of `GroupConverges`, `StatusConverges`
and `Quiesces`: the controller always comes back, and stops once there is nothing to
do. That it gets there is what TLC checks.

*Two managers.* `GuardInv` does not survive a handover: it says that a version with the
finalizer and no mark is a promise, which only the worker that would remove the
finalizer can keep, and there are two of them. `HandGuard` is weaker and enough: a
finalizer that anybody has seen is there for as long as the service of that uid is
(`HeldGuarded`), because `handleDeletion` writes from a marked copy and so removes
finalizer and service together. Hence `OwnedIsGuarded`: when the deposed manager makes a
group for a uid, that uid is either gone or still guarded. `HandType`, `DeposedStamp` and
`DeposedGood` state the other invariants for the second set of copies; the deposed
manager is an `INSTANCE` of the same module, so the lemmas about the operators are shared
and its steps need only what they do to the common store. Since its informers go on, its
caches need an invariant too: `DeposedCaches` says that the last group its watch will
deliver is the stored one, hence that an update accepted from its cache finds a group.

*From requests to pods.* `StoredAdmitted` says that what is stored has passed the
checks of a create, although only creates are checked. A POST stores the very spec that
was validated, after defaulting (`CreateAdmits`); every other step leaves it `Alike`,
that is, equal up to the replicas of prefill and decode, by `OnlyScaled` of
`RestProofs`, and the schema bounds those (`UpdateAdmits`). `AlikeResolve` and
`AlikeBuild` carry this through merger and builder for every profile, and `OneProfileRead`
says that what is built depends on no profile but the one referred to, which gives
`PodsKept`; `AdmittedSound` gives `GroupsSound`.

Only model-checked: everything about liveness, since fairness is out of the prover's
reach: `GroupConverges`, `StatusConverges`, `MissingProfileReported`, `Quiesces`,
`DeletionCompletes`, `FollowsFairLifecycle` and `DeleteFreesGroup`. Every invariant and every action property that a
passing run checks is also a theorem.

## 5. Not modelled

* `status.endpoint`, which no code writes although docs/specs.md:89 promises it;
  `spec.scaling` and `pdRatio` beyond the check of `ValidateCreate`, since nothing
  else reads them.
* Foreground deletion and foreign finalizers.
* What the RBG controller does: it reports any status at any time.
* Response bodies of the REST API, the health endpoint, other namespaces.
* More than one handover in a behaviour, and calls that a deposed manager begins after it
  (see `Handover` in section 2).
* That a REST handler or a shutdown ends: the code gives no deadline to the first, and the
  second ends by the manager's timer whatever the handlers do.
* Generated code, flags, TLS, metrics, probes: no state the program decides on.

## 6. Plan

1. *Done*: the five function modules, `Reconciler`, its runs, the documented claims,
   type correctness, the finalizer protocol and the status properties proved.
2. *Done*: `Lifecycle` and the refinement, checked with fairness and its safety part
   proved; `RestApi` with its handlers, server and faults, its safety proved;
   `Handover`; the claims about updates and reasons; the transition time proved.
3. *Done*: `Handover` proved about; `NeverForgotten` and `StaysConverged` stated, checked
   and proved; `RestPods` with merger and builder behind the REST API, checked and proved.
4. Left: the fields of `Build` against a reference definition (inline wins field by
   field, GPUs in requests and limits alike), and a sharper statement of what a deposed
   manager can still do to a service that is let go.
