-------------------------- MODULE ReconcilerProofs --------------------------
(***************************************************************************)
(* Theorems about Reconciler, for every value of its constants.            *)
(***************************************************************************)
EXTENDS Reconciler, TLAPS, SequenceTheorems

-----------------------------------------------------------------------------
(***************************************************************************)
(* The operators the actions are made of return what their types say.      *)
(***************************************************************************)

\* Defaulting keeps a spec a spec and its profile reference.
LEMMA StoredType ==
    ASSUME NEW spec \in StoredSpecs
    PROVE  Stored(spec) \in StoredSpecs
<1> DEFINE d == SchemaDefault(spec)
<1>1. /\ d \in PDInferenceServiceSpec
      /\ d.engineProfileRef = spec.engineProfileRef
  BY TextAssumption DEF StoredSpecs, PDInferenceServiceSpec, SchemaDefault, EngineTypeSGLang
<1>2. /\ Default(d) \in PDInferenceServiceSpec
      /\ Default(d).engineProfileRef = d.engineProfileRef
  <2> HIDE DEF d
  <2> DEFINE role == d.roles["router"]
             n    == IF role.replicas < 1 THEN 1 ELSE role.replicas
             new  == [role EXCEPT !.replicas = n]
             e    == IF d.engine = "" THEN EngineTypeSGLang ELSE d.engine
  <2>1. d.roles \in [Roles -> RoleSpec] /\ role \in RoleSpec
    BY <1>1 DEF PDInferenceServiceSpec, Roles
  <2>2. n \in Int
    BY <2>1 DEF RoleSpec
  <2>3. e \in Text
    BY <1>1, TextAssumption DEF PDInferenceServiceSpec, EngineTypeSGLang
  <2>4. Default(d) = [d EXCEPT !.engine = e,
                               !.roles = [d.roles EXCEPT !["router"] = new]]
    BY DEF Default
  <2> HIDE DEF n, e
  <2>5. new \in RoleSpec
    BY <2>1, <2>2 DEF RoleSpec
  <2> HIDE DEF new
  <2>6. [d.roles EXCEPT !["router"] = new] \in [Roles -> RoleSpec]
    BY <2>1, <2>5
  <2> QED
    BY <1>1, <2>3, <2>4, <2>6 DEF PDInferenceServiceSpec
<1> QED
  BY <1>1, <1>2 DEF Stored, StoredSpecs

\* A resolvable spec gives a configuration.
LEMMA ResolveType ==
    ASSUME NEW spec \in StoredSpecs, NEW ps \in Profiles, ~ProfileMissing(spec, ps)
    PROVE  Resolve(spec, ps) \in MergedConfig
<1> DEFINE base == IF spec.engineProfileRef = "" THEN EmptyConfig
                   ELSE applyProfile(EmptyConfig, ps[spec.engineProfileRef])
<1>1. EmptyConfig \in MergedConfig
  BY TextAssumption DEF EmptyConfig, MergedConfig
<1>2. base \in MergedConfig
  <2>1. CASE spec.engineProfileRef = ""
    BY <1>1, <2>1
  <2>2. CASE spec.engineProfileRef # ""
    <3>1. ps[spec.engineProfileRef] \in PDEngineProfileSpec
      BY <2>2, SpecsAssumption DEF StoredSpecs, Profiles, ProfileMissing
    <3> QED
      BY <1>1, <2>2, <3>1 DEF applyProfile, MergedConfig, PDEngineProfileSpec
  <2> QED BY <2>1, <2>2
<1>3. \A r \in Roles : spec.roles[r] \in RoleSpec
  BY DEF StoredSpecs, PDInferenceServiceSpec
<1>4. \A r \in Roles : /\ spec.roles[r].image \in Text
                       /\ spec.roles[r].command \in Text
                       /\ spec.roles[r].args \in Text
  BY <1>3 DEF RoleSpec
<1> HIDE DEF base
<1> QED
  BY <1>2, <1>4 DEF Resolve, Override, MergedConfig, base

\* A volume of a spec that builds becomes a volume of the pod.
LEMMA VolumeType ==
    ASSUME NEW spec \in StoredSpecs, ~BuildPanics(spec), NEW v \in spec.volumes
    PROVE  buildVolume(v) \in Volume
<1>1. v \in VolumeSpec
  BY DEF StoredSpecs, PDInferenceServiceSpec
<1>2. CASE v.hostPath # Nil
  BY <1>1, <1>2, TextAssumption DEF VolumeSpec, buildVolume, Volume, HostPath
<1>3. CASE v.hostPath = Nil /\ v.emptyDir # Nil
  <2> DEFINE limit == IF v.emptyDir.sizeLimit = "" THEN Nil
                      ELSE MustParse(v.emptyDir.sizeLimit)
  <2>1. limit \in Text \cup {Nil}
    BY <1>3, QuantityAssumption DEF BuildPanics, Malformed, Parses, MustParse
  <2>2. v.emptyDir.medium \in Text /\ v.name \in Text
    BY <1>1, <1>3 DEF VolumeSpec
  <2>3. [medium |-> v.emptyDir.medium, sizeLimit |-> limit] \in EmptyDir
    BY <2>1, <2>2 DEF EmptyDir
  <2> QED
    BY <1>3, <2>2, <2>3 DEF buildVolume, Volume
<1>4. CASE v.hostPath = Nil /\ v.emptyDir = Nil
  BY <1>1, <1>4 DEF VolumeSpec, buildVolume, Volume, PVC
<1> QED BY <1>2, <1>3, <1>4

\* The resource maps of a spec that builds parse.
LEMMA AmountsType ==
    ASSUME NEW spec \in StoredSpecs, ~BuildPanics(spec), NEW r \in Roles,
           NEW gpu, gpu = "" \/ (r \in InferenceRoles /\ gpu = spec.roles[r].gpu)
    PROVE  /\ buildAmounts(spec.roles[r].requests, gpu) \in Amounts
           /\ buildAmounts(spec.roles[r].limits, gpu) \in Amounts
<1>1. gpu # "" => MustParse(gpu) \in Text
  BY QuantityAssumption DEF BuildPanics, Malformed, Parses, MustParse
<1>2. ASSUME NEW k \in ResourceNames
      PROVE  /\ spec.roles[r].requests[k] # Nil => MustParse(spec.roles[r].requests[k]) \in Text
             /\ spec.roles[r].limits[k] # Nil => MustParse(spec.roles[r].limits[k]) \in Text
  BY QuantityAssumption DEF BuildPanics, Malformed, Parses, MustParse
<1> QED
  BY <1>1, <1>2 DEF buildAmounts, Amounts

\* Defaulting keeps a probe a probe.
LEMMA ProbeType ==
    ASSUME NEW p \in ProbeSpec \cup {Nil}
    PROVE  buildProbe(p) \in ProbeSpec \cup {Nil}
<1>1. CASE p = Nil
  BY <1>1 DEF buildProbe
<1>2. CASE p # Nil
  <2> DEFINE path == IF p.httpPath = "" THEN "/health" ELSE p.httpPath
             port == IF p.port = 0 THEN 8000 ELSE p.port
  <2>1. path \in Text /\ p.timing \in Int
    BY <1>2, TextAssumption DEF ProbeSpec
  <2>2. port \in Int
    BY <1>2 DEF ProbeSpec
  <2>3. buildProbe(p) = [httpPath |-> path, port |-> port, timing |-> p.timing]
    BY <1>2 DEF buildProbe
  <2> HIDE DEF path, port
  <2> QED
    BY <2>1, <2>2, <2>3 DEF ProbeSpec
<1> QED BY <1>1, <1>2

\* A spec that builds gives the roles of a group.
LEMMA BuildType ==
    ASSUME NEW spec \in StoredSpecs, ~BuildPanics(spec), NEW cfg \in MergedConfig
    PROVE  Build(spec, cfg) \in [Roles -> RBGRole]
<1>1. \A r \in Roles : spec.roles[r] \in RoleSpec
  BY DEF StoredSpecs, PDInferenceServiceSpec
<1>2. buildVolumes(spec.volumes) \in SUBSET Volume
  BY VolumeType DEF buildVolumes
<1>3. \A r \in Roles : profileRuntimes(cfg, r) \in Seq(EngineRuntime)
  BY DEF profileRuntimes, MergedConfig
<1>4. ASSUME NEW r \in Roles
      PROVE  /\ cfg.images[r] \in Text /\ cfg.command[r] \in Text /\ cfg.args[r] \in Text
             /\ spec.roles[r].volumeMounts \in SUBSET VolumeMountSpec
             /\ buildProbe(spec.roles[r].readinessProbe) \in ProbeSpec \cup {Nil}
             /\ buildProbe(spec.roles[r].livenessProbe) \in ProbeSpec \cup {Nil}
             /\ spec.roles[r].gpuType \in Text
             /\ spec.roles[r].replicas \in Int
             /\ spec.roles[r].engineRuntimes \in Seq(EngineRuntime)
  BY <1>1, <1>4, ProbeType DEF MergedConfig, RoleSpec
<1>5. buildRouterRole(spec, cfg) \in RBGRole
  <2>1. "router" \in Roles BY DEF Roles
  <2>2. /\ buildAmounts(spec.roles["router"].requests, "") \in Amounts
        /\ buildAmounts(spec.roles["router"].limits, "") \in Amounts
    BY <2>1, AmountsType
  <2>3. (IF spec.roles["router"].replicas < 1 THEN 1 ELSE spec.roles["router"].replicas) \in Int
    BY <1>4, <2>1
  <2> QED
    BY <1>2, <1>3, <1>4, <2>1, <2>2, <2>3, TextAssumption DEF buildRouterRole, RBGRole
<1>6. ASSUME NEW r \in InferenceRoles
      PROVE  buildInferenceRole(r, spec, cfg) \in RBGRole
  <2>1. r \in Roles BY DEF Roles, InferenceRoles
  <2>2. /\ buildAmounts(spec.roles[r].requests, spec.roles[r].gpu) \in Amounts
        /\ buildAmounts(spec.roles[r].limits, spec.roles[r].gpu) \in Amounts
    BY <2>1, AmountsType
  <2>3. resolveEngineRuntimes(spec.roles[r].engineRuntimes, profileRuntimes(cfg, r))
          \in Seq(EngineRuntime)
    BY <1>3, <1>4, <2>1 DEF resolveEngineRuntimes
  <2> QED
    BY <1>2, <1>4, <2>1, <2>2, <2>3, TextAssumption DEF buildInferenceRole, RBGRole
<1> QED
  BY <1>5, <1>6 DEF Build, Roles, InferenceRoles

-----------------------------------------------------------------------------
\* Aggregation keeps a status a status.
LEMMA AggregateType ==
    ASSUME NEW status \in PDInferenceServiceStatus, NEW st,
           st # Nil => st \in RBGStatus, NEW deleting, NEW old
    PROVE  /\ AggregateStatus(status, st, deleting, old) \in PDInferenceServiceStatus
           /\ AggregateStatus(status, st, deleting, old).ready \in Condition
<1> DEFINE phase == computePhase(st, deleting, old)
           roles == IF st = Nil THEN status.roleStatuses ELSE buildRoleStatuses(st)
           mid   == [status EXCEPT !.phase = phase, !.roleStatuses = roles]
<1>1. phase \in Phases
  BY DEF computePhase, Phases, PhasePending, PhaseInitializing, PhaseRunning,
         PhaseFailed, PhaseTerminating
<1>2. roles \in SUBSET RoleStatus
  BY DEF buildRoleStatuses, RBGStatus, RBGRoleStatus, RoleStatus, PDInferenceServiceStatus
<1> HIDE DEF phase, roles
<1>3. mid \in PDInferenceServiceStatus
  BY <1>1, <1>2 DEF PDInferenceServiceStatus
<1> DEFINE new == ReadyStatusOf(mid.phase)
           reason == ReadyReasonOf(mid.phase, mid.lastEvent)
           time == IF mid.ready = Nil THEN 0
                   ELSE IF mid.ready.status # new THEN 1 - mid.ready.lastTransitionTime
                   ELSE mid.ready.lastTransitionTime
<1> HIDE DEF mid
<1>4. new \in ConditionStatuses
  BY DEF ReadyStatusOf, ConditionStatuses
<1>5. reason \in Text
  BY <1>3, TextAssumption DEF ReadyReasonOf, PDInferenceServiceStatus, PhaseInitializing,
     PhasePending, PhaseTerminating
<1>6. time \in {0, 1}
  BY <1>3 DEF PDInferenceServiceStatus, Condition
<1>7. AggregateStatus(status, st, deleting, old)
        = [mid EXCEPT !.ready = [status |-> new, reason |-> reason,
                                 lastTransitionTime |-> time]]
  BY DEF AggregateStatus, setReadyCondition, mid, phase, roles
<1> HIDE DEF new, reason, time
<1> QED
  BY <1>3, <1>4, <1>5, <1>6, <1>7 DEF PDInferenceServiceStatus, Condition

-----------------------------------------------------------------------------
(***************************************************************************)
(* Watches.  What an informer will hold once it has delivered everything   *)
(* is what is stored.                                                      *)
(***************************************************************************)
Latest(cached, watch) == IF watch = <<>> THEN cached ELSE watch[Len(watch)]

\* A write is the last version its watch delivers.
LEMMA AppendLatest ==
    ASSUME NEW S, NEW watch \in Seq(S), NEW new \in S, NEW cached
    PROVE  Append(watch, new) \in Seq(S) /\ Latest(cached, Append(watch, new)) = new
BY DEF Latest

\* Delivering the oldest version does not change the last one.
LEMMA TailLatest ==
    ASSUME NEW S, NEW watch \in Seq(S), watch # <<>>, NEW cached
    PROVE  /\ Head(watch) \in S /\ Tail(watch) \in Seq(S)
           /\ Latest(Head(watch), Tail(watch)) = Latest(cached, watch)
<1>1. /\ Len(watch) \in Nat /\ Len(watch) >= 1
      /\ Head(watch) = watch[1] /\ Head(watch) \in S
  OBVIOUS
<1>2. /\ Tail(watch) \in Seq(S) /\ Len(Tail(watch)) = Len(watch) - 1
      /\ \A i \in 1 .. (Len(watch) - 1) : Tail(watch)[i] = watch[i + 1]
  OBVIOUS
<1>e. /\ Len(<<>>) = 0
      /\ Tail(watch) # <<>> => Len(Tail(watch)) \in Nat \ {0}
  BY <1>2, EmptySeq
<1>3. CASE Len(watch) = 1
  <2>1. Tail(watch) = <<>> BY <1>2, <1>3, <1>e
  <2> QED BY <1>1, <1>2, <1>3, <2>1 DEF Latest
<1>4. CASE Len(watch) > 1
  <2>1. Tail(watch) # <<>> BY <1>1, <1>2, <1>4, <1>e
  <2>2. Tail(watch)[Len(watch) - 1] = watch[Len(watch)]
    BY <1>1, <1>2, <1>4
  <2> QED BY <1>1, <1>2, <2>1, <2>2 DEF Latest
<1> QED BY <1>1, <1>3, <1>4

-----------------------------------------------------------------------------
(***************************************************************************)
(* Type correctness.  It is not inductive by itself: an update the API     *)
(* server accepts changes an object that exists only because the copy the  *)
(* worker holds is current, and that rests on the order of the watches.    *)
(***************************************************************************)
Delivered == Latest(cPDIS, pdisWatch) = pdis /\ Latest(cRBG, rbgWatch) = rbg

CopiesCurrent ==
    /\ wPDISCurrent => /\ pc # "idle" /\ pdis # Nil
                       /\ pdis.uid = wPDIS.uid
                       /\ pdis.finalizer = wPDIS.finalizer
                       /\ pdis.deleting = wPDIS.deleting
    /\ wRBGCurrent => rbg # Nil

TypeInv == TypeOK /\ Delivered /\ CopiesCurrent

\* A write to the service stays typed and is the last version delivered.
LEMMA PutPDISType ==
    ASSUME TypeInv, NEW new \in PDISObject \cup {Nil}, PutPDIS(new)
    PROVE  /\ pdis' \in PDISObject \cup {Nil}
           /\ pdisWatch' \in Seq(PDISObject \cup {Nil})
           /\ Latest(cPDIS, pdisWatch') = pdis'
<1>1. CASE new = pdis
  BY <1>1 DEF PutPDIS, TypeInv, TypeOK, Delivered
<1>2. CASE new # pdis
  <2>1. pdisWatch' = Append(pdisWatch, new) /\ pdis' = new
    BY <1>2 DEF PutPDIS
  <2>2. pdisWatch \in Seq(PDISObject \cup {Nil})
    BY DEF TypeInv, TypeOK
  <2> QED BY <2>1, <2>2, AppendLatest
<1> QED BY <1>1, <1>2

\* So does a write to the group.
LEMMA PutRBGType ==
    ASSUME TypeInv, NEW new \in RBGObject \cup {Nil}, PutRBG(new)
    PROVE  /\ rbg' \in RBGObject \cup {Nil}
           /\ rbgWatch' \in Seq(RBGObject \cup {Nil})
           /\ Latest(cRBG, rbgWatch') = rbg'
<1>1. CASE new = rbg
  BY <1>1 DEF PutRBG, TypeInv, TypeOK, Delivered
<1>2. CASE new # rbg
  <2>1. rbgWatch' = Append(rbgWatch, new) /\ rbg' = new
    BY <1>2 DEF PutRBG
  <2>2. rbgWatch \in Seq(RBGObject \cup {Nil})
    BY DEF TypeInv, TypeOK
  <2> QED BY <2>1, <2>2, AppendLatest
<1> QED BY <1>1, <1>2

EnvOK == /\ uidCount \in 0 .. MaxIncarnations
         /\ agedUpTo \in 0 .. uidCount
         /\ budget \in 0 .. MaxDisturbances

\* A disturbance stays within its bound.
LEMMA DisturbType ==
    ASSUME TypeInv, Disturb
    PROVE  EnvOK'
BY BoundsAssumption DEF TypeInv, TypeOK, Disturb, EnvOK

\* Writes of others keep types and the order of the watches.
LEMMA OthersPutPDISType ==
    ASSUME TypeInv, EnvOK', NEW new \in PDISObject \cup {Nil}, OthersPutPDIS(new)
    PROVE  TypeInv'
<1>1. PutPDIS(new) BY DEF OthersPutPDIS
<1>2. TypeOK'
  BY <1>1, PutPDISType DEF OthersPutPDIS, TypeInv, TypeOK, EnvOK, cacheVars, queueVars
<1>3. Delivered'
  BY <1>1, PutPDISType DEF OthersPutPDIS, TypeInv, Delivered, cacheVars
<1>4. CopiesCurrent'
  BY DEF OthersPutPDIS, PutPDIS, TypeInv, CopiesCurrent
<1> QED BY <1>2, <1>3, <1>4 DEF TypeInv

\* The same for the group.
LEMMA OthersPutRBGType ==
    ASSUME TypeInv, EnvOK', NEW new \in RBGObject \cup {Nil}, OthersPutRBG(new)
    PROVE  TypeInv'
<1>1. PutRBG(new) BY DEF OthersPutRBG
<1>2. TypeOK'
  BY <1>1, PutRBGType DEF OthersPutRBG, TypeInv, TypeOK, EnvOK, cacheVars, queueVars
<1>3. Delivered'
  BY <1>1, PutRBGType DEF OthersPutRBG, TypeInv, Delivered, cacheVars
<1>4. CopiesCurrent'
  BY DEF OthersPutRBG, PutRBG, TypeInv, CopiesCurrent
<1> QED BY <1>2, <1>3, <1>4 DEF TypeInv

\* And for the profiles.
LEMMA OthersPutProfilesType ==
    ASSUME TypeInv, EnvOK', NEW new \in Profiles, OthersPutProfiles(new)
    PROVE  TypeInv'
<1>1. profiles' \in Profiles /\ profileWatch' \in Seq(Profiles)
  <2>1. profileWatch \in Seq(Profiles) BY DEF TypeInv, TypeOK
  <2> QED BY <2>1, AppendLatest DEF OthersPutProfiles, PutProfiles
<1>2. TypeOK'
  BY <1>1 DEF OthersPutProfiles, TypeInv, TypeOK, EnvOK, cacheVars, queueVars, workerVars
<1>3. Delivered' /\ CopiesCurrent'
  BY DEF OthersPutProfiles, TypeInv, Delivered, CopiesCurrent, cacheVars, workerVars
<1> QED BY <1>2, <1>3 DEF TypeInv

\* Users and the rest of the cluster.
LEMMA UsersType == TypeInv /\ Users => TypeInv'
<1> SUFFICES ASSUME TypeInv, Users PROVE TypeInv'
  OBVIOUS
<1>1. ASSUME NEW spec \in ServiceSpecs, CreateService(spec) PROVE TypeInv'
  <2>1. EnvOK'
    BY <1>1, BoundsAssumption DEF CreateService, TypeInv, TypeOK, EnvOK
  <2>2. Stored(spec) \in StoredSpecs
    BY StoredType, SpecsAssumption
  <2>3. NewStatus \in PDInferenceServiceStatus
    BY DEF NewStatus, PDInferenceServiceStatus, Phases
  <2>4. uidCount + 1 \in Nat
    BY BoundsAssumption DEF TypeInv, TypeOK
  <2>5. [uid |-> uidCount + 1, spec |-> Stored(spec), finalizer |-> FALSE,
         deleting |-> FALSE, status |-> NewStatus] \in PDISObject
    BY <2>2, <2>3, <2>4 DEF PDISObject
  <2> QED
    BY <1>1, <2>1, <2>5, OthersPutPDISType DEF CreateService
<1>2. ASSUME NEW spec \in ServiceSpecs, UpdateService(spec) PROVE TypeInv'
  <2>1. Stored(spec) \in StoredSpecs
    BY StoredType, SpecsAssumption
  <2>2. [pdis EXCEPT !.spec = Stored(spec)] \in PDISObject
    BY <1>2, <2>1 DEF UpdateService, PDISObject, TypeInv, TypeOK
  <2> QED
    BY <1>2, <2>2, DisturbType, OthersPutPDISType DEF UpdateService
<1>3. CASE DeleteService
  <2>1. EnvOK' BY <1>3 DEF DeleteService, envVars, EnvOK, TypeInv, TypeOK
  <2>2. [pdis EXCEPT !.deleting = TRUE] \in PDISObject
    BY <1>3 DEF DeleteService, PDISObject, TypeInv, TypeOK
  <2> QED
    BY <1>3, <2>1, <2>2, OthersPutPDISType DEF DeleteService
<1>4. ASSUME NEW name \in ProfileNames, NEW p \in EngineProfiles, SetProfile(name, p)
      PROVE  TypeInv'
  <2>1. [profiles EXCEPT ![name] = p] \in Profiles
    BY DEF TypeInv, TypeOK, Profiles
  <2> QED
    BY <1>4, <2>1, DisturbType, OthersPutProfilesType DEF SetProfile
<1>5. ASSUME NEW name \in ProfileNames, DeleteProfile(name) PROVE TypeInv'
  <2>1. [profiles EXCEPT ![name] = Nil] \in Profiles
    BY DEF TypeInv, TypeOK, Profiles
  <2> QED
    BY <1>5, <2>1, DisturbType, OthersPutProfilesType DEF DeleteProfile
<1> QED
  BY <1>1, <1>2, <1>3, <1>4, <1>5 DEF Users

\* What the rest of the cluster does stays typed.
LEMMA ClusterType == TypeInv /\ Cluster => TypeInv'
<1> SUFFICES ASSUME TypeInv, Cluster PROVE TypeInv'
  OBVIOUS
<1>1. ASSUME NEW st \in RBGStatuses, RBGReportsStatus(st) PROVE TypeInv'
  <2>1. [rbg EXCEPT !.status = st] \in RBGObject
    BY <1>1, SpecsAssumption DEF RBGReportsStatus, RBGObject, TypeInv, TypeOK
  <2> QED
    BY <1>1, <2>1, DisturbType, OthersPutRBGType DEF RBGReportsStatus
<1>2. CASE DeleteRBG
  BY <1>2, DisturbType, OthersPutRBGType DEF DeleteRBG
<1>3. CASE CollectRBG
  <2>1. EnvOK' BY <1>3 DEF CollectRBG, envVars, EnvOK, TypeInv, TypeOK
  <2> QED BY <1>3, <2>1, OthersPutRBGType DEF CollectRBG
<1>4. CASE ServiceAges
  <2>1. TypeOK'
    BY <1>4 DEF ServiceAges, TypeInv, TypeOK, storeVars, watchVars, cacheVars,
       queueVars, workerVars
  <2> QED
    BY <1>4, <2>1 DEF ServiceAges, TypeInv, Delivered, CopiesCurrent, storeVars,
       watchVars, cacheVars, workerVars
<1> QED
  BY <1>1, <1>2, <1>3, <1>4 DEF Cluster

\* A manager that starts holds what is stored.
LEMMA RelistType ==
    ASSUME TypeInv, Relist, EnvOK'
    PROVE  TypeInv'
<1>1. <<>> \in Seq(PDISObject \cup {Nil}) /\ <<>> \in Seq(RBGObject \cup {Nil})
      /\ <<>> \in Seq(Profiles)
  OBVIOUS
<1>2. TypeOK'
  BY <1>1 DEF Relist, TypeInv, TypeOK, EnvOK, Steps, storeVars
<1>3. Delivered' BY DEF Relist, Delivered, Latest, storeVars
<1>4. CopiesCurrent' BY DEF Relist, CopiesCurrent
<1> QED BY <1>2, <1>3, <1>4 DEF TypeInv

\* The informers, the queue and a restart.
LEMMA ManagerType == TypeInv /\ (Manager \/ Restart) => TypeInv'
<1> SUFFICES ASSUME TypeInv, Manager \/ Restart PROVE TypeInv'
  OBVIOUS
<1> USE DEF storeVars, watchVars, cacheVars, queueVars, workerVars, envVars
<1>1. CASE PDISInformer
  <2>1. pdisWatch \in Seq(PDISObject \cup {Nil}) /\ pdisWatch # <<>>
    BY <1>1 DEF PDISInformer, TypeInv, TypeOK
  <2>2. /\ cPDIS' \in PDISObject \cup {Nil} /\ pdisWatch' \in Seq(PDISObject \cup {Nil})
        /\ Latest(cPDIS', pdisWatch') = Latest(cPDIS, pdisWatch)
    BY <1>1, <2>1, TailLatest DEF PDISInformer
  <2>3. TypeOK' BY <1>1, <2>2 DEF PDISInformer, TypeInv, TypeOK
  <2>4. Delivered' BY <1>1, <2>2 DEF PDISInformer, TypeInv, Delivered
  <2>5. CopiesCurrent' BY <1>1 DEF PDISInformer, TypeInv, CopiesCurrent
  <2> QED BY <2>3, <2>4, <2>5 DEF TypeInv
<1>2. CASE RBGInformer
  <2>1. rbgWatch \in Seq(RBGObject \cup {Nil}) /\ rbgWatch # <<>>
    BY <1>2 DEF RBGInformer, TypeInv, TypeOK
  <2>2. /\ cRBG' \in RBGObject \cup {Nil} /\ rbgWatch' \in Seq(RBGObject \cup {Nil})
        /\ Latest(cRBG', rbgWatch') = Latest(cRBG, rbgWatch)
    BY <1>2, <2>1, TailLatest DEF RBGInformer
  <2>3. TypeOK' BY <1>2, <2>2 DEF RBGInformer, TypeInv, TypeOK
  <2>4. Delivered' BY <1>2, <2>2 DEF RBGInformer, TypeInv, Delivered
  <2>5. CopiesCurrent' BY <1>2 DEF RBGInformer, TypeInv, CopiesCurrent
  <2> QED BY <2>3, <2>4, <2>5 DEF TypeInv
<1>3. CASE ProfileInformer
  <2>1. profileWatch \in Seq(Profiles) /\ profileWatch # <<>>
    BY <1>3 DEF ProfileInformer, TypeInv, TypeOK
  <2>2. cProfiles' \in Profiles /\ profileWatch' \in Seq(Profiles)
    BY <1>3, <2>1, TailLatest DEF ProfileInformer
  <2>3. TypeOK' BY <1>3, <2>2 DEF ProfileInformer, TypeInv, TypeOK
  <2>4. Delivered' /\ CopiesCurrent'
    BY <1>3 DEF ProfileInformer, TypeInv, Delivered, CopiesCurrent
  <2> QED BY <2>3, <2>4 DEF TypeInv
<1>4. CASE DelayExpires
  BY <1>4 DEF DelayExpires, TypeInv, TypeOK, Delivered, CopiesCurrent
<1>5. CASE Resync
  BY <1>5 DEF Resync, TypeInv, TypeOK, Delivered, CopiesCurrent
<1>6. CASE Restart
  BY <1>6, DisturbType, RelistType DEF Restart
<1> QED
  BY <1>1, <1>2, <1>3, <1>4, <1>5, <1>6 DEF Manager

-----------------------------------------------------------------------------
(***************************************************************************)
(* The worker.                                                             *)
(***************************************************************************)
StoreOK ==
    /\ pdis \in PDISObject \cup {Nil} /\ rbg \in RBGObject \cup {Nil}
    /\ pdisWatch \in Seq(PDISObject \cup {Nil})
    /\ rbgWatch \in Seq(RBGObject \cup {Nil})
    /\ Delivered

WorkerOK ==
    /\ queue \in BOOLEAN /\ delayed \in BOOLEAN
    /\ pc \in Steps
    /\ wPDIS \in PDISObject \cup {Nil}
    /\ wPDIS = Nil <=> pc = "idle"
    /\ wPDISCurrent \in BOOLEAN /\ wRBGCurrent \in BOOLEAN
    /\ wDesired \in [Roles -> RBGRole] \cup {Nil}
    /\ pc \in {"getRBG", "createRBG", "updateRBG"} => wDesired # Nil
    /\ CopiesCurrent

\* The parts a step of the worker has to keep.
LEMMA WorkerParts ==
    ASSUME TypeInv, StoreOK', WorkerOK', EnvOK',
           UNCHANGED <<profiles, profileWatch, cacheVars>>
    PROVE  TypeInv'
BY DEF TypeInv, TypeOK, StoreOK, WorkerOK, EnvOK, cacheVars

\* The end of Reconcile leaves the worker empty-handed.
LEMMA ReturnType ==
    ASSUME TypeInv, NEW requeue \in BOOLEAN, Return(requeue)
    PROVE  WorkerOK'
BY DEF Return, WorkerOK, TypeInv, TypeOK, Steps, CopiesCurrent

\* Every accepted write keeps what is stored typed and delivered in order.
LEMMA AcceptedType ==
    ASSUME TypeInv, Accepted, UNCHANGED cacheVars
    PROVE  StoreOK'
<1> USE DEF cacheVars
<1>1. ASSUME NEW new \in PDISObject \cup {Nil}, PutPDIS(new), UNCHANGED <<rbg, rbgWatch>>
      PROVE  StoreOK'
  BY <1>1, PutPDISType DEF StoreOK, Delivered, TypeInv, TypeOK
<1>2. ASSUME NEW new \in RBGObject \cup {Nil}, PutRBG(new), UNCHANGED <<pdis, pdisWatch>>
      PROVE  StoreOK'
  BY <1>2, PutRBGType DEF StoreOK, Delivered, TypeInv, TypeOK
<1>3. CASE PutFinalizer
  <2>1. [pdis EXCEPT !.finalizer = TRUE] \in PDISObject
    BY <1>3 DEF PutFinalizer, TypeInv, TypeOK, CopiesCurrent, PDISObject
  <2> QED BY <1>1, <1>3, <2>1 DEF PutFinalizer
<1>4. CASE PutNoFinalizer
  <2>1. [pdis EXCEPT !.finalizer = FALSE] \in PDISObject
    BY <1>4 DEF PutNoFinalizer, TypeInv, TypeOK, CopiesCurrent, PDISObject
  <2> QED BY <1>1, <1>4, <2>1 DEF PutNoFinalizer
<1>5. CASE PutNewRBG
  <2>1. wPDIS \in PDISObject /\ wDesired \in [Roles -> RBGRole]
    BY <1>5 DEF PutNewRBG, TypeInv, TypeOK
  <2>2. NewRBGStatus \in RBGStatus
    BY DEF NewRBGStatus, RBGStatus
  <2>3. [owner |-> wPDIS.uid, roles |-> wDesired, status |-> NewRBGStatus] \in RBGObject
    BY <2>1, <2>2 DEF RBGObject, PDISObject
  <2> QED BY <1>2, <1>5, <2>3 DEF PutNewRBG
<1>6. CASE PutRBGRoles
  <2>1. rbg \in RBGObject /\ wDesired \in [Roles -> RBGRole]
    BY <1>6 DEF PutRBGRoles, TypeInv, TypeOK, CopiesCurrent
  <2>2. [rbg EXCEPT !.roles = wDesired] \in RBGObject
    BY <2>1 DEF RBGObject
  <2> QED BY <1>2, <1>6, <2>2 DEF PutRBGRoles
<1>7. CASE PutStatus
  <2>1. wPDIS \in PDISObject /\ pdis \in PDISObject
    BY <1>7 DEF PutStatus, TypeInv, TypeOK, CopiesCurrent
  <2>2. [pdis EXCEPT !.status = wPDIS.status] \in PDISObject
    BY <2>1 DEF PDISObject
  <2> QED BY <1>1, <1>7, <2>2 DEF PutStatus
<1> QED
  BY <1>3, <1>4, <1>5, <1>6, <1>7 DEF Accepted

\* What is stored stays typed when the worker writes nothing.
LEMMA UnwrittenType ==
    ASSUME TypeInv, UNCHANGED <<storeVars, watchVars, cacheVars>>
    PROVE  StoreOK'
BY DEF TypeInv, TypeOK, StoreOK, Delivered, storeVars, watchVars, cacheVars

\* Every step of Reconcile, and every lost request or reply, stays typed.
LEMMA WorkerType == TypeInv /\ (Worker \/ RequestLost \/ ReplyLost) => TypeInv'
<1> SUFFICES ASSUME TypeInv, Worker \/ RequestLost \/ ReplyLost PROVE TypeInv'
  OBVIOUS
<1>e. ASSUME UNCHANGED <<uidCount, agedUpTo, budget>> PROVE EnvOK'
  BY <1>e DEF TypeInv, TypeOK, EnvOK
<1>1. CASE Reconcile
  <2>1. WorkerOK'
    <3>1. CASE cPDIS = Nil \/ AfterFetch = "idle"
      BY <1>1, <3>1 DEF Reconcile, WorkerOK, TypeInv, TypeOK, CopiesCurrent, workerVars,
         storeVars
    <3>2. CASE ~(cPDIS = Nil \/ AfterFetch = "idle")
      <4>1. /\ pc' = AfterFetch /\ wPDIS' = cPDIS /\ queue' = FALSE
            /\ wPDISCurrent' = (pdisWatch = <<>>)
            /\ UNCHANGED <<wRBGCurrent, wDesired, storeVars, delayed>>
        BY <1>1, <3>2 DEF Reconcile
      <4>2. AfterFetch \in {"removeFinalizer", "resolve", "addFinalizer"}
        BY <3>2 DEF AfterFetch
      <4>3. pdisWatch = <<>> => cPDIS = pdis
        BY DEF TypeInv, Delivered, Latest
      <4>4. wPDISCurrent' \in BOOLEAN /\ CopiesCurrent'
        BY <3>2, <4>1, <4>2, <4>3 DEF CopiesCurrent, TypeInv, storeVars
      <4>5. cPDIS \in PDISObject /\ cPDIS # Nil
        BY <3>2 DEF TypeInv, TypeOK
      <4> QED
        BY <4>1, <4>2, <4>4, <4>5 DEF WorkerOK, TypeInv, TypeOK, Steps, WriteSteps
    <3> QED BY <3>1, <3>2
  <2> QED
    BY <1>1, <1>e, <2>1, UnwrittenType, WorkerParts DEF Reconcile, storeVars, watchVars, envVars
<1>2. CASE ensureFinalizer
  <2>1. StoreOK'
    BY <1>2, AcceptedType DEF ensureFinalizer, Accepted, WorkerLeavesAlone
  <2>2. /\ pc = "addFinalizer" /\ wPDISCurrent /\ pdis' = [pdis EXCEPT !.finalizer = TRUE]
        /\ rbg' = rbg /\ pc' = "resolve" /\ wPDIS' = pdis'
        /\ UNCHANGED <<queueVars, wPDISCurrent, wRBGCurrent, wDesired>>
    BY <1>2 DEF ensureFinalizer, PutFinalizer, PutPDIS, Goto
  <2>3. pdis' \in PDISObject
    BY <2>2 DEF TypeInv, TypeOK, CopiesCurrent, PDISObject
  <2>4. pdis' # Nil /\ CopiesCurrent'
    BY <2>2, <2>3, NilAssumption DEF CopiesCurrent, TypeInv
  <2>5. WorkerOK'
    BY <2>2, <2>3, <2>4 DEF WorkerOK, TypeInv, TypeOK, Steps, queueVars
  <2> QED
    BY <1>2, <1>e, <2>1, <2>5, WorkerParts DEF ensureFinalizer, WorkerLeavesAlone
<1>3. CASE handleDeletion
  BY <1>3, <1>e, AcceptedType, ReturnType, WorkerParts
     DEF handleDeletion, Accepted, WorkerLeavesAlone
<1>4. CASE ResolveAndBuild
  <2>1. wPDIS \in PDISObject /\ wPDIS.spec \in StoredSpecs /\ cProfiles \in Profiles
    BY <1>4 DEF ResolveAndBuild, TypeInv, TypeOK, PDISObject
  <2>2. wDesired' \in [Roles -> RBGRole]
    BY <1>4, <2>1, ResolveType, BuildType DEF ResolveAndBuild
  <2>3. wDesired' # Nil BY <2>2, NilAssumption
  <2>4. WorkerOK'
    BY <1>4, <2>2, <2>3 DEF ResolveAndBuild, Goto, WorkerOK, TypeInv, TypeOK, Steps,
       CopiesCurrent, storeVars, queueVars
  <2> QED
    BY <1>4, <1>e, <2>4, UnwrittenType, WorkerParts DEF ResolveAndBuild, WorkerLeavesAlone,
       storeVars, watchVars
<1>5. CASE ResolveFails
  <2>1. wPDIS \in PDISObject
    BY <1>5 DEF ResolveFails, TypeInv, TypeOK
  <2>2. FailedStatus(wPDIS.status, "ProfileResolveFailed") \in PDInferenceServiceStatus
    BY <2>1, TextAssumption DEF FailedStatus, PDISObject, PDInferenceServiceStatus, Phases,
       PhaseFailed
  <2>3. /\ wPDIS' \in PDISObject /\ wPDIS'.uid = wPDIS.uid
        /\ wPDIS'.finalizer = wPDIS.finalizer /\ wPDIS'.deleting = wPDIS.deleting
    BY <1>5, <2>1, <2>2 DEF ResolveFails, PDISObject
  <2>4. wPDIS' # Nil BY <2>3, NilAssumption
  <2>5. CopiesCurrent'
    BY <1>5, <2>3 DEF ResolveFails, Goto, TypeInv, CopiesCurrent, storeVars
  <2>6. WorkerOK'
    BY <1>5, <2>3, <2>4, <2>5 DEF ResolveFails, Goto, WorkerOK, TypeInv, TypeOK, Steps,
       WriteSteps, queueVars
  <2> QED
    BY <1>5, <1>e, <2>6, UnwrittenType, WorkerParts DEF ResolveFails, WorkerLeavesAlone,
       storeVars, watchVars
<1>6. CASE BuildFails
  BY <1>6, <1>e, UnwrittenType, ReturnType, WorkerParts
     DEF BuildFails, ReturnError, WorkerLeavesAlone, storeVars, watchVars
<1>7. CASE applyRBG
  <2>1. wRBGCurrent' \in BOOLEAN /\ (wRBGCurrent' => rbg' # Nil)
    BY <1>7 DEF applyRBG, TypeInv, Delivered, Latest, storeVars
  <2>2. WorkerOK'
    BY <1>7, <2>1 DEF applyRBG, Goto, WorkerOK, TypeInv, TypeOK, Steps, WriteSteps,
       CopiesCurrent, storeVars, queueVars
  <2> QED
    BY <1>7, <1>e, <2>2, UnwrittenType, WorkerParts DEF applyRBG, WorkerLeavesAlone,
       storeVars, watchVars
<1>8. CASE RBGApplied
  <2>1. StoreOK'
    BY <1>8, AcceptedType DEF RBGApplied, Accepted, WorkerLeavesAlone
  <2>2. UNCHANGED pdis
    BY <1>8 DEF RBGApplied, PutNewRBG, PutRBGRoles
  <2>3. pc # "idle"
    BY <1>8 DEF RBGApplied, PutNewRBG, PutRBGRoles
  <2>4. WorkerOK'
    BY <1>8, <2>2, <2>3 DEF RBGApplied, Goto, WorkerOK, TypeInv, TypeOK, Steps,
       CopiesCurrent, queueVars
  <2> QED
    BY <1>8, <1>e, <2>1, <2>4, WorkerParts DEF RBGApplied, WorkerLeavesAlone
<1>9. CASE syncStatus
  <2>1. wPDIS \in PDISObject
    BY <1>9 DEF syncStatus, TypeInv, TypeOK
  <2> DEFINE st  == IF cRBG = Nil THEN Nil ELSE cRBG.status
             agg == AggregateStatus(wPDIS.status, st, wPDIS.deleting, wPDIS.uid <= agedUpTo)
  <2>2. st # Nil => st \in RBGStatus
    BY DEF TypeInv, TypeOK, RBGObject
  <2>3. wPDIS.status \in PDInferenceServiceStatus
    BY <2>1 DEF PDISObject
  <2>4. wPDIS' = [wPDIS EXCEPT !.status = agg]
    BY <1>9 DEF syncStatus
  <2> HIDE DEF st
  <2>5. agg \in PDInferenceServiceStatus
    BY <2>2, <2>3, AggregateType
  <2> HIDE DEF agg
  <2>6. /\ wPDIS' \in PDISObject /\ wPDIS'.uid = wPDIS.uid
        /\ wPDIS'.finalizer = wPDIS.finalizer /\ wPDIS'.deleting = wPDIS.deleting
    BY <2>1, <2>4, <2>5 DEF PDISObject
  <2>7. wPDIS' # Nil BY <2>6, NilAssumption
  <2>8. CopiesCurrent'
    BY <1>9, <2>6 DEF syncStatus, Goto, TypeInv, CopiesCurrent, storeVars
  <2>9. WorkerOK'
    BY <1>9, <2>6, <2>7, <2>8 DEF syncStatus, Goto, WorkerOK, TypeInv, TypeOK, Steps,
       WriteSteps, queueVars
  <2> QED
    BY <1>9, <1>e, <2>9, UnwrittenType, WorkerParts DEF syncStatus, WorkerLeavesAlone,
       storeVars, watchVars
<1>10. CASE StatusSynced
  BY <1>10, <1>e, AcceptedType, ReturnType, WorkerParts
     DEF StatusSynced, Accepted, WorkerLeavesAlone
<1>11. CASE setFailedStatus
  BY <1>11, <1>e, AcceptedType, ReturnType, WorkerParts
     DEF setFailedStatus, Accepted, WorkerLeavesAlone
<1>12. CASE WriteRejected
  BY <1>12, <1>e, UnwrittenType, ReturnType, WorkerParts
     DEF WriteRejected, ReturnError, WorkerLeavesAlone, storeVars, watchVars
<1>13. CASE RequestLost
  BY <1>13, DisturbType, UnwrittenType, ReturnType, WorkerParts
     DEF RequestLost, ReturnError, storeVars, watchVars
<1>14. CASE ReplyLost
  BY <1>14, DisturbType, AcceptedType, ReturnType, WorkerParts DEF ReplyLost, ReturnError
<1> QED
  BY <1>1, <1>2, <1>3, <1>4, <1>5, <1>6, <1>7, <1>8, <1>9, <1>10, <1>11, <1>12, <1>13,
     <1>14 DEF Worker

-----------------------------------------------------------------------------
\* The initial states are typed.
LEMMA TypeInit == Init => TypeInv
<1> SUFFICES ASSUME Init PROVE TypeInv
  OBVIOUS
<1>1. <<>> \in Seq(PDISObject \cup {Nil}) /\ <<>> \in Seq(RBGObject \cup {Nil})
      /\ <<>> \in Seq(Profiles)
  OBVIOUS
<1>2. EnvOK
  BY BoundsAssumption DEF Init, EnvOK
<1>3. TypeOK
  BY <1>1, <1>2 DEF Init, TypeOK, EnvOK, Steps
<1>4. Delivered /\ CopiesCurrent
  BY DEF Init, Delivered, Latest, CopiesCurrent
<1> QED BY <1>3, <1>4 DEF TypeInv

\* No step of anybody leaves the types.
LEMMA TypeStep == TypeInv /\ [Next]_vars => TypeInv'
<1>1. TypeInv /\ UNCHANGED vars => TypeInv'
  BY DEF TypeInv, TypeOK, Delivered, CopiesCurrent, vars, storeVars, watchVars, cacheVars,
     queueVars, workerVars, envVars
<1> QED
  BY <1>1, UsersType, ClusterType, ManagerType, WorkerType DEF Next, Faults

\* Every reachable state is well typed, whatever interleaving of users, caches,
\* faults and restarts led to it: in particular no accepted write touches an
\* object that does not exist, and a worker between two calls holds nothing.
THEOREM TypeCorrect == Spec => []TypeOK
<1>1. TypeInv => TypeOK
  BY DEF TypeInv
<1> QED
  BY <1>1, TypeInit, TypeStep, PTL DEF Spec

-----------------------------------------------------------------------------
(***************************************************************************)
(* The finalizer protocol.  The worker acts on a cached copy of a service  *)
(* that may be gone by then.  What saves it: only the worker itself takes  *)
(* a finalizer away, from a copy that is current, so that every version    *)
(* the cache holds or has yet to see is then the deleted one.  Hence a     *)
(* version with a finalizer and without a deletion mark, however old, is   *)
(* a promise that the service is still stored (GuardSeen).                 *)
(***************************************************************************)
SeenPDIS == {cPDIS} \cup {pdisWatch[i] : i \in 1 .. Len(pdisWatch)}

UidsUsed ==
    /\ pdis # Nil => pdis.uid <= uidCount
    /\ rbg # Nil => rbg.owner <= uidCount

GuardSeen ==
    \A v \in SeenPDIS :
        v # Nil /\ v.finalizer /\ ~v.deleting =>
            pdis # Nil /\ pdis.uid = v.uid /\ pdis.finalizer

RemovesFromDeleted ==
    pc = "removeFinalizer" =>
        wPDIS.deleting /\ (wPDISCurrent => pdisWatch = <<>>)

GuardInv == UidsUsed /\ GuardSeen /\ RemovesFromDeleted /\ WorkerServesStored
            /\ OwnedIsGuarded

\* A write adds one version to those an informer holds or will deliver.
LEMMA SeenAfterPut ==
    ASSUME TypeInv, NEW new \in PDISObject \cup {Nil}, PutPDIS(new), UNCHANGED cPDIS
    PROVE  SeenPDIS' \subseteq SeenPDIS \cup {new}
<1>1. pdisWatch \in Seq(PDISObject \cup {Nil})
  BY DEF TypeInv, TypeOK
<1>2. CASE new = pdis
  BY <1>2 DEF PutPDIS, SeenPDIS
<1>3. CASE new # pdis
  <2>1. pdisWatch' = Append(pdisWatch, new)
    BY <1>3 DEF PutPDIS
  <2>2. /\ Len(pdisWatch) \in Nat /\ Len(pdisWatch') = Len(pdisWatch) + 1
        /\ \A i \in 1 .. Len(pdisWatch) : pdisWatch'[i] = pdisWatch[i]
        /\ pdisWatch'[Len(pdisWatch) + 1] = new
    BY <1>1, <2>1
  <2>3. ASSUME NEW i \in 1 .. Len(pdisWatch')
        PROVE  pdisWatch'[i] = new \/ pdisWatch'[i] \in SeenPDIS
    <3>1. CASE i = Len(pdisWatch) + 1
      BY <2>2, <3>1
    <3>2. CASE i # Len(pdisWatch) + 1
      <4>1. i \in 1 .. Len(pdisWatch) BY <2>2, <3>2
      <4> QED BY <2>2, <4>1 DEF SeenPDIS
    <3> QED BY <3>1, <3>2
  <2> QED BY <2>3 DEF SeenPDIS
<1> QED BY <1>2, <1>3

\* A delivery adds none.
LEMMA SeenAfterDelivery ==
    ASSUME TypeInv, PDISInformer
    PROVE  SeenPDIS' \subseteq SeenPDIS
<1>1. /\ pdisWatch \in Seq(PDISObject \cup {Nil}) /\ pdisWatch # <<>>
      /\ cPDIS' = Head(pdisWatch) /\ pdisWatch' = Tail(pdisWatch)
  BY DEF TypeInv, TypeOK, PDISInformer
<1>2. Len(pdisWatch) \in Nat /\ Len(pdisWatch) >= 1 /\ cPDIS' = pdisWatch[1]
  BY <1>1
<1>3. /\ Len(pdisWatch') = Len(pdisWatch) - 1
      /\ \A i \in 1 .. (Len(pdisWatch) - 1) : pdisWatch'[i] = pdisWatch[i + 1]
  BY <1>1
<1>4. ASSUME NEW i \in 1 .. Len(pdisWatch') PROVE pdisWatch'[i] \in SeenPDIS
  <2>1. i + 1 \in 1 .. Len(pdisWatch) /\ pdisWatch'[i] = pdisWatch[i + 1]
    BY <1>2, <1>3
  <2> QED BY <2>1 DEF SeenPDIS
<1>5. cPDIS' \in SeenPDIS
  <2>1. 1 \in 1 .. Len(pdisWatch) BY <1>2
  <2> QED BY <1>2, <2>1 DEF SeenPDIS
<1> QED BY <1>4, <1>5 DEF SeenPDIS

\* A manager that starts sees what is stored and nothing else.
LEMMA SeenAfterRelist ==
    ASSUME Relist
    PROVE  SeenPDIS' = {pdis} /\ pdis' = pdis
<1>1. cPDIS' = pdis /\ Len(pdisWatch') = 0 /\ pdis' = pdis
  BY DEF Relist, storeVars
<1> QED BY <1>1 DEF SeenPDIS

\* A write that keeps uid and finalizer keeps every promise, whoever does it.
LEMMA GuardKept ==
    ASSUME TypeInv, GuardInv, NEW new \in PDISObject, PutPDIS(new), UNCHANGED cPDIS,
           pdis # Nil, new.uid = pdis.uid, pdis.finalizer => new.finalizer
    PROVE  GuardSeen' /\ pdis' # Nil /\ pdis'.uid = pdis.uid
           /\ (pdis.finalizer => pdis'.finalizer)
<1>1. pdis' = new /\ new # Nil
  BY NilAssumption DEF PutPDIS
<1>2. SeenPDIS' \subseteq SeenPDIS \cup {new}
  BY SeenAfterPut
<1> QED
  BY <1>1, <1>2 DEF GuardInv, GuardSeen

\* A deletion without a finalizer breaks no promise: nobody has seen one.
LEMMA GuardDropped ==
    ASSUME TypeInv, GuardInv, PutPDIS(Nil), UNCHANGED cPDIS,
           \A v \in SeenPDIS : ~(v # Nil /\ v.finalizer /\ ~v.deleting)
    PROVE  GuardSeen' /\ pdis' = Nil
<1>1. SeenPDIS' \subseteq SeenPDIS \cup {Nil}
  BY SeenAfterPut
<1> QED
  BY <1>1 DEF GuardSeen, PutPDIS

-----------------------------------------------------------------------------
\* Users keep the promises: a delete of a guarded service only marks it.
LEMMA GuardUsers == TypeInv /\ GuardInv /\ Users => GuardInv'
<1> SUFFICES ASSUME TypeInv, GuardInv, Users PROVE GuardInv'
  OBVIOUS
<1> USE DEF cacheVars
<1>o. ASSUME NEW new, OthersPutPDIS(new)
      PROVE  /\ PutPDIS(new) /\ UNCHANGED <<cPDIS, rbg, pc, wPDIS>> /\ pdis' = new
             /\ RemovesFromDeleted'
  BY <1>o DEF OthersPutPDIS, PutPDIS, GuardInv, RemovesFromDeleted
<1>k. ASSUME NEW new \in PDISObject, OthersPutPDIS(new), UNCHANGED uidCount, pdis # Nil,
             new.uid = pdis.uid, new.finalizer = pdis.finalizer
      PROVE  GuardInv'
  <2>1. GuardSeen' /\ pdis' # Nil /\ pdis'.uid = pdis.uid
        /\ (pdis.finalizer => pdis'.finalizer)
    BY <1>k, <1>o, GuardKept
  <2> QED
    BY <1>k, <1>o, <2>1 DEF GuardInv, UidsUsed, WorkerServesStored, OwnedIsGuarded
<1>1. ASSUME NEW spec \in ServiceSpecs, CreateService(spec) PROVE GuardInv'
  <2> DEFINE new == [uid |-> uidCount + 1, spec |-> Stored(spec), finalizer |-> FALSE,
                     deleting |-> FALSE, status |-> NewStatus]
  <2>1. pdis = Nil /\ OthersPutPDIS(new) /\ uidCount' = uidCount + 1
    BY <1>1 DEF CreateService
  <2>2. new.uid = uidCount + 1 /\ ~new.finalizer
    OBVIOUS
  <2>3. pdis' \in PDISObject \cup {Nil} /\ uidCount \in Nat /\ (rbg # Nil => rbg.owner \in Nat)
    <3>1. TypeInv' BY UsersType
    <3> QED BY <3>1, BoundsAssumption DEF TypeInv, TypeOK, RBGObject
  <2> HIDE DEF new
  <2>4. PutPDIS(new) /\ UNCHANGED <<cPDIS, rbg, pc, wPDIS>> /\ pdis' = new
        /\ RemovesFromDeleted'
    BY <1>o, <2>1
  <2>5. SeenPDIS' \subseteq SeenPDIS \cup {new}
    BY <2>3, <2>4, SeenAfterPut
  <2>6. GuardSeen'
    BY <2>1, <2>2, <2>5 DEF GuardInv, GuardSeen
  <2>7. WorkerServesStored'
    BY <2>1, <2>4 DEF GuardInv, WorkerServesStored
  <2>8. UidsUsed' /\ OwnedIsGuarded'
    BY <2>1, <2>2, <2>3, <2>4 DEF GuardInv, UidsUsed, OwnedIsGuarded
  <2> QED BY <2>4, <2>6, <2>7, <2>8 DEF GuardInv
<1>2. ASSUME NEW spec \in ServiceSpecs, UpdateService(spec) PROVE GuardInv'
  <2>1. Stored(spec) \in StoredSpecs
    BY StoredType, SpecsAssumption
  <2>2. /\ [pdis EXCEPT !.spec = Stored(spec)] \in PDISObject
        /\ [pdis EXCEPT !.spec = Stored(spec)].uid = pdis.uid
        /\ [pdis EXCEPT !.spec = Stored(spec)].finalizer = pdis.finalizer
    BY <1>2, <2>1 DEF UpdateService, PDISObject, TypeInv, TypeOK
  <2> QED
    BY <1>2, <1>k, <2>2 DEF UpdateService, Disturb
<1>3. CASE DeleteService
  <2>1. CASE pdis.finalizer
    <3>1. /\ [pdis EXCEPT !.deleting = TRUE] \in PDISObject
          /\ [pdis EXCEPT !.deleting = TRUE].uid = pdis.uid
          /\ [pdis EXCEPT !.deleting = TRUE].finalizer = pdis.finalizer
      BY <1>3 DEF DeleteService, PDISObject, TypeInv, TypeOK
    <3> QED
      BY <1>3, <1>k, <2>1, <3>1 DEF DeleteService, envVars
  <2>2. CASE ~pdis.finalizer
    <3>1. OthersPutPDIS(Nil) /\ pdis # Nil /\ UNCHANGED uidCount
      BY <1>3, <2>2 DEF DeleteService, envVars
    <3>2. PutPDIS(Nil) /\ UNCHANGED <<cPDIS, rbg, pc, wPDIS>> /\ RemovesFromDeleted'
      BY <1>o, <3>1
    <3>3. GuardSeen' /\ pdis' = Nil
      BY <2>2, <3>2, GuardDropped DEF GuardInv, GuardSeen
    <3>4. WorkerServesStored'
      BY <2>2, <3>2 DEF GuardInv, WorkerServesStored
    <3> QED
      BY <3>1, <3>2, <3>3, <3>4 DEF GuardInv, UidsUsed, OwnedIsGuarded
  <2> QED BY <2>1, <2>2
<1>4. ASSUME NEW name, NEW p, SetProfile(name, p) \/ DeleteProfile(name) PROVE GuardInv'
  BY <1>4 DEF SetProfile, DeleteProfile, OthersPutProfiles, Disturb, workerVars, GuardInv,
     UidsUsed, GuardSeen, SeenPDIS, RemovesFromDeleted, WorkerServesStored, OwnedIsGuarded
<1> QED
  BY <1>1, <1>2, <1>3, <1>4 DEF Users

\* The RoleBasedGroup controller and the garbage collector keep them.
LEMMA GuardCluster == TypeInv /\ GuardInv /\ Cluster => GuardInv'
<1> SUFFICES ASSUME TypeInv, GuardInv, Cluster PROVE GuardInv'
  OBVIOUS
<1> USE DEF cacheVars
<1>o. ASSUME NEW new, OthersPutRBG(new), UNCHANGED uidCount,
             new # Nil => rbg # Nil /\ new.owner = rbg.owner
      PROVE  GuardInv'
  BY <1>o DEF OthersPutRBG, PutRBG, GuardInv, UidsUsed, GuardSeen, SeenPDIS,
     RemovesFromDeleted, WorkerServesStored, OwnedIsGuarded
<1>1. ASSUME NEW st \in RBGStatuses, RBGReportsStatus(st) PROVE GuardInv'
  <2>1. [rbg EXCEPT !.status = st].owner = rbg.owner
    BY <1>1 DEF RBGReportsStatus, RBGObject, TypeInv, TypeOK
  <2> QED BY <1>1, <1>o, <2>1 DEF RBGReportsStatus, Disturb
<1>2. CASE DeleteRBG
  BY <1>2, <1>o DEF DeleteRBG, Disturb
<1>3. CASE CollectRBG
  BY <1>3, <1>o DEF CollectRBG, envVars
<1>4. CASE ServiceAges
  BY <1>4 DEF ServiceAges, storeVars, watchVars, workerVars, GuardInv, UidsUsed, GuardSeen,
     SeenPDIS, RemovesFromDeleted, WorkerServesStored, OwnedIsGuarded
<1> QED
  BY <1>1, <1>2, <1>3, <1>4 DEF Cluster

\* Deliveries and a restart keep them: they make no new version.
LEMMA GuardManager == TypeInv /\ GuardInv /\ (Manager \/ Restart) => GuardInv'
<1> SUFFICES ASSUME TypeInv, GuardInv, Manager \/ Restart PROVE GuardInv'
  OBVIOUS
<1> USE DEF storeVars, watchVars, cacheVars, queueVars, workerVars, envVars
<1>1. CASE PDISInformer
  <2>1. SeenPDIS' \subseteq SeenPDIS
    BY <1>1, SeenAfterDelivery
  <2>2. GuardSeen'
    BY <1>1, <2>1 DEF PDISInformer, GuardInv, GuardSeen
  <2>3. RemovesFromDeleted'
    BY <1>1 DEF PDISInformer, GuardInv, RemovesFromDeleted
  <2> QED
    BY <1>1, <2>2, <2>3 DEF PDISInformer, GuardInv, UidsUsed, WorkerServesStored,
       OwnedIsGuarded
<1>2. CASE RBGInformer \/ ProfileInformer \/ DelayExpires \/ Resync
  BY <1>2 DEF RBGInformer, ProfileInformer, DelayExpires, Resync, GuardInv, UidsUsed,
     GuardSeen, SeenPDIS, RemovesFromDeleted, WorkerServesStored, OwnedIsGuarded
<1>3. CASE Restart
  <2>1. SeenPDIS' = {pdis}
    BY <1>3, SeenAfterRelist DEF Restart
  <2>2. GuardSeen'
    BY <1>3, <2>1 DEF Restart, Relist, GuardSeen
  <2> QED
    BY <1>3, <2>2 DEF Restart, Relist, Disturb, GuardInv, UidsUsed, RemovesFromDeleted,
       WorkerServesStored, OwnedIsGuarded
<1> QED
  BY <1>1, <1>2, <1>3 DEF Manager

\* What an accepted write of the worker does to the promises.  The one that
\* takes the finalizer away has read the latest version, marked for deletion.
LEMMA GuardAccepted ==
    ASSUME TypeInv, GuardInv, Accepted, UNCHANGED <<cPDIS, uidCount>>
    PROVE  /\ UidsUsed' /\ GuardSeen' /\ OwnedIsGuarded'
           /\ pc # "removeFinalizer" =>
                /\ pdis # Nil => pdis' # Nil /\ pdis'.uid = pdis.uid
                                 /\ (pdis.finalizer => pdis'.finalizer)
<1>k. ASSUME NEW new \in PDISObject, PutPDIS(new), UNCHANGED rbg, pdis # Nil,
             new.uid = pdis.uid, pdis.finalizer => new.finalizer
      PROVE  /\ UidsUsed' /\ GuardSeen' /\ OwnedIsGuarded'
             /\ pdis' # Nil /\ pdis'.uid = pdis.uid /\ (pdis.finalizer => pdis'.finalizer)
  BY <1>k, GuardKept DEF GuardInv, UidsUsed, OwnedIsGuarded
<1>1. CASE PutFinalizer
  <2>1. pdis \in PDISObject /\ pdis # Nil
    BY <1>1 DEF PutFinalizer, TypeInv, TypeOK, CopiesCurrent
  <2>2. /\ [pdis EXCEPT !.finalizer = TRUE] \in PDISObject
        /\ [pdis EXCEPT !.finalizer = TRUE].uid = pdis.uid
        /\ [pdis EXCEPT !.finalizer = TRUE].finalizer
    BY <2>1 DEF PDISObject
  <2> QED BY <1>1, <1>k, <2>1, <2>2 DEF PutFinalizer
<1>2. CASE PutNoFinalizer
  <2>1. pdis.deleting /\ pdisWatch = <<>> /\ pc = "removeFinalizer"
    BY <1>2 DEF PutNoFinalizer, GuardInv, RemovesFromDeleted, TypeInv, CopiesCurrent
  <2>2. PutPDIS(Nil) /\ UNCHANGED rbg
    BY <1>2, <2>1 DEF PutNoFinalizer
  <2>3. cPDIS = pdis
    BY <2>1 DEF TypeInv, Delivered, Latest
  <2>4. \A v \in SeenPDIS : v = pdis
    <3>1. Len(pdisWatch) = 0 BY <2>1
    <3> QED BY <2>3, <3>1 DEF SeenPDIS
  <2>5. GuardSeen' /\ pdis' = Nil
    BY <2>1, <2>2, <2>4, GuardDropped
  <2> QED
    BY <2>1, <2>2, <2>5 DEF GuardInv, UidsUsed, OwnedIsGuarded
<1>3. CASE PutNewRBG
  <2>1. pdis # Nil /\ pdis.uid = wPDIS.uid /\ pdis.finalizer
    BY <1>3 DEF PutNewRBG, GuardInv, WorkerServesStored
  <2>2. rbg'.owner = wPDIS.uid /\ UNCHANGED <<pdis, pdisWatch>>
    BY <1>3 DEF PutNewRBG, PutRBG
  <2> QED
    BY <2>1, <2>2 DEF GuardInv, UidsUsed, GuardSeen, SeenPDIS, OwnedIsGuarded
<1>4. CASE PutRBGRoles
  <2>1. rbg \in RBGObject /\ rbg # Nil
    BY <1>4 DEF PutRBGRoles, TypeInv, TypeOK, CopiesCurrent
  <2>2. rbg'.owner = rbg.owner /\ UNCHANGED <<pdis, pdisWatch>>
    BY <1>4, <2>1 DEF PutRBGRoles, PutRBG, RBGObject
  <2> QED
    BY <2>1, <2>2 DEF GuardInv, UidsUsed, GuardSeen, SeenPDIS, OwnedIsGuarded
<1>5. CASE PutStatus
  <2>1. pdis \in PDISObject /\ pdis # Nil /\ wPDIS \in PDISObject
    BY <1>5 DEF PutStatus, TypeInv, TypeOK, CopiesCurrent
  <2>2. /\ [pdis EXCEPT !.status = wPDIS.status] \in PDISObject
        /\ [pdis EXCEPT !.status = wPDIS.status].uid = pdis.uid
        /\ [pdis EXCEPT !.status = wPDIS.status].finalizer = pdis.finalizer
    BY <2>1 DEF PDISObject
  <2> QED BY <1>5, <1>k, <2>1, <2>2 DEF PutStatus
<1> QED
  BY <1>1, <1>2, <1>3, <1>4, <1>5 DEF Accepted

\* A worker that has ended its call promises nothing, one that goes on within
\* the guarded part keeps what it had.
LEMMA GuardIdle ==
    ASSUME NEW requeue, Return(requeue)
    PROVE  RemovesFromDeleted' /\ WorkerServesStored'
BY DEF Return, RemovesFromDeleted, WorkerServesStored

\* The worker's own steps and lost replies keep the promises.
LEMMA GuardWorker ==
    TypeInv /\ GuardInv /\ (Worker \/ RequestLost \/ ReplyLost) => GuardInv'
<1> SUFFICES ASSUME TypeInv, GuardInv, Worker \/ RequestLost \/ ReplyLost PROVE GuardInv'
  OBVIOUS
<1> USE DEF cacheVars
<1>u. ASSUME UNCHANGED <<pdis, rbg, pdisWatch, cPDIS, uidCount>>
      PROVE  UidsUsed' /\ GuardSeen' /\ OwnedIsGuarded'
  BY <1>u DEF GuardInv, UidsUsed, GuardSeen, SeenPDIS, OwnedIsGuarded
<1>g. ASSUME pc \in {"resolve", "getRBG", "syncStatus"}, wPDIS'.uid = wPDIS.uid,
             pc' # "removeFinalizer", UNCHANGED <<pdis, rbg, pdisWatch, cPDIS, uidCount>>
      PROVE  GuardInv'
  BY <1>g, <1>u DEF GuardInv, RemovesFromDeleted, WorkerServesStored
<1>s. ASSUME NEW st, wPDIS \in PDISObject, wPDIS' = [wPDIS EXCEPT !.status = st]
      PROVE  wPDIS'.uid = wPDIS.uid
  BY <1>s DEF PDISObject
<1>1. CASE Reconcile
  <2>1. UidsUsed' /\ GuardSeen' /\ OwnedIsGuarded'
    BY <1>1, <1>u DEF Reconcile, storeVars, watchVars, envVars
  <2>2. CASE cPDIS = Nil \/ AfterFetch = "idle"
    BY <1>1, <2>1, <2>2 DEF Reconcile, workerVars, storeVars, watchVars, GuardInv,
       RemovesFromDeleted, WorkerServesStored
  <2>3. CASE ~(cPDIS = Nil \/ AfterFetch = "idle")
    <3>1. /\ pc' = AfterFetch /\ wPDIS' = cPDIS /\ wPDISCurrent' = (pdisWatch = <<>>)
          /\ UNCHANGED <<pdis, pdisWatch>>
      BY <1>1, <2>3 DEF Reconcile, storeVars, watchVars
    <3>2. RemovesFromDeleted'
      BY <2>3, <3>1 DEF AfterFetch, RemovesFromDeleted
    <3>3. WorkerServesStored'
      <4>1. cPDIS \in SeenPDIS BY DEF SeenPDIS
      <4> QED
        BY <2>3, <3>1, <4>1 DEF AfterFetch, WorkerServesStored, GuardInv, GuardSeen
    <3> QED BY <2>1, <3>2, <3>3 DEF GuardInv
  <2> QED BY <2>2, <2>3
<1>2. CASE ensureFinalizer
  <2>1. UidsUsed' /\ GuardSeen' /\ OwnedIsGuarded'
    BY <1>2, GuardAccepted DEF ensureFinalizer, Accepted, WorkerLeavesAlone
  <2>2. pdis \in PDISObject /\ pdis' = [pdis EXCEPT !.finalizer = TRUE]
    BY <1>2 DEF ensureFinalizer, PutFinalizer, PutPDIS, TypeInv, TypeOK, CopiesCurrent
  <2>3. pdis' \in PDISObject /\ pdis'.finalizer
    BY <2>2 DEF PDISObject
  <2>4. pdis' # Nil /\ pc' = "resolve" /\ wPDIS' = pdis'
    BY <1>2, <2>3, NilAssumption DEF ensureFinalizer, Goto
  <2> QED BY <2>1, <2>3, <2>4 DEF GuardInv, RemovesFromDeleted, WorkerServesStored
<1>3. CASE handleDeletion
  BY <1>3, GuardAccepted, GuardIdle
     DEF handleDeletion, Accepted, WorkerLeavesAlone, GuardInv
<1>4. CASE ResolveAndBuild
  BY <1>4, <1>g DEF ResolveAndBuild, Goto, WorkerLeavesAlone, storeVars, watchVars
<1>5. CASE ResolveFails
  <2>1. wPDIS'.uid = wPDIS.uid
    BY <1>5, <1>s DEF ResolveFails, TypeInv, TypeOK
  <2> QED
    BY <1>5, <1>g, <2>1 DEF ResolveFails, Goto, WorkerLeavesAlone, storeVars, watchVars
<1>6. CASE BuildFails
  BY <1>6, <1>u, GuardIdle DEF BuildFails, ReturnError, WorkerLeavesAlone, storeVars,
     watchVars, GuardInv
<1>7. CASE applyRBG
  BY <1>7, <1>g DEF applyRBG, Goto, WorkerLeavesAlone, storeVars, watchVars
<1>8. CASE RBGApplied
  <2>1. UidsUsed' /\ GuardSeen' /\ OwnedIsGuarded'
    BY <1>8, GuardAccepted DEF RBGApplied, Accepted, WorkerLeavesAlone
  <2>2. UNCHANGED <<pdis, wPDIS>> /\ pc \in {"createRBG", "updateRBG"} /\ pc' = "syncStatus"
    BY <1>8 DEF RBGApplied, PutNewRBG, PutRBGRoles, Goto
  <2> QED BY <2>1, <2>2 DEF GuardInv, RemovesFromDeleted, WorkerServesStored
<1>9. CASE syncStatus
  <2>1. wPDIS'.uid = wPDIS.uid
    BY <1>9, <1>s DEF syncStatus, TypeInv, TypeOK
  <2> QED
    BY <1>9, <1>g, <2>1 DEF syncStatus, Goto, WorkerLeavesAlone, storeVars, watchVars
<1>10. CASE StatusSynced \/ setFailedStatus
  BY <1>10, GuardAccepted, GuardIdle
     DEF StatusSynced, setFailedStatus, Accepted, WorkerLeavesAlone, GuardInv
<1>11. CASE WriteRejected
  BY <1>11, <1>u, GuardIdle DEF WriteRejected, ReturnError, WorkerLeavesAlone, storeVars,
     watchVars, GuardInv
<1>12. CASE RequestLost
  BY <1>12, <1>u, GuardIdle DEF RequestLost, ReturnError, Disturb, storeVars, watchVars,
     GuardInv
<1>13. CASE ReplyLost
  BY <1>13, GuardAccepted, GuardIdle DEF ReplyLost, ReturnError, Disturb, GuardInv
<1> QED
  BY <1>1, <1>2, <1>3, <1>4, <1>5, <1>6, <1>7, <1>8, <1>9, <1>10, <1>11, <1>12, <1>13
     DEF Worker

-----------------------------------------------------------------------------
\* Nothing is promised before anything is stored.
LEMMA GuardInit == Init => GuardInv
<1> SUFFICES ASSUME Init PROVE GuardInv
  OBVIOUS
<1>1. SeenPDIS = {Nil}
  <2>1. Len(pdisWatch) = 0 /\ cPDIS = Nil BY DEF Init
  <2> QED BY <2>1 DEF SeenPDIS
<1> QED
  BY <1>1 DEF Init, GuardInv, UidsUsed, GuardSeen, RemovesFromDeleted, WorkerServesStored,
     OwnedIsGuarded

\* No step of anybody breaks a promise.
LEMMA GuardStep == TypeInv /\ GuardInv /\ [Next]_vars => GuardInv'
<1>1. TypeInv /\ GuardInv /\ UNCHANGED vars => GuardInv'
  BY DEF GuardInv, UidsUsed, GuardSeen, SeenPDIS, RemovesFromDeleted, WorkerServesStored,
     OwnedIsGuarded, vars, storeVars, watchVars, cacheVars, workerVars, envVars
<1> QED
  BY <1>1, GuardUsers, GuardCluster, GuardManager, GuardWorker DEF Next, Faults

\* The two invariants together, on which the theorems below rest.
LEMMA GuardHolds == Spec => [](TypeInv /\ GuardInv)
BY TypeInit, TypeStep, GuardInit, GuardStep, PTL DEF Spec

\* Reconcile never works for a service that is gone: whatever the caches lag
\* behind, the service it holds after ensureFinalizer is stored under its uid.
THEOREM ServesStored == Spec => []WorkerServesStored
<1>1. GuardInv => WorkerServesStored
  BY DEF GuardInv
<1> QED BY <1>1, GuardHolds, PTL

\* A group that the stored service owns is guarded by its finalizer.
THEOREM OwnedGuarded == Spec => []OwnedIsGuarded
<1>1. GuardInv => OwnedIsGuarded
  BY DEF GuardInv
<1> QED BY <1>1, GuardHolds, PTL

\* No step of anybody creates a group whose owner is not stored: not applyRBG
\* with a stale copy, and not a create whose reply was lost.
THEOREM ProvisionsStored == Spec => ProvisionsForStored
<1> DEFINE Provision == rbg = Nil /\ rbg' # Nil =>
                            pdis # Nil /\ pdis.uid = rbg'.owner /\ pdis.finalizer
<1>1. ASSUME GuardInv, PutNewRBG PROVE Provision
  BY <1>1 DEF PutNewRBG, PutRBG, GuardInv, WorkerServesStored
<1>2. TypeInv /\ Accepted => UNCHANGED rbg \/ PutNewRBG \/ rbg # Nil
  BY DEF Accepted, PutFinalizer, PutNoFinalizer, PutRBGRoles, PutStatus, TypeInv,
     CopiesCurrent
<1>3. ASSUME TypeInv, GuardInv, Worker \/ RequestLost \/ ReplyLost PROVE Provision
  <2>1. Accepted \/ UNCHANGED rbg
    BY <1>3 DEF Worker, Reconcile, ensureFinalizer, handleDeletion, ResolveAndBuild,
       ResolveFails, BuildFails, applyRBG, RBGApplied, syncStatus, StatusSynced,
       setFailedStatus, WriteRejected, RequestLost, ReplyLost, Accepted, storeVars
  <2> QED BY <1>1, <1>2, <1>3, <2>1
<1>4. Users \/ Cluster \/ Manager \/ Restart \/ UNCHANGED vars => rbg = rbg' \/ rbg # Nil
  BY DEF Users, CreateService, UpdateService, DeleteService, SetProfile, DeleteProfile,
     OthersPutPDIS, OthersPutProfiles, Cluster, RBGReportsStatus, DeleteRBG, CollectRBG,
     ServiceAges, Manager, PDISInformer, RBGInformer, ProfileInformer, DelayExpires, Resync,
     Restart, Relist, vars, storeVars
<1>5. TypeInv /\ GuardInv /\ [Next]_vars => [Provision]_vars
  BY <1>3, <1>4 DEF Next, Faults
<1> QED BY <1>5, GuardHolds, PTL DEF Spec, ProvisionsForStored
=============================================================================
