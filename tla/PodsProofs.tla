----------------------------- MODULE PodsProofs -----------------------------
(***************************************************************************)
(* Theorems about RestPods: the pods of a service stored through the REST  *)
(* API, for every set of clients, requests and profiles and every bound.   *)
(***************************************************************************)
EXTENDS RestPods, RestProofs

-----------------------------------------------------------------------------
(***************************************************************************)
(* Specs that differ in the replicas of the inference roles only.          *)
(***************************************************************************)
Alike(s, t) ==
    /\ t.volumes = s.volumes /\ t.engineProfileRef = s.engineProfileRef
    /\ t.roles["router"] = s.roles["router"]
    /\ \A r \in InferenceRoles :
          t.roles[r] = [s.roles[r] EXCEPT !.replicas = t.roles[r].replicas]

\* A spec that is another one scaled is alike.
LEMMA ScaledAlike ==
    ASSUME NEW s \in PDInferenceServiceSpec, NEW t \in PDInferenceServiceSpec,
           t = Scaled(s, [replicas |-> [r \in InferenceRoles |-> t.roles[r].replicas]])
    PROVE  Alike(s, t)
<1> DEFINE n  == [r \in InferenceRoles |-> t.roles[r].replicas]
           rs == [r \in Roles |->
                    IF r \in InferenceRoles /\ n[r] # Nil
                    THEN [s.roles[r] EXCEPT !.replicas = n[r]]
                    ELSE s.roles[r]]
<1>1. \A r \in InferenceRoles : r \in Roles /\ n[r] # Nil /\ n[r] = t.roles[r].replicas
  BY RestNilAssumption DEF PDInferenceServiceSpec, RoleSpec, Roles, InferenceRoles
<1>2. t = [s EXCEPT !.roles = rs]
  BY DEF Scaled
<1>3. t.volumes = s.volumes /\ t.engineProfileRef = s.engineProfileRef /\ t.roles = rs
  <2> HIDE DEF rs
  <2> QED BY <1>2 DEF PDInferenceServiceSpec
<1>4. \A r \in InferenceRoles : rs[r] = [s.roles[r] EXCEPT !.replicas = t.roles[r].replicas]
  <2> HIDE DEF n
  <2> QED BY <1>1
<1>5. rs["router"] = s.roles["router"]
  BY DEF Roles, InferenceRoles
<1> HIDE DEF rs
<1> QED
  BY <1>3, <1>4, <1>5 DEF Alike

\* Fields other than the replicas are the same in alike specs.
LEMMA AlikeRoles ==
    ASSUME NEW s \in PDInferenceServiceSpec, NEW t \in PDInferenceServiceSpec, Alike(s, t),
           NEW r \in Roles
    PROVE  /\ t.roles[r].image = s.roles[r].image
           /\ t.roles[r].command = s.roles[r].command
           /\ t.roles[r].args = s.roles[r].args
           /\ t.roles[r].requests = s.roles[r].requests
           /\ t.roles[r].limits = s.roles[r].limits
           /\ t.roles[r].gpu = s.roles[r].gpu
           /\ t.roles[r].gpuType = s.roles[r].gpuType
           /\ t.roles[r].volumeMounts = s.roles[r].volumeMounts
           /\ t.roles[r].readinessProbe = s.roles[r].readinessProbe
           /\ t.roles[r].livenessProbe = s.roles[r].livenessProbe
           /\ t.roles[r].engineRuntimes = s.roles[r].engineRuntimes
<1>1. s.roles[r] \in RoleSpec
  BY DEF PDInferenceServiceSpec
<1>2. CASE r = "router"
  BY <1>2 DEF Alike
<1>3. CASE r \in InferenceRoles
  <2> DEFINE k == t.roles[r].replicas
  <2>1. t.roles[r] = [s.roles[r] EXCEPT !.replicas = k]
    BY <1>3 DEF Alike
  <2> HIDE DEF k
  <2> QED BY <1>1, <2>1 DEF RoleSpec
<1> QED
  BY <1>2, <1>3 DEF Roles, InferenceRoles

\* The merger reads nothing that differs between alike specs.
LEMMA AlikeResolve ==
    ASSUME NEW s \in PDInferenceServiceSpec, NEW t \in PDInferenceServiceSpec, Alike(s, t),
           NEW ps
    PROVE  /\ ProfileMissing(t, ps) <=> ProfileMissing(s, ps)
           /\ Resolve(t, ps) = Resolve(s, ps)
<1>1. t.engineProfileRef = s.engineProfileRef
  BY DEF Alike
<1>2. \A r \in Roles : /\ t.roles[r].image = s.roles[r].image
                       /\ t.roles[r].command = s.roles[r].command
                       /\ t.roles[r].args = s.roles[r].args
  BY AlikeRoles
<1>3. ProfileMissing(t, ps) <=> ProfileMissing(s, ps)
  BY <1>1 DEF ProfileMissing
<1>4. Resolve(t, ps) = Resolve(s, ps)
  BY <1>1, <1>2, Zenon DEF Resolve
<1> QED BY <1>3, <1>4

\* Nor does the builder, except for the replicas.
LEMMA AlikeBuild ==
    ASSUME NEW s \in PDInferenceServiceSpec, NEW t \in PDInferenceServiceSpec, Alike(s, t),
           NEW cfg
    PROVE  /\ BuildPanics(t) <=> BuildPanics(s)
           /\ Build(t, cfg)["router"] = Build(s, cfg)["router"]
           /\ \A r \in InferenceRoles : Build(t, cfg)[r] =
                 [Build(s, cfg)[r] EXCEPT !.replicas = Build(t, cfg)[r].replicas]
<1>1. BuildPanics(t) <=> BuildPanics(s)
  <2>1. t.volumes = s.volumes
    BY DEF Alike
  <2>2. \A r \in Roles : /\ t.roles[r].gpu = s.roles[r].gpu
                         /\ t.roles[r].requests = s.roles[r].requests
                         /\ t.roles[r].limits = s.roles[r].limits
    BY AlikeRoles
  <2>3. \A r \in InferenceRoles : r \in Roles
    BY DEF InferenceRoles, Roles
  <2> QED BY <2>1, <2>2, <2>3, Zenon DEF BuildPanics
<1>2. Build(t, cfg)["router"] = Build(s, cfg)["router"]
  <2>1. t.volumes = s.volumes /\ t.roles["router"] = s.roles["router"]
    BY DEF Alike
  <2>2. buildRouterRole(t, cfg) = buildRouterRole(s, cfg)
    BY <2>1, Zenon DEF buildRouterRole
  <2> QED BY <2>2 DEF Build, Roles
<1>3. ASSUME NEW r \in InferenceRoles
      PROVE  Build(t, cfg)[r] = [Build(s, cfg)[r] EXCEPT !.replicas = Build(t, cfg)[r].replicas]
  <2>1. r \in Roles /\ r # "router"
    BY DEF InferenceRoles, Roles
  <2>2. t.volumes = s.volumes
    BY DEF Alike
  <2>3. buildInferenceRole(r, t, cfg) =
          [buildInferenceRole(r, s, cfg) EXCEPT !.replicas = t.roles[r].replicas]
    <3>1. /\ t.roles[r].requests = s.roles[r].requests
          /\ t.roles[r].limits = s.roles[r].limits
          /\ t.roles[r].gpu = s.roles[r].gpu
          /\ t.roles[r].gpuType = s.roles[r].gpuType
          /\ t.roles[r].volumeMounts = s.roles[r].volumeMounts
          /\ t.roles[r].readinessProbe = s.roles[r].readinessProbe
          /\ t.roles[r].livenessProbe = s.roles[r].livenessProbe
          /\ t.roles[r].engineRuntimes = s.roles[r].engineRuntimes
      BY <2>1, AlikeRoles
    <3> DEFINE n == t.roles[r].replicas
               q == buildAmounts(s.roles[r].requests, s.roles[r].gpu)
               l == buildAmounts(s.roles[r].limits, s.roles[r].gpu)
               v == buildVolumes(s.volumes)
               x == buildProbe(s.roles[r].readinessProbe)
               y == buildProbe(s.roles[r].livenessProbe)
               e == resolveEngineRuntimes(s.roles[r].engineRuntimes, profileRuntimes(cfg, r))
               With(k) == [replicas |-> k, image |-> cfg.images[r],
                           command |-> cfg.command[r], args |-> cfg.args[r],
                           env |-> {"POD_IP"}, volumes |-> v,
                           volumeMounts |-> s.roles[r].volumeMounts,
                           requests |-> q, limits |-> l,
                           readinessProbe |-> x, livenessProbe |-> y,
                           accelerator |-> s.roles[r].gpuType, engineRuntimes |-> e]
    <3>2. buildInferenceRole(r, s, cfg) = With(s.roles[r].replicas)
      BY Zenon DEF buildInferenceRole
    <3>3. buildInferenceRole(r, t, cfg) = With(n)
      BY <2>2, <3>1, Zenon DEF buildInferenceRole
    <3> HIDE DEF n, q, l, v, x, y, e
    <3>4. With(n) = [With(s.roles[r].replicas) EXCEPT !.replicas = n]
      OBVIOUS
    <3> HIDE DEF With
    <3> QED BY <3>2, <3>3, <3>4 DEF n
  <2>4. buildInferenceRole(r, t, cfg).replicas = t.roles[r].replicas
    BY DEF buildInferenceRole
  <2>5. /\ Build(t, cfg)[r] = buildInferenceRole(r, t, cfg)
        /\ Build(s, cfg)[r] = buildInferenceRole(r, s, cfg)
    BY <2>1 DEF Build
  <2> QED BY <2>3, <2>4, <2>5
<1> QED BY <1>1, <1>2, <1>3

-----------------------------------------------------------------------------
(***************************************************************************)
(* What keeps the pods: the step, then the theorem.                        *)
(***************************************************************************)
KeepsPods ==
    stage # "absent" /\ stage' # "absent" /\ uid' = uid
      /\ Buildable(spec, profiles) /\ ~ProfileWritten =>
       LET old == RolesOf(spec, profiles)
           new == RolesOf(spec', profiles')
       IN  /\ Buildable(spec', profiles')
           /\ new["router"] = old["router"]
           /\ \A r \in InferenceRoles :
                 new[r] = [old[r] EXCEPT !.replicas = new[r].replicas]

\* The merger reads no profile but the one that is referred to.
LEMMA OneProfileRead ==
    ASSUME NEW s, NEW ps, NEW qs,
           s.engineProfileRef # "" => qs[s.engineProfileRef] = ps[s.engineProfileRef]
    PROVE  /\ ProfileMissing(s, qs) <=> ProfileMissing(s, ps)
           /\ Resolve(s, qs) = Resolve(s, ps)
<1>1. ProfileMissing(s, qs) <=> ProfileMissing(s, ps)
  BY DEF ProfileMissing
<1>2. CASE s.engineProfileRef = ""
  BY <1>1, <1>2, Zenon DEF Resolve
<1>3. CASE s.engineProfileRef # ""
  <2>1. qs[s.engineProfileRef] = ps[s.engineProfileRef]
    BY <1>3
  <2> QED BY <1>1, <2>1, Zenon DEF Resolve
<1> QED BY <1>2, <1>3

\* A step that only scales leaves the stored specs alike.
LEMMA StepAlike ==
    ASSUME RestInv, RestInv', OnlyScaled, stage # "absent", stage' # "absent", uid' = uid
    PROVE  /\ spec \in PDInferenceServiceSpec /\ spec' \in PDInferenceServiceSpec
           /\ Alike(spec, spec')
<1>1. spec \in PDInferenceServiceSpec /\ spec' \in PDInferenceServiceSpec
  BY DEF RestInv, StoredOK
<1> QED
  BY <1>1, ScaledAlike DEF OnlyScaled

\* And so keeps the pods, unless the profile changes with it.
LEMMA ScalingKeepsPods ==
    ASSUME RestInv, RestInv', OnlyScaled
    PROVE  KeepsPods
<1> SUFFICES ASSUME stage # "absent", stage' # "absent", uid' = uid,
                    Buildable(spec, profiles), ~ProfileWritten
             PROVE  /\ Buildable(spec', profiles')
                    /\ RolesOf(spec', profiles')["router"] = RolesOf(spec, profiles)["router"]
                    /\ \A r \in InferenceRoles :
                          RolesOf(spec', profiles')[r] =
                             [RolesOf(spec, profiles)[r] EXCEPT
                                !.replicas = RolesOf(spec', profiles')[r].replicas]
  BY DEF KeepsPods
<1>1. /\ spec \in PDInferenceServiceSpec /\ spec' \in PDInferenceServiceSpec
      /\ Alike(spec, spec')
  BY StepAlike
<1> DEFINE cfg == Resolve(spec, profiles)
<1>2. /\ ProfileMissing(spec, profiles') <=> ProfileMissing(spec, profiles)
      /\ Resolve(spec, profiles') = cfg
  BY OneProfileRead DEF ProfileWritten
<1>3. /\ ProfileMissing(spec', profiles') <=> ProfileMissing(spec, profiles)
      /\ Resolve(spec', profiles') = cfg
  BY <1>1, <1>2, AlikeResolve
<1>4. Buildable(spec', profiles')
  BY <1>1, <1>3, AlikeBuild DEF Buildable
<1>5. /\ RolesOf(spec, profiles) = Build(spec, cfg)
      /\ RolesOf(spec', profiles') = Build(spec', cfg)
  BY <1>3 DEF RolesOf
<1> HIDE DEF cfg
<1> QED
  BY <1>1, <1>4, <1>5, AlikeBuild

\* Whatever clients, controller and faults do, the group of a living service
\* changes in the replicas of prefill and decode alone and does not stop building,
\* except by a write of the profile the service refers to.
THEOREM PodsChangeWithProfile == RestSpec => PodsKept
<1>1. RestInv /\ [RestNext]_restVars => RestInv' /\ [OnlyScaled]_restVars
  BY RestStep
<1>2. RestInv /\ RestInv' /\ [OnlyScaled]_restVars => [KeepsPods]_restVars
  BY ScalingKeepsPods
<1> QED
  BY <1>1, <1>2, RestInvariant, PTL DEF RestSpec, PodsKept, KeepsPods

-----------------------------------------------------------------------------
(***************************************************************************)
(* What admission lets in stays true of what is stored.                    *)
(***************************************************************************)
Admitted(s) ==
    /\ \A r \in InferenceRoles : s.roles[r].replicas >= 1
    /\ EnableWebhooks =>
          /\ validateVolumeMounts(s)
          /\ s.engineProfileRef = "" =>
                \A r \in Roles : s.roles[r].image # "" /\ s.roles[r].args # ""

StoredAdmitted == stage # "absent" => Admitted(spec)

\* An admitted spec builds sound roles, whatever the profile says.
LEMMA AdmittedSound ==
    ASSUME NEW s \in PDInferenceServiceSpec, Admitted(s), NEW ps, NEW r \in Roles
    PROVE  /\ RolesOf(s, ps)[r].replicas >= 1
           /\ EnableWebhooks =>
                 /\ \A m \in RolesOf(s, ps)[r].volumeMounts :
                       \E v \in RolesOf(s, ps)[r].volumes : v.name = m.name
                 /\ s.engineProfileRef = "" =>
                       RolesOf(s, ps)[r].image # "" /\ RolesOf(s, ps)[r].args # ""
<1> DEFINE cfg == Resolve(s, ps)
           b   == RolesOf(s, ps)[r]
<1>1. s.roles[r] \in RoleSpec
  BY DEF PDInferenceServiceSpec
<1>2. b.replicas >= 1
  <2>1. CASE r = "router"
    <3>1. b = buildRouterRole(s, cfg)
      BY <2>1 DEF RolesOf, Build
    <3>2. b.replicas = IF s.roles["router"].replicas < 1 THEN 1 ELSE s.roles["router"].replicas
      <4> HIDE DEF b, cfg
      <4> QED BY <3>1 DEF buildRouterRole
    <3> HIDE DEF b
    <3> QED BY <1>1, <2>1, <3>2 DEF RoleSpec
  <2>2. CASE r \in InferenceRoles
    <3>1. b = buildInferenceRole(r, s, cfg)
      BY <2>2 DEF RolesOf, Build, InferenceRoles
    <3>2. b.replicas = s.roles[r].replicas
      <4> HIDE DEF b, cfg
      <4> QED BY <3>1 DEF buildInferenceRole
    <3> HIDE DEF b
    <3> QED BY <2>2, <3>2 DEF Admitted
  <2> QED BY <2>1, <2>2 DEF Roles, InferenceRoles
<1>3. /\ b.volumeMounts = s.roles[r].volumeMounts
      /\ b.volumes = buildVolumes(s.volumes)
      /\ b.image = cfg.images[r] /\ b.args = cfg.args[r]
  <2>1. (b = buildRouterRole(s, cfg) /\ r = "router") \/ b = buildInferenceRole(r, s, cfg)
    BY DEF RolesOf, Build
  <2> HIDE DEF b, cfg
  <2>2. CASE b = buildRouterRole(s, cfg) /\ r = "router"
    BY <2>2 DEF buildRouterRole
  <2>3. CASE b = buildInferenceRole(r, s, cfg)
    BY <2>3 DEF buildInferenceRole
  <2> QED BY <2>1, <2>2, <2>3
<1>4. ASSUME EnableWebhooks, NEW m \in b.volumeMounts
      PROVE  \E v \in b.volumes : v.name = m.name
  <2> HIDE DEF b
  <2>1. PICK v \in s.volumes : v.name = m.name
    BY <1>3, <1>4 DEF Admitted, validateVolumeMounts
  <2>2. buildVolume(v) \in b.volumes
    BY <1>3 DEF buildVolumes
  <2>3. buildVolume(v).name = v.name
    BY DEF buildVolume
  <2> QED BY <2>1, <2>2, <2>3
<1>5. ASSUME EnableWebhooks, s.engineProfileRef = ""
      PROVE  b.image # "" /\ b.args # ""
  <2>1. s.roles[r].image # "" /\ s.roles[r].args # ""
    BY <1>5 DEF Admitted
  <2>2. cfg.images[r] = s.roles[r].image /\ cfg.args[r] = s.roles[r].args
    BY <2>1 DEF Resolve, Override
  <2> HIDE DEF b, cfg
  <2> QED BY <1>3, <2>1, <2>2
<1> QED BY <1>2, <1>4, <1>5

\* Scaling to one or more replicas keeps a spec admitted.
LEMMA AlikeAdmitted ==
    ASSUME NEW s \in PDInferenceServiceSpec, NEW t \in PDInferenceServiceSpec,
           Alike(s, t), Admitted(s),
           \A r \in InferenceRoles : t.roles[r].replicas >= 1
    PROVE  Admitted(t)
<1>1. t.volumes = s.volumes /\ t.engineProfileRef = s.engineProfileRef
  BY DEF Alike
<1>2. \A r \in Roles : /\ t.roles[r].volumeMounts = s.roles[r].volumeMounts
                       /\ t.roles[r].image = s.roles[r].image
                       /\ t.roles[r].args = s.roles[r].args
  BY AlikeRoles
<1> QED
  BY <1>1, <1>2, Zenon DEF Admitted, validateVolumeMounts

\* The schema leaves no inference role without replicas.
LEMMA ValidReplicas ==
    ASSUME NEW s, SchemaValid(s)
    PROVE  \A r \in InferenceRoles : s.roles[r].replicas >= 1
  BY DEF SchemaValid, MaxInferenceReplicas

\* A POST stores what it checks: the spec after defaulting.
LEMMA CreateAdmits ==
    ASSUME NEW c \in Clients, CreateStores(c)
    PROVE  Admitted(spec')
<1>1. spec' = Stored(Body(c)) /\ CreateAdmitted(Body(c), cProfiles)
  BY DEF CreateStores, PutSpec
<1>2. /\ SchemaValid(spec')
      /\ EnableWebhooks => ValidateCreate(spec', cProfiles)
  BY <1>1 DEF CreateAdmitted
<1>3. \A r \in InferenceRoles : spec'.roles[r].replicas >= 1
  BY <1>2, ValidReplicas
<1> QED
  BY <1>2, <1>3 DEF Admitted, ValidateCreate

\* A PUT checks the replicas only, and changes nothing else.
LEMMA UpdateAdmits ==
    ASSUME RestInv, RestInv', OnlyScaled, StoredAdmitted,
           NEW c \in Clients, UpdateStores(c)
    PROVE  StoredAdmitted'
<1> SUFFICES ASSUME stage' # "absent" PROVE Admitted(spec')
  BY DEF StoredAdmitted
<1>1. /\ UNCHANGED <<stage, uid>>
      /\ spec' = Stored(Scaled(copy[c].spec, Body(c)))
      /\ UpdateAdmitted(copy[c].spec, Scaled(copy[c].spec, Body(c)))
  BY DEF UpdateStores, UpdateAccepted, PutSpec, lifeVars
<1>2. \A r \in InferenceRoles : spec'.roles[r].replicas >= 1
  BY <1>1, ValidReplicas DEF UpdateAdmitted
<1>3. /\ spec \in PDInferenceServiceSpec /\ spec' \in PDInferenceServiceSpec
      /\ Alike(spec, spec')
  BY <1>1, StepAlike
<1>4. Admitted(spec)
  BY <1>1 DEF StoredAdmitted
<1> QED BY <1>2, <1>3, <1>4, AlikeAdmitted

\* Every other step leaves the stored spec alone or removes it.
LEMMA OthersAdmit ==
    ASSUME RestInv', StoredAdmitted, stage' # "absent" => stage # "absent",
           spec' \in {spec, Nil}
    PROVE  StoredAdmitted'
  BY DEF RestInv, StoredOK, StoredAdmitted

\* So what is stored has passed admission, although updates skip most of it.
LEMMA AdmittedStep ==
    ASSUME RestInv, RestInv', [OnlyScaled]_restVars, StoredAdmitted, [RestNext]_restVars
    PROVE  StoredAdmitted'
<1>1. CASE UNCHANGED restVars
  BY <1>1, OthersAdmit DEF restVars, storedVars, lifeVars
<1>2. ASSUME spec' \in {spec, Nil} PROVE StoredAdmitted'
  <2>1. stage' # "absent" => stage # "absent"
    BY <1>2 DEF RestInv, StoredOK
  <2> QED BY <1>2, <2>1, OthersAdmit
<1>3. ASSUME NEW c \in Clients, Stores(c), OnlyScaled PROVE StoredAdmitted'
  <2>1. CASE CreateStores(c)
    BY <2>1, CreateAdmits DEF StoredAdmitted
  <2>2. CASE UpdateStores(c)
    BY <1>3, <2>2, UpdateAdmits
  <2>3. CASE DeleteStores(c)
    <3>1. spec' \in {spec, Nil}
      BY <2>3 DEF DeleteStores, PutSpec, storedVars
    <3> QED BY <1>2, <3>1
  <2>4. CASE CreateProfileStores(c) \/ UpdateProfileStores(c) \/ DeleteProfileStores(c)
    <3>1. UNCHANGED spec
      BY <2>4 DEF CreateProfileStores, UpdateProfileStores, DeleteProfileStores, PutProfile
    <3> QED BY <1>2, <3>1
  <2> QED BY <1>3, <2>1, <2>2, <2>3, <2>4 DEF Stores
<1>4. CASE RestNext /\ ~UNCHANGED restVars
  <2>1. OnlyScaled
    BY <1>4
  <2>2. ASSUME NEW c \in Clients, Handler(c) \/ ApiFails(c) \/ ApiReplyLost(c)
        PROVE  StoredAdmitted'
    <3>1. CASE Reads(c)
      <4>1. UNCHANGED spec
        BY <3>1 DEF Reads, Read, storedVars
      <4> QED BY <1>2, <4>1
    <3>2. ASSUME NEW code, Replies(c, code) PROVE StoredAdmitted'
      <4>1. CASE NothingStored
        <5>1. UNCHANGED spec
          BY <4>1 DEF NothingStored, storedVars
        <5> QED BY <1>2, <5>1
      <4> QED BY <1>3, <2>1, <3>2, <4>1 DEF Replies
    <3> QED BY <2>2, <3>1, <3>2, HandlerKinds
  <2>3. ASSUME NEW c \in Clients, NEW request, Accept(c, request) PROVE StoredAdmitted'
    <3>1. UNCHANGED spec
      BY <2>3 DEF Accept, storedVars
    <3> QED BY <1>2, <3>1
  <2>4. CASE Shutdown \/ Stopped \/ GraceExpires \/ Crash \/ Environment
    <3>1. spec' \in {spec, Nil}
      BY <2>4 DEF Shutdown, Stopped, GraceExpires, Crash, EndCalls, Relist, Environment,
         ControllerGuards,         ControllerReleases, ControllerWritesStatus, GroupChanges, ProfileInformer,
         PutSpec, storedVars
    <3> QED BY <1>2, <3>1
  <2> QED BY <1>4, <2>2, <2>3, <2>4 DEF RestNext
<1> QED BY <1>1, <1>4

\* Whatever was created, updated, deleted and created again through the REST API,
\* the roles built from what is stored have replicas; with the webhooks on, their
\* mounts have volumes, and without a profile their containers have an image and
\* arguments.
THEOREM RestGroupsSound == RestSpec => []GroupsSound
<1>1. RestInit => StoredAdmitted
  BY DEF RestInit, LifeInit, StoredAdmitted
<1>2. RestInv /\ StoredAdmitted /\ [RestNext]_restVars => StoredAdmitted'
  BY RestStep, AdmittedStep
<1>3. RestInv /\ StoredAdmitted => GroupsSound
  <2> SUFFICES ASSUME RestInv, StoredAdmitted, stage # "absent" PROVE GroupsSound
    BY DEF GroupsSound
  <2>1. spec \in PDInferenceServiceSpec /\ Admitted(spec)
    BY DEF RestInv, StoredOK, StoredAdmitted
  <2> QED
    BY <2>1, AdmittedSound DEF GroupsSound
<1> QED
  BY <1>1, <1>2, <1>3, RestInvariant, PTL DEF RestSpec
=============================================================================
