----------------------------- MODULE RBGBuilder -----------------------------
(***************************************************************************)
(* internal/translator/rbg_builder.go: the roles of the RoleBasedGroup     *)
(* that runs a service with a merged configuration.                        *)
(***************************************************************************)
EXTENDS Merger

\* resource.ParseQuantity: DOMAIN QuantityOf holds the texts that parse, and
\* QuantityOf[q] is the canonical amount of q ("2" and "2000m" are one amount).
CONSTANT QuantityOf

ASSUME QuantityAssumption == QuantityOf \in [DOMAIN QuantityOf -> Text]

Parses(q) == q \in DOMAIN QuantityOf

\* resource.MustParse panics on a text that does not parse: see BuildPanics.
MustParse(q) == QuantityOf[q]

-----------------------------------------------------------------------------
Amounts == [ResourceNames -> Text \cup {Nil}]

HostPath == [path : Text, type : Text]
EmptyDir == [medium : Text, sizeLimit : Text \cup {Nil}]
PVC      == [claimName : Text]

\* A volume has at most one source, the first of the three that is set.
Volume == [name : Text,
           source : HostPath \cup EmptyDir \cup PVC \cup {Nil}]

RBGRole ==
    [replicas : Int, image : Text, command : Text, args : Text,
     env : SUBSET Text, volumes : SUBSET Volume,
     volumeMounts : SUBSET VolumeMountSpec,
     requests : Amounts, limits : Amounts,
     readinessProbe : ProbeSpec \cup {Nil}, livenessProbe : ProbeSpec \cup {Nil},
     accelerator : Text, engineRuntimes : Seq(EngineRuntime)]

buildVolume(v) ==
    [name |-> v.name,
     source |->
        IF v.hostPath # Nil
        THEN [path |-> v.hostPath.path,
              type |-> IF v.hostPath.type = "" THEN "Directory" ELSE v.hostPath.type]
        ELSE IF v.emptyDir # Nil
        THEN [medium |-> v.emptyDir.medium,
              sizeLimit |-> IF v.emptyDir.sizeLimit = "" THEN Nil
                            ELSE MustParse(v.emptyDir.sizeLimit)]
        ELSE v.pvc]

buildVolumes(specVolumes) == {buildVolume(v) : v \in specVolumes}

\* The GPU count overrides what the resource map says of GPUs.
buildAmounts(texts, gpu) ==
    [k \in ResourceNames |->
        IF gpu # "" /\ k = GPUResource THEN MustParse(gpu)
        ELSE IF texts[k] = Nil THEN Nil ELSE MustParse(texts[k])]

buildProbe(spec) ==
    IF spec = Nil THEN Nil
    ELSE [httpPath |-> IF spec.httpPath = "" THEN "/health" ELSE spec.httpPath,
          port     |-> IF spec.port = 0 THEN 8000 ELSE spec.port,
          timing   |-> spec.timing]

\* The profile's runtimes stand in only for a role that lists none.
resolveEngineRuntimes(inline, profileRuntimes) ==
    IF inline # <<>> THEN inline ELSE profileRuntimes

profileRuntimes(cfg, r) ==
    IF cfg.engineRuntimes = Nil THEN <<>> ELSE cfg.engineRuntimes[r]

-----------------------------------------------------------------------------
\* Prefill and decode: GPUs requested and limited alike, POD_IP injected.
buildInferenceRole(r, spec, cfg) ==
    LET role == spec.roles[r]
    IN  [replicas |-> role.replicas,
         image |-> cfg.images[r], command |-> cfg.command[r],
         args |-> cfg.args[r], env |-> {"POD_IP"},
         volumes |-> buildVolumes(spec.volumes),
         volumeMounts |-> role.volumeMounts,
         requests |-> buildAmounts(role.requests, role.gpu),
         limits |-> buildAmounts(role.limits, role.gpu),
         readinessProbe |-> buildProbe(role.readinessProbe),
         livenessProbe |-> buildProbe(role.livenessProbe),
         accelerator |-> role.gpuType,
         engineRuntimes |-> resolveEngineRuntimes(role.engineRuntimes,
                                                  profileRuntimes(cfg, r))]

\* Variant: the router's replicas are taken as they are.
buildRouterRoleUnclamped(spec, cfg) ==
    [buildInferenceRole("router", spec, cfg) EXCEPT !.env = {}]

\* The router: at least one replica, no GPU, no POD_IP, the profile's runtimes.
buildRouterRole(spec, cfg) ==
    LET role == spec.roles["router"]
    IN  [replicas |-> IF role.replicas < 1 THEN 1 ELSE role.replicas,
         image |-> cfg.images["router"], command |-> cfg.command["router"],
         args |-> cfg.args["router"], env |-> {},
         volumes |-> buildVolumes(spec.volumes),
         volumeMounts |-> role.volumeMounts,
         requests |-> buildAmounts(role.requests, ""),
         limits |-> buildAmounts(role.limits, ""),
         readinessProbe |-> buildProbe(role.readinessProbe),
         livenessProbe |-> buildProbe(role.livenessProbe),
         accelerator |-> "",
         engineRuntimes |-> profileRuntimes(cfg, "router")]

\* Variant: the containers of a role are told how many of them there are.
BuildCounted(spec, cfg) ==
    [r \in Roles |->
        IF r = "router" THEN buildRouterRole(spec, cfg)
        ELSE [buildInferenceRole(r, spec, cfg) EXCEPT
                 !.env = IF spec.roles[r].replicas = 1 THEN @ ELSE @ \cup {"REPLICAS"}]]

\* The roles of the group; its owner reference is the uid of the service.
Build(spec, cfg) ==
    [r \in Roles |-> IF r = "router" THEN buildRouterRole(spec, cfg)
                     ELSE buildInferenceRole(r, spec, cfg)]

-----------------------------------------------------------------------------
Malformed(q) == ~Parses(q)

\* Build never returns an error: a malformed quantity panics in MustParse.  A
\* host path hides an emptyDir; the GPU count hides nothing, since a text under
\* the same key is parsed before it is overwritten.
BuildPanics(spec) ==
    \/ \E v \in spec.volumes :
          /\ v.hostPath = Nil /\ v.emptyDir # Nil
          /\ v.emptyDir.sizeLimit # "" /\ Malformed(v.emptyDir.sizeLimit)
    \/ \E r \in InferenceRoles :
          spec.roles[r].gpu # "" /\ Malformed(spec.roles[r].gpu)
    \/ \E r \in Roles, k \in ResourceNames :
          \E q \in {spec.roles[r].requests[k], spec.roles[r].limits[k]} :
             q # Nil /\ Malformed(q)
=============================================================================
