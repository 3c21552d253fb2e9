------------------------------ MODULE PDTypes ------------------------------
(***************************************************************************)
(* The objects of api/v1alpha1: what a user writes in a PDInferenceService *)
(* and in a PDEngineProfile, and what the controller reports in a status.  *)
(*                                                                         *)
(* Texts (images, models, quantities, entrypoints, argument lists) are     *)
(* opaque strings: the code only asks whether they are empty, compares     *)
(* them or hands them on.  "" is Go's empty string or empty list, Nil its  *)
(* nil pointer, an absent map key or an object that does not exist.        *)
(***************************************************************************)
EXTENDS Integers, Sequences, FiniteSets

CONSTANTS
    Nil,            \* what is absent
    Text,           \* every string
    ResourceNames   \* keys of a resource list, "nvidia.com/gpu" among them

GPUResource == "nvidia.com/gpu"

\* The strings the code itself writes are strings.
ASSUME TextAssumption ==
    {"", "sglang", "Directory", "/health", "POD_IP", "ProfileResolveFailed",
     "AllRolesReady", "ServiceFailed", "Initializing", "Pending", "Terminating",
     "Unknown"} \subseteq Text

ASSUME ResourceNamesAssumption == GPUResource \in ResourceNames

-----------------------------------------------------------------------------
Roles == {"router", "prefill", "decode"}

InferenceRoles == {"prefill", "decode"}

PhasePending      == "Pending"
PhaseInitializing == "Initializing"
PhaseRunning      == "Running"
PhaseFailed       == "Failed"
PhaseTerminating  == "Terminating"

\* The enum of the Phase type; "" is the phase of a status never written.
Phases == {PhasePending, PhaseInitializing, PhaseRunning, PhaseFailed,
           PhaseTerminating, ""}

EngineTypeSGLang == "sglang"

-----------------------------------------------------------------------------
(***************************************************************************)
(* Specifications.  The four second counts of a probe are handed on as one *)
(* opaque number.  Lists whose order the code never uses are sets.         *)
(***************************************************************************)
ProbeSpec == [httpPath : Text, port : Int, timing : Int]

VolumeSpec ==
    [name : Text,
     hostPath : [path : Text, type : Text] \cup {Nil},
     emptyDir : [medium : Text, sizeLimit : Text] \cup {Nil},
     pvc      : [claimName : Text] \cup {Nil}]

VolumeMountSpec == [name : Text, mountPath : Text, readOnly : BOOLEAN]

\* A map from resource name to quantity text; Nil where there is no entry.
ResourceTexts == [ResourceNames -> Text \cup {Nil}]

EngineRuntime == [profileName : Text, containers : Text]

\* RouterRoleSpec and InferenceRoleSpec in one record: gpu, gpuType and
\* engineRuntimes do not exist on the router and are empty there.
RoleSpec ==
    [image : Text, replicas : Int, command : Text, args : Text,
     requests : ResourceTexts, limits : ResourceTexts,
     gpu : Text, gpuType : Text,
     volumeMounts : SUBSET VolumeMountSpec,
     readinessProbe : ProbeSpec \cup {Nil},
     livenessProbe : ProbeSpec \cup {Nil},
     engineRuntimes : Seq(EngineRuntime)]

\* Of spec.scaling only the presence of its prefill part is ever read.
PDInferenceServiceSpec ==
    [model : Text, engine : Text, volumes : SUBSET VolumeSpec,
     roles : [Roles -> RoleSpec], pdRatio : Text,
     engineProfileRef : Text, scalingPrefill : BOOLEAN]

\* Description and applicability are informational and left out.
PDEngineProfileSpec ==
    [images : [Roles -> Text],
     roleCommands : [Roles -> Text] \cup {Nil},
     roleArgs : [Roles -> Text] \cup {Nil},
     engineRuntimes : [Roles -> Seq(EngineRuntime)] \cup {Nil}]

-----------------------------------------------------------------------------
(***************************************************************************)
(* Statuses.  A Ready condition carries its status, its reason and its     *)
(* lastTransitionTime; the time is the parity of the number of times it    *)
(* was stamped, which is enough to see whether a write stamps it anew.     *)
(***************************************************************************)
ConditionStatuses == {"True", "False", "Unknown"}

Condition == [status : ConditionStatuses, reason : Text,
              lastTransitionTime : {0, 1}]

RoleStatus == [name : Text, ready : Int, total : Int]

PDInferenceServiceStatus ==
    [phase : Phases, ready : Condition \cup {Nil},
     roleStatuses : SUBSET RoleStatus, lastEvent : Text \cup {Nil}]

\* Nil is none of the values it stands in for.
ASSUME NilValueAssumption == Nil \notin Text /\ Nil \notin Condition

\* The status of an object no reconciliation has reported on yet.
NewStatus == [phase |-> "", ready |-> Nil, roleStatuses |-> {}, lastEvent |-> Nil]
=============================================================================
