---------------------------- MODULE MCReconciler ----------------------------
(***************************************************************************)
(* Small instances of Reconciler for TLC.                                  *)
(***************************************************************************)
EXTENDS ReconcilerLifecycle

MCText          == STRING
MCResourceNames == {"nvidia.com/gpu"}
MCQuantityOf    == [q \in {"1", "1000m"} |-> "1"]

NoResources == [k \in MCResourceNames |-> Nil]

\* A role that leaves everything to the profile.
BareRole == [image |-> "", replicas |-> 1, command |-> "", args |-> "",
             requests |-> NoResources, limits |-> NoResources,
             gpu |-> "", gpuType |-> "", volumeMounts |-> {},
             readinessProbe |-> Nil, livenessProbe |-> Nil,
             engineRuntimes |-> <<>>]

ProfileSpec == [model |-> "m", engine |-> "", volumes |-> {},
                roles |-> [r \in Roles |-> BareRole], pdRatio |-> "",
                engineProfileRef |-> "p", scalingPrefill |-> FALSE]

\* The same service with one more decode replica.
ScaledSpec == [ProfileSpec EXCEPT !.roles["decode"].replicas = 2]

InlineRole == [BareRole EXCEPT !.image = "inline", !.args = "--inline"]

\* A service of its own, one more of it, and one nobody can build.
InlineSpec == [ProfileSpec EXCEPT !.engineProfileRef = "",
                                  !.roles = [r \in Roles |-> InlineRole]]
NoRouterSpec == [InlineSpec EXCEPT !.roles["router"].replicas = 0]
InlineScaledSpec == [InlineSpec EXCEPT !.roles["decode"].replicas = 2]
\* Refused when it is created and accepted as an edit of InlineSpec.
EditedSpec == [InlineScaledSpec EXCEPT !.roles["router"].args = ""]
BadGPUSpec == [InlineSpec EXCEPT !.roles["prefill"].gpu = "two"]

ProfileOf(image) == [images |-> [r \in Roles |-> image], roleCommands |-> Nil,
                     roleArgs |-> [r \in Roles |-> "--profile"],
                     engineRuntimes |-> Nil]

Report(ready, total, reasons) ==
    [roleStatuses |-> {[name |-> "decode", readyReplicas |-> ready,
                        replicas |-> total]},
     reasons |-> reasons]

ReadyReport == Report(1, 1, {})
ShortReport == Report(0, 1, {})
CrashReport == Report(0, 1, {"CrashLoopBackOff"})

\* Constant values of the configurations.
SpecsProfile  == {ProfileSpec}
SpecsScaled   == {ProfileSpec, ScaledSpec}
SpecsInline   == {InlineSpec}
SpecsScaledInline == {InlineSpec, InlineScaledSpec}
SpecsEdited   == {InlineSpec, EditedSpec}
SpecsNoRouter == {NoRouterSpec, InlineScaledSpec}
SpecsBad      == {InlineSpec, BadGPUSpec}
SpecsMixed    == {ProfileSpec, BadGPUSpec}
OneProfileName == {"p"}
NoProfiles    == {}
OneProfile    == {ProfileOf("v1")}
TwoProfiles   == {ProfileOf("v1"), ProfileOf("v2")}
ReportsReady  == {ReadyReport}
ReportsShort  == {ReadyReport, ShortReport}
ReportsAll    == {ReadyReport, ShortReport, CrashReport}
=============================================================================
