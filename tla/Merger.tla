------------------------------- MODULE Merger -------------------------------
(***************************************************************************)
(* internal/config/merger.go: the configuration a service runs with, from  *)
(* the engine profile it references and its own inline fields.             *)
(***************************************************************************)
EXTENDS PDTypes

MergedConfig ==
    [images : [Roles -> Text], command : [Roles -> Text],
     args : [Roles -> Text],
     engineRuntimes : [Roles -> Seq(EngineRuntime)] \cup {Nil}]

EmptyConfig ==
    [images |-> [r \in Roles |-> ""], command |-> [r \in Roles |-> ""],
     args |-> [r \in Roles |-> ""], engineRuntimes |-> Nil]

\* A profile without roleCommands or roleArgs leaves those of m as they are.
applyProfile(m, profile) ==
    [images  |-> profile.images,
     command |-> IF profile.roleCommands = Nil THEN m.command
                 ELSE profile.roleCommands,
     args    |-> IF profile.roleArgs = Nil THEN m.args ELSE profile.roleArgs,
     engineRuntimes |-> profile.engineRuntimes]

\* Inline fields win unless they are empty; nothing is concatenated.
Override(default, inline) == IF inline = "" THEN default ELSE inline

\* The profile a service names is looked up in its own namespace.
ProfileMissing(spec, profiles) ==
    spec.engineProfileRef # "" /\ profiles[spec.engineProfileRef] = Nil

\* What Resolve returns when ~ProfileMissing(spec, profiles).
Resolve(spec, profiles) ==
    LET base == IF spec.engineProfileRef = "" THEN EmptyConfig
                ELSE applyProfile(EmptyConfig, profiles[spec.engineProfileRef])
    IN  [images  |-> [r \in Roles |->
                        Override(base.images[r], spec.roles[r].image)],
         command |-> [r \in Roles |->
                        Override(base.command[r], spec.roles[r].command)],
         args    |-> [r \in Roles |->
                        Override(base.args[r], spec.roles[r].args)],
         engineRuntimes |-> base.engineRuntimes]
=============================================================================
