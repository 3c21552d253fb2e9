----------------------------- MODULE Admission -----------------------------
(***************************************************************************)
(* What the API server stores of a PDInferenceService a user sends: the    *)
(* defaulting and validating webhooks of internal/webhook/v1alpha1 and the *)
(* schema kubebuilder derives from the markers in api/v1alpha1.            *)
(***************************************************************************)
EXTENDS PDTypes

\* FALSE when the manager runs with ENABLE_WEBHOOKS=false.
CONSTANT EnableWebhooks

ASSUME EnableWebhooksAssumption == EnableWebhooks \in BOOLEAN

MaxInferenceReplicas == 100

-----------------------------------------------------------------------------
\* The default of the schema, applied before any webhook.
SchemaDefault(spec) ==
    [spec EXCEPT !.engine = IF @ = "" THEN EngineTypeSGLang ELSE @]

\* 0 router replicas are an omitted field, which the schema accepts.
SchemaValid(spec) ==
    /\ spec.engine = EngineTypeSGLang
    /\ spec.roles["router"].replicas >= 0
    /\ \A r \in InferenceRoles :
          spec.roles[r].replicas \in 1 .. MaxInferenceReplicas

\* The mutating webhook.
Default(spec) ==
    LET router == spec.roles["router"]
        n == IF router.replicas < 1 THEN 1 ELSE router.replicas
    IN  [spec EXCEPT
            !.engine = IF spec.engine = "" THEN EngineTypeSGLang ELSE spec.engine,
            !.roles = [spec.roles EXCEPT !["router"] =
                          [router EXCEPT !.replicas = n]]]

\* Variant: only the inference roles are looked at.
validateVolumeMountsNoRouter(spec) ==
    \A r \in InferenceRoles : \A m \in spec.roles[r].volumeMounts :
        \E v \in spec.volumes : v.name = m.name

validateVolumeMounts(spec) ==
    \A r \in Roles : \A m \in spec.roles[r].volumeMounts :
        \E v \in spec.volumes : v.name = m.name

\* Profiles are looked up in the manager's cache, not in the API server.
ValidateCreate(spec, cachedProfiles) ==
    /\ spec.model # ""
    /\ \A r \in InferenceRoles : spec.roles[r].replicas >= 1
    /\ IF spec.engineProfileRef # ""
       THEN cachedProfiles[spec.engineProfileRef] # Nil
       ELSE \A r \in Roles : /\ spec.roles[r].image # ""
                             /\ spec.roles[r].args # ""
    /\ validateVolumeMounts(spec)
    /\ ~(spec.pdRatio # "" /\ spec.scalingPrefill)

\* Nothing of ValidateCreate is checked again on an update.
ValidateUpdate(old, new) ==
    /\ new.model = old.model
    /\ new.engine = old.engine
    /\ new.engineProfileRef = old.engineProfileRef

-----------------------------------------------------------------------------
\* The spec that is stored when a user sends spec.
Stored(spec) ==
    IF EnableWebhooks THEN Default(SchemaDefault(spec)) ELSE SchemaDefault(spec)

CreateAdmitted(spec, cachedProfiles) ==
    /\ SchemaValid(Stored(spec))
    /\ EnableWebhooks => ValidateCreate(Stored(spec), cachedProfiles)

UpdateAdmitted(old, spec) ==
    /\ SchemaValid(Stored(spec))
    /\ EnableWebhooks => ValidateUpdate(old, Stored(spec))
=============================================================================
