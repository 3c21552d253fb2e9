------------------------------ MODULE RestPods ------------------------------
(***************************************************************************)
(* From a REST request to the pods: what Admission lets RestApi store, as  *)
(* Merger and RBGBuilder turn it into the roles of a RoleBasedGroup.       *)
(***************************************************************************)
EXTENDS RestApi, RBGBuilder

\* What Reconcile builds for a service, given the profiles it reads.
RolesOf(s, ps) == Build(s, Resolve(s, ps))

Buildable(s, ps) == ~ProfileMissing(s, ps) /\ ~BuildPanics(s)

-----------------------------------------------------------------------------
\* A service stored through the REST API builds, if it builds at all, into roles
\* that have a replica each; and with the webhooks on, every mount of theirs names
\* a volume of the pod, and no container is without image or arguments where no
\* profile gives them.  ValidateUpdate checks none of this again: it holds because
\* Update can reach nothing but the replicas, which the schema bounds.
GroupsSound ==
    LET roles == RolesOf(spec, profiles)
    IN  stage # "absent" /\ Buildable(spec, profiles) =>
          \A r \in Roles :
             /\ roles[r].replicas >= 1
             /\ EnableWebhooks =>
                   /\ \A m \in roles[r].volumeMounts :
                         \E v \in roles[r].volumes : v.name = m.name
                   /\ spec.engineProfileRef = "" =>
                         roles[r].image # "" /\ roles[r].args # ""

\* A request writes the profile the stored service refers to.
ProfileWritten ==
    LET ref == spec.engineProfileRef
    IN  ref # "" /\ profiles'[ref] # profiles[ref]

\* The pods of a living service are replaced by nothing but a write of the profile
\* it refers to, which the next Reconcile applies to it, although docs/specs.md:199
\* says it is not.  Any other step, a PUT that scales it or a request on another
\* profile, keeps every pod template and the router, and it goes on building.
PodsKept ==
    [][stage # "absent" /\ stage' # "absent" /\ uid' = uid
         /\ Buildable(spec, profiles) /\ ~ProfileWritten =>
           LET old == RolesOf(spec, profiles)
               new == RolesOf(spec', profiles')
           IN  /\ Buildable(spec', profiles')
               /\ new["router"] = old["router"]
               /\ \A r \in InferenceRoles :
                     new[r] = [old[r] EXCEPT !.replicas = new[r].replicas]]_restVars
=============================================================================
