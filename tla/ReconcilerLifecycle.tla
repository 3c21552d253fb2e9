------------------------ MODULE ReconcilerLifecycle ------------------------
(***************************************************************************)
(* Reconciler implements Lifecycle: what the stored service and the stored *)
(* group amount to.                                                        *)
(***************************************************************************)
EXTENDS Reconciler

StageOf(service) ==
    IF service = Nil THEN "absent"
    ELSE IF ~service.finalizer THEN "bare"
    ELSE IF service.deleting THEN "ending"
    ELSE "guarded"

OwnerOf(group) == IF group = Nil THEN 0 ELSE group.owner

Life == INSTANCE Lifecycle
        WITH stage <- StageOf(pdis), uid <- uidCount, owner <- OwnerOf(rbg)

\* Every step of users, controller, caches and faults is a step of the service's
\* life or none: no step of Reconcile on a stale copy makes a service skip a
\* stage, come back from its deletion, or get a group made for another one.
FollowsLifecycle == Life!LifeSpec

\* And the life goes on: a marked service is let go and an orphan collected,
\* whatever conflicts, lost writes and restarts come in between.
FollowsFairLifecycle == Life!LifeFairSpec
=============================================================================
