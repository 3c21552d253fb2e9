----------------------------- MODULE Lifecycle -----------------------------
(***************************************************************************)
(* What the operator promises of a service name, without caches, copies,   *)
(* conflicts or retries: a service is guarded by the finalizer before a    *)
(* group runs for it, a guarded service is marked before it goes, and a    *)
(* group runs for the one service it was made for.                         *)
(***************************************************************************)
EXTENDS Naturals

VARIABLES
    stage,   \* how far the service of this name has come
    uid,     \* the newest incarnation of the name, 0 before the first
    owner    \* the incarnation the group runs for, 0 without a group

lifeVars == <<stage, uid, owner>>

\* bare: stored without the finalizer; ending: marked for deletion.
Stages == {"absent", "bare", "guarded", "ending"}

LifeTypeOK == stage \in Stages /\ uid \in Nat /\ owner \in 0 .. uid

LifeInit == stage = "absent" /\ uid = 0 /\ owner = 0

-----------------------------------------------------------------------------
StageGoes(from, to) == stage = from /\ stage' = to /\ UNCHANGED owner

\* Users create a service, and delete it: one that is bare is gone at once.
Appear == StageGoes("absent", "bare") /\ uid' = uid + 1
Vanish == StageGoes("bare", "absent") /\ UNCHANGED uid
Mark   == StageGoes("guarded", "ending") /\ UNCHANGED uid

\* The controller adds the finalizer, and removes it from a marked service.
Guard   == StageGoes("bare", "guarded") /\ UNCHANGED uid
Release == StageGoes("ending", "absent") /\ UNCHANGED uid

\* A group is made for the service that is stored and guarded.
Provision ==
    /\ owner = 0 /\ stage \in {"guarded", "ending"}
    /\ owner' = uid
    /\ UNCHANGED <<stage, uid>>

\* Somebody deletes the group, or the garbage collector does.
LoseGroup == owner # 0 /\ owner' = 0 /\ UNCHANGED <<stage, uid>>

Orphaned == owner # 0 /\ (stage = "absent" \/ owner # uid)

Collect == Orphaned /\ LoseGroup

LifeNext ==
    \/ Appear \/ Vanish \/ Mark
    \/ Guard \/ Release
    \/ Provision \/ LoseGroup

LifeSpec == LifeInit /\ [][LifeNext]_lifeVars

\* The operator lets a marked service go, the cluster collects orphans.
LifeFairSpec == LifeSpec /\ WF_lifeVars(Release) /\ WF_lifeVars(Collect)
=============================================================================
