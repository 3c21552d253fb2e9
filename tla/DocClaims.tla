------------------------------ MODULE DocClaims ------------------------------
(***************************************************************************)
(* What the documents and comments of the repository say of the program    *)
(* and the code does not do.  Each property is the claim; the run named in *)
(* the README shows how the reconciler breaks it.                          *)
(***************************************************************************)
EXTENDS MCReconciler

SameService == pdis # Nil /\ pdis' # Nil /\ pdis'.uid = pdis.uid

\* docs/specs.md:194: deleting a profile does not affect running services.
\* A service that has been Running on a stored profile is resolved again at every
\* requeue, and Failed once the profile is gone.
RunningSurvivesProfileDeletion ==
    \A uid \in 1 .. MaxIncarnations :
        LET Service   == pdis # Nil /\ pdis.uid = uid
            RunningOn == /\ Service /\ pdis.status.phase = PhaseRunning
                         /\ ~ProfileMissing(pdis.spec, profiles)
        IN  [](RunningOn => [](Service => ~GivenUp))

\* docs/specs.md:122: the conditions of a Failed service hold the reason and the
\* time of the failure.  setFailedStatus leaves the Ready condition as it was,
\* the one of a Running service included.
FailedIsExplained ==
    pdis # Nil /\ pdis.status.phase = PhaseFailed /\ pdis.status.ready # Nil =>
        pdis.status.ready.status = "False"

\* docs/design/plan.md:156: CreateOrUpdate of the group sets its owner to the
\* service.  The update of applyRBG keeps the owner of an earlier service.
WrittenGroupIsOwned ==
    [][rbg # Nil /\ rbg' # Nil /\ rbg'.roles # rbg.roles => rbg'.owner = wPDIS.uid]_vars

\* docs/specs.md:263: the startup timeout is about a service that has been
\* Initializing for 30 minutes.  The code measures from its creation.
TimeoutOnlyWhileInitializing ==
    [][SameService /\ pdis.status.phase = PhaseRunning /\ pdis'.status.phase = PhaseFailed
         => pdis'.status.lastEvent # Nil \/ (cRBG # Nil /\ hasCrashLoop(cRBG.status))]_vars

\* docs/design/plan.md:492: a service that cannot be built becomes Failed.
\* MustParse panics, so the error path is never taken.
BuildFailureReported ==
    (pdis # Nil /\ ~pdis.deleting /\ BuildPanics(pdis.spec)) ~>
        (\/ pdis = Nil
         \/ pdis.deleting
         \/ ~BuildPanics(pdis.spec)
         \/ pdis.status.phase = PhaseFailed)

\* pdinferenceservice_webhook.go:190: only prefill.replicas and decode.replicas
\* may change after the creation.  ValidateUpdate compares three other fields
\* and lets the rest through, a spec that ValidateCreate refuses included.
OnlyReplicasChange ==
    [][SameService =>
         pdis'.spec = [pdis.spec EXCEPT
             !.roles["prefill"].replicas = pdis'.spec.roles["prefill"].replicas,
             !.roles["decode"].replicas = pdis'.spec.roles["decode"].replicas]]_vars

\* docs/specs.md:98: the conditions of a service in a crash loop name it as the
\* reason.  Before the startup timeout syncStatus writes Failed for nothing but
\* a crash loop, and then shows the lastEvent of a failure that is over.
CrashLoopExplained ==
    [][pc = "writeStatus" /\ SameService /\ pdis'.status # pdis.status
       /\ pdis'.status.phase = PhaseFailed /\ pdis.uid > agedUpTo
         => pdis'.status.ready.reason # "ProfileResolveFailed"]_vars
=============================================================================
