------------------------------ MODULE StatusAgg ------------------------------
(***************************************************************************)
(* internal/controller/status.go: how the status of the RoleBasedGroup is  *)
(* aggregated into the status of the PDInferenceService.                   *)
(***************************************************************************)
EXTENDS PDTypes

\* The part of a RoleBasedGroup's status the code reads: the readiness of each
\* role and the reasons of its conditions.
RBGRoleStatus == [name : Text, readyReplicas : Int, replicas : Int]

RBGStatus == [roleStatuses : SUBSET RBGRoleStatus, reasons : SUBSET Text]

\* The status of a group its own controller has not reported on yet.
NewRBGStatus == [roleStatuses |-> {}, reasons |-> {}]

-----------------------------------------------------------------------------
\* Variant: no role reported counts as every role ready.
allRolesReadyOfNone(st) ==
    \A rs \in st.roleStatuses : ~(rs.readyReplicas < rs.replicas)

\* Total is what the group's status says, not what the service asks for.
allRolesReady(st) ==
    /\ st.roleStatuses # {}
    /\ \A rs \in st.roleStatuses : ~(rs.readyReplicas < rs.replicas)

hasCrashLoop(st) == st.reasons \cap {"CrashLoopBackOff", "OOMKilled"} # {}

\* old: more than 30 minutes passed since the service was created.
isInitializingTooLong(st, old) == ~allRolesReady(st) /\ old

\* st is Nil when the group was not found.  The first matching case wins.
computePhase(st, deleting, old) ==
    IF deleting THEN PhaseTerminating
    ELSE IF st = Nil THEN PhasePending
    ELSE IF hasCrashLoop(st) THEN PhaseFailed
    ELSE IF isInitializingTooLong(st, old) THEN PhaseFailed
    ELSE IF allRolesReady(st) THEN PhaseRunning
    ELSE PhaseInitializing

buildRoleStatuses(st) ==
    {[name |-> rs.name, ready |-> rs.readyReplicas, total |-> rs.replicas] :
        rs \in st.roleStatuses}

-----------------------------------------------------------------------------
ReadyStatusOf(phase) ==
    CASE phase = PhaseRunning -> "True"
      [] phase \in {PhaseFailed, PhaseInitializing, PhasePending,
                    PhaseTerminating} -> "False"
      [] OTHER -> "Unknown"

ReadyReasonOf(phase, lastEvent) ==
    CASE phase = PhaseRunning -> "AllRolesReady"
      [] phase = PhaseFailed -> IF lastEvent \in {Nil, ""} THEN "ServiceFailed"
                                ELSE lastEvent
      [] phase \in {PhaseInitializing, PhasePending, PhaseTerminating} -> phase
      [] OTHER -> "Unknown"

\* Variant: every aggregation stamps the condition.
setReadyConditionStamped(status) ==
    [status EXCEPT !.ready =
        [status |-> ReadyStatusOf(status.phase),
         reason |-> ReadyReasonOf(status.phase, status.lastEvent),
         lastTransitionTime |-> IF status.ready = Nil THEN 0
                                ELSE 1 - status.ready.lastTransitionTime]]

\* The condition is stamped when it is new and when its status changes.
setReadyCondition(status) ==
    LET old == status.ready
        new == ReadyStatusOf(status.phase)
    IN  [status EXCEPT !.ready =
            [status |-> new,
             reason |-> ReadyReasonOf(status.phase, status.lastEvent),
             lastTransitionTime |-> IF old = Nil THEN 0
                                    ELSE IF old.status # new
                                    THEN 1 - old.lastTransitionTime
                                    ELSE old.lastTransitionTime]]

\* Variant: the condition is set before the phase.
AggregateStatusSwapped(status, st, deleting, old) ==
    [setReadyCondition(status) EXCEPT
        !.phase = computePhase(st, deleting, old),
        !.roleStatuses = IF st = Nil THEN @ ELSE buildRoleStatuses(st)]

\* The status syncStatus computes from the one it read; the role statuses of a
\* group that is not found are kept.
AggregateStatus(status, st, deleting, old) ==
    setReadyCondition(
        [status EXCEPT !.phase = computePhase(st, deleting, old),
                       !.roleStatuses = IF st = Nil THEN status.roleStatuses
                                        ELSE buildRoleStatuses(st)])

\* Variant: a phase the API does not know.
FailedStatusUnlisted(status, reason) ==
    [status EXCEPT !.phase = "Error", !.lastEvent = reason]

\* setFailedStatus leaves conditions and role statuses as they are.
FailedStatus(status, reason) ==
    [status EXCEPT !.phase = PhaseFailed, !.lastEvent = reason]
=============================================================================
