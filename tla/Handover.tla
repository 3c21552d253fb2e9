------------------------------ MODULE Handover ------------------------------
(***************************************************************************)
(* Two managers for a while.  Leader election is a lease: a manager that   *)
(* was paused or cut off goes on with the call of Reconcile it is in while *)
(* another one already leads, until it finds its lease lost and the        *)
(* process ends.  Its informers run as long as it does, so the rest of its *)
(* call reads groups and profiles the new leader may have written, and     *)
(* acts on them for the service it fetched before.                         *)
(*                                                                         *)
(* The variables of Reconciler are the API server and the manager that     *)
(* leads, the ones declared here are the deposed manager.  Both run the    *)
(* same code on the same API server.  What only a further call of the      *)
(* deposed manager would look at, its service cache and its queue, is not  *)
(* followed: such a call is not modelled.                                  *)
(***************************************************************************)
EXTENDS Reconciler

VARIABLES
    handover,   \* before it, while the deposed manager still runs, and after
    oPdisWatch, oRbgWatch, oProfileWatch, oCPDIS, oCRBG, oCProfiles,
    oQueue, oDelayed, oPc, oWPDIS, oWPDISCurrent, oWRBGCurrent, oWDesired

deposedVars == <<handover, oPdisWatch, oRbgWatch, oProfileWatch, oCPDIS, oCRBG,
                 oCProfiles, oQueue, oDelayed, oPc, oWPDIS, oWPDISCurrent,
                 oWRBGCurrent, oWDesired>>

handVars == <<vars, deposedVars>>

Deposed == INSTANCE Reconciler WITH
    pdisWatch <- oPdisWatch, rbgWatch <- oRbgWatch, profileWatch <- oProfileWatch,
    cPDIS <- oCPDIS, cRBG <- oCRBG, cProfiles <- oCProfiles,
    queue <- oQueue, delayed <- oDelayed,
    pc <- oPc, wPDIS <- oWPDIS, wPDISCurrent <- oWPDISCurrent,
    wRBGCurrent <- oWRBGCurrent, wDesired <- oWDesired

HandInit ==
    /\ Init
    /\ handover = "before"
    /\ oPdisWatch = <<>> /\ oRbgWatch = <<>> /\ oProfileWatch = <<>>
    /\ oCPDIS = Nil /\ oCRBG = Nil /\ oCProfiles = Nil
    /\ oQueue = FALSE /\ oDelayed = FALSE
    /\ oPc = "idle" /\ oWPDIS = Nil /\ oWDesired = Nil
    /\ oWPDISCurrent = FALSE /\ oWRBGCurrent = FALSE

-----------------------------------------------------------------------------
\* Another manager leads while this one is in Reconcile.
TakeOver ==
    /\ handover = "before" /\ pc # "idle"
    /\ handover' = "during"
    /\ oRbgWatch' = rbgWatch /\ oProfileWatch' = profileWatch
    /\ oCRBG' = cRBG /\ oCProfiles' = cProfiles
    /\ oPc' = pc /\ oWPDIS' = wPDIS /\ oWDesired' = wDesired
    /\ oWPDISCurrent' = wPDISCurrent /\ oWRBGCurrent' = wRBGCurrent
    /\ oQueue' = TRUE
    /\ UNCHANGED <<oPdisWatch, oCPDIS, oDelayed>>
    /\ Relist
    /\ UNCHANGED envVars

\* The deposed manager takes the next step of its call, or one of the caches
\* this call reads from catches up.
DeposedWorks ==
    /\ handover = "during" /\ oPc # "idle"
    /\ Deposed!Worker \/ Deposed!RBGInformer \/ Deposed!ProfileInformer
    /\ Observes
    /\ UNCHANGED handover

\* The process ends, at the latest when the call has returned.
DeposedExits ==
    /\ handover = "during" /\ handover' = "after"
    /\ oPdisWatch' = <<>> /\ oRbgWatch' = <<>> /\ oProfileWatch' = <<>>
    /\ oCPDIS' = Nil /\ oCRBG' = Nil /\ oCProfiles' = Nil
    /\ oQueue' = FALSE /\ oDelayed' = FALSE
    /\ oPc' = "idle" /\ oWPDIS' = Nil /\ oWDesired' = Nil
    /\ oWPDISCurrent' = FALSE /\ oWRBGCurrent' = FALSE
    /\ UNCHANGED vars

\* What the deposed manager notices of a step of anybody else: as Observes, for
\* what its call still reads.
DeposedObserves ==
    /\ oWPDISCurrent' = (oWPDISCurrent /\ pdis' = pdis)
    /\ oWRBGCurrent' = (oWRBGCurrent /\ rbg' = rbg)
    /\ oRbgWatch' = IF handover = "during" /\ rbg' # rbg
                    THEN Append(oRbgWatch, rbg') ELSE oRbgWatch
    /\ oProfileWatch' = IF handover = "during" /\ profiles' # profiles
                        THEN Append(oProfileWatch, profiles') ELSE oProfileWatch
    /\ UNCHANGED <<handover, oPdisWatch, oCPDIS, oCRBG, oCProfiles,
                   oQueue, oDelayed, oPc, oWPDIS, oWDesired>>

\* Everybody else, without the resync, the passing of 30 minutes and a group
\* deleted by hand.  The exit after the call has returned is seen by nobody, so
\* it need not wait.
Others ==
    /\ handover = "during" => oPc # "idle"
    /\ \/ Worker \/ Users \/ Faults
       \/ PDISInformer \/ RBGInformer \/ ProfileInformer \/ DelayExpires
       \/ (\E st \in RBGStatuses : RBGReportsStatus(st)) \/ CollectRBG
    /\ DeposedObserves

HandNext ==
    \/ Others
    \/ TakeOver \/ DeposedWorks \/ DeposedExits

HandSpec == HandInit /\ [][HandNext]_handVars

\* As in Reconciler, where no profile changes; and a process that has lost its
\* lease ends.
HandLiveSpec ==
    /\ HandSpec
    /\ WF_handVars(Worker /\ DeposedObserves)
    /\ WF_handVars(PDISInformer /\ DeposedObserves)
    /\ WF_handVars(RBGInformer /\ DeposedObserves)
    /\ WF_handVars(DelayExpires /\ DeposedObserves)
    /\ WF_handVars(CollectRBG /\ DeposedObserves)
    /\ WF_handVars(DeposedExits)
=============================================================================
