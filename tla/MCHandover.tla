----------------------------- MODULE MCHandover -----------------------------
(***************************************************************************)
(* The instances of MCReconciler for Handover.                             *)
(***************************************************************************)
EXTENDS MCReconciler, Handover
=============================================================================
