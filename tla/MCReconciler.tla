---------------------------- MODULE MCReconciler ----------------------------
(* Instances of the reconciler small enough for TLC. *)
EXTENDS ReconcilerProperties

=============================================================================
