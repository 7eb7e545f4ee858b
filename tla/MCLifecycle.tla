------------------------------ MODULE MCLifecycle -----------------------------
(***************************************************************************)
(* An instance of Lifecycle with the workers of registerLifecycle.         *)
(***************************************************************************)
EXTENDS Lifecycle
=============================================================================
