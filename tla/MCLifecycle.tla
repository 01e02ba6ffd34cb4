----------------------------- MODULE MCLifecycle -----------------------------
(***************************************************************************)
(* Values for the constants of Lifecycle.                                  *)
(***************************************************************************)
EXTENDS Lifecycle
=============================================================================
