----------------------------- MODULE MCCycleStatus -----------------------------
(***************************************************************************)
(* The review cycle for TLC: every constant is given in the configuration. *)
(***************************************************************************)
EXTENDS CycleProperties
=============================================================================
