-------------------------------- MODULE MCWrites -------------------------------
(***************************************************************************)
(* The writing tools for TLC.                                              *)
(***************************************************************************)
EXTENDS WriteProperties, TLC

Symmetry == Permutations(Caller) \cup Permutations(Tip) \cup Permutations(Text)
=============================================================================
