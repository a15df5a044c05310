---------------------------- MODULE MCReviewRequest ---------------------------
(***************************************************************************)
(* The review requests for TLC: callers are interchangeable.               *)
(***************************************************************************)
EXTENDS ReviewProperties, TLC

Symmetry == Permutations(Caller)
=============================================================================
