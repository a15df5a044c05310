------------------------------ MODULE MCWatchQuery -----------------------------
(***************************************************************************)
(* The watch manager and its queries for TLC: pull requests and tokens are *)
(* interchangeable.                                                        *)
(***************************************************************************)
EXTENDS QueryProperties, TLC

Symmetry == {p @@ q : p \in Permutations(PR), q \in Permutations(Token)}
=============================================================================
