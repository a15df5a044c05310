---------------------------- MODULE MCWatchManager ----------------------------
(***************************************************************************)
(* The watch manager for TLC: callers and tokens are interchangeable.      *)
(***************************************************************************)
EXTENDS WatchProperties, TLC

Symmetry == Permutations(Caller) \cup Permutations(Token)
=============================================================================
