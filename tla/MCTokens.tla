-------------------------------- MODULE MCTokens -------------------------------
(* TokenSources with tokens and callers that can be exchanged.              *)
EXTENDS TokenProperties, TLC

Symmetry == Permutations(Token) \cup Permutations(Caller)
=============================================================================
