---------------------------- MODULE MCTokenCache ----------------------------
(* Instances of TokenCache for TLC.                                        *)
EXTENDS TokenCache, TLC

TokenSymmetry == Permutations(Jobs) \cup Permutations(ApiKeys)
=============================================================================
