---------------------------- MODULE MCWarmPool ----------------------------
(* Symmetry of WarmPool: runs and workers are interchangeable.             *)
EXTENDS WarmPool, TLC

MCSymmetry == Permutations(Runs) \union Permutations(Workers)
=============================================================================
