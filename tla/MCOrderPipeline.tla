-------------------------- MODULE MCOrderPipeline ---------------------------
(* Instances of OrderPipeline small enough for TLC. *)
EXTENDS OrderPipeline, TLC

CONSTANTS i1, i2, f1, v1, j1, j2, j3, k1, s1, s2, c1, c2

Symmetry ==
  Permutations(Jobs) \cup Permutations(Keys) \cup Permutations(Staff)
    \cup Permutations(Callers \ Admins)
=============================================================================
