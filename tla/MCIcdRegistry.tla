--------------------------- MODULE MCIcdRegistry ---------------------------
(* IcdRegistry on small instances. *)
EXTENDS IcdRegistry, TLC

CONSTANTS t1, t2, i1, i2, p1, p2, d1, d2, s1, s2

Symmetry ==
  Permutations(Threads) \cup Permutations(Instances) \cup Permutations(Physicals)
    \cup Permutations(Devices) \cup Permutations(Surfaces)
=============================================================================
