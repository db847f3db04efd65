---------------------------- MODULE MCBionicSync ----------------------------
(* BionicSync on small instances. *)
EXTENDS BionicSync, TLC

CONSTANTS t1, t2, t3, o1, o2, o3, o4, m1, c1, r1

Symmetry == Permutations(Threads) \cup Permutations(Objects)
=============================================================================
