---------------------------- MODULE MCBionicTls -----------------------------
(* BionicTls on small instances. *)
EXTENDS BionicTls, TLC

CONSTANTS t1, t2, a1, a2

Symmetry == Permutations(Threads) \cup Permutations(Arenas)
=============================================================================
