---------------------------- MODULE MCSwapchain ----------------------------
(* Small instances of Swapchain for TLC. *)
EXTENDS Swapchain, TLC

CONSTANTS b1, b2, b3, b4, c1, c2

Symmetry == Permutations(Buffers) \cup Permutations(Chains)
=============================================================================
