-------------------------- MODULE MCWaylandWindow --------------------------
(* WaylandWindow on small instances. *)
EXTENDS WaylandWindow, TLC

CONSTANTS b1, b2, b3

Symmetry == Permutations(Buffers)
=============================================================================
