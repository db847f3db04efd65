---------------------------- MODULE MCX11Window ----------------------------
(* X11Window on small instances. *)
EXTENDS X11Window, TLC

CONSTANTS b1, b2, b3

Symmetry == Permutations(Buffers)
=============================================================================
