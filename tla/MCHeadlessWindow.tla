-------------------------- MODULE MCHeadlessWindow --------------------------
(* HeadlessWindow on small instances. *)
EXTENDS HeadlessWindow

CONSTANTS b1, b2, b3, t1, t2, f1, f2
=============================================================================
