-------------------------- MODULE MCReadbackSubmit --------------------------
(* ReadbackSubmit on small instances. *)
EXTENDS ReadbackSubmit

CONSTANTS t1, t2, q1, q2, f1
=============================================================================
