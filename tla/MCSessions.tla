----------------------------- MODULE MCSessions -----------------------------
(* Instances of Sessions for TLC. *)
EXTENDS Sessions

CONSTANTS t1, r1, r2, x1, x2, p1, p2
=============================================================================
