----------------------------- MODULE MCService -----------------------------
(* Model values for TLC.                                                   *)
EXTENDS Service

CONSTANTS c1, c2, k1, k2, k3, p1, p2, t1, a1, a2, g1, g2, u1, u2, u3, r1, r2
=============================================================================
