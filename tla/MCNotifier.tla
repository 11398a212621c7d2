---------------------------- MODULE MCNotifier ----------------------------
(* Instances of Notifier for TLC. *)
EXTENDS NotifierSafety

CONSTANTS p1, p2, w1, w2, a1, s1, s2
=============================================================================
