----------------------------- MODULE MCTrigger -----------------------------
(* Instances of Trigger for TLC. *)
EXTENDS TriggerSafety, TLC

CONSTANTS p1, p2, c1, c2, w1, n1, n2, t1, t2, atm, till

\* Processes, requests of a kind and tokens are interchangeable.
Symmetry == Permutations({p1, p2}) \cup Permutations({c1, c2})
              \cup Permutations({n1, n2}) \cup Permutations({t1, t2})
=============================================================================
