------------------------------ MODULE MCToken ------------------------------
(* Instances of Token for TLC. *)
EXTENDS TokenInvariant, TLC

CONSTANTS bank, shop, phone, till, atm, t1, t2, t3, r1, r2, r3, p1, p2

\* The bank owns the phone its tokens are for and an ATM, a shop the till.
Owners == phone :> bank @@ atm :> bank @@ till :> shop

\* Tokens, requests and codes are interchangeable (safety runs only).
Symmetry == Permutations({t1, t2, t3}) \cup Permutations({r1, r2, r3})
              \cup Permutations({p1, p2})
=============================================================================
