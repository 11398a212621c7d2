----------------------------- MODULE MCReports -----------------------------
(* An instance of Reports for TLC. *)
EXTENDS Reports, MCToken

CONSTANTS n1, n2

\* Without the ATM, whose name nobody edits here.
TwoOwners == phone :> bank @@ till :> shop

\* The names are interchangeable, too.
ReportSymmetry == Symmetry \cup Permutations({n1, n2})

\* Bound: either two inserts late or lost at a time, or one request dead.
FewLosses == Cardinality(sent \ journal) + 2 * Cardinality(orphaned) <= 2
=============================================================================
