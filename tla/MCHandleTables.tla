--------------------------- MODULE MCHandleTables ---------------------------
(***************************************************************************)
(* Addresses whose hashes collide, for the model checker.                  *)
(***************************************************************************)
EXTENDS HandleTables

CONSTANTS k1, k2, k3

\* k1 and k2 meet in every table, until the perturb of k2 tells them apart; k3
\* meets them in tables of four indices.
MCHash == [k \in Key |-> CASE k = k1 -> 1 [] k = k2 -> 65 [] k = k3 -> 5]

=============================================================================
