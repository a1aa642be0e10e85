------------------------------- MODULE MCDict -------------------------------
(* Keys on which TLC checks Dict: k1 and k1e are equal, k2 has their hash,  *)
(* which perturbs a probe of four indices to 1, 3, 0, 1, 2, 3; k3 begins at *)
(* an earlier index.                                                       *)
EXTENDS Dict

CONSTANTS k1, k1e, k2, k3

MCClass == [k \in Key |-> IF k = k1e THEN k1 ELSE k]
MCHash == [k \in Key |-> IF k = k3 THEN 4 ELSE 33]

\* Nothing tells one value from another.
MCSymmetry == Permutations(Value)
=============================================================================
