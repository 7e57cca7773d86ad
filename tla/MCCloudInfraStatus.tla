------------------------- MODULE MCCloudInfraStatus -------------------------
(* Instances of CloudInfraStatus for TLC. *)
EXTENDS CloudInfraStatus, TLC

CONSTANTS w1, w2

Symmetry == Permutations(Workers)
=============================================================================
