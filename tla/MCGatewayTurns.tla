--------------------------- MODULE MCGatewayTurns ---------------------------
(* Every run has the id of the others: what tells them apart is identity.  *)
EXTENDS GatewayTurns, TLC

MCRunId == [r \in Run |-> "id"]

Symmetry == Permutations(Run)
=============================================================================
