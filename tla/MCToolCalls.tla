------------------------------ MODULE MCToolCalls ------------------------------
(* A single call; three calls for a pool of two, and around one that must  *)
(* run alone; and one that cannot be classified.                           *)
EXTENDS ToolCalls, TLC

Kind(i, j) == [n \in 1 .. 3 |-> CASE n = i -> "exclusive" [] n = j -> "broken" [] OTHER -> "safe"]

MCBatches == {<<1, Kind(0, 0)>>, <<3, Kind(0, 0)>>, <<3, Kind(2, 0)>>, <<2, Kind(0, 2)>>}

Symmetry == Permutations(Run)
=============================================================================
