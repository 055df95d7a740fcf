-------------------------- MODULE MCFileCheckpoints --------------------------
(* Two sessions, two files, two texts, a restore and its undo. *)
EXTENDS FileCheckpoints, TLC

Symmetry == Permutations(Turn) \union Permutations(Op) \union Permutations(Path)
              \union Permutations(Text)
=============================================================================
