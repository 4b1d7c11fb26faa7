------------------------ MODULE MCMemoryGenerations ------------------------
(* MemoryGenerations on small instances. *)
EXTENDS MemoryGenerations, TLC

MaintainerSymmetry == Permutations(Maintainers)
=============================================================================
