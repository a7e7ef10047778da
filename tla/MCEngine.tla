------------------------------ MODULE MCEngine ------------------------------
(***************************************************************************)
(* Engine for TLC: symmetry over the IDs and the goroutines that play the  *)
(* same part.                                                              *)
(***************************************************************************)
EXTENDS Engine, TLC

Symmetry == Permutations(Fresh \ (Seeded \cup Renamed)) \cup Permutations(Workers) \cup Permutations(Clients)
=============================================================================
