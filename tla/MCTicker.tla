------------------------------ MODULE MCTicker ------------------------------
(***************************************************************************)
(* Ticker for TLC: symmetry over the minted IDs and the workers.           *)
(***************************************************************************)
EXTENDS Ticker, TLC

Symmetry == Permutations(Fresh) \cup Permutations(Workers)
=============================================================================
