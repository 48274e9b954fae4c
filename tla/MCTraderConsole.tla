-------------------------- MODULE MCTraderConsole --------------------------
(* Two products, so that an edit of one can undo an edit of the other.      *)
EXTENDS TraderConsole, TLC

Symmetry == Permutations(Products)
=============================================================================
