------------------------------ MODULE MCQList ------------------------------
(* Two lists that share blocks, for TLC; neither handles nor elements    *)
(* are told apart.                                                         *)
EXTENDS QList, TLC

ListSymmetry == Permutations(Handles) \cup Permutations(Values)
=============================================================================
