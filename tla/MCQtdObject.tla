----------------------------- MODULE MCQtdObject -----------------------------
(* Objects and their wrappers, for TLC. *)
EXTENDS QtdObject, TLC

(* Natives among themselves, and wrappers among themselves, are            *)
(* interchangeable; no liveness is checked.                                *)
ObjectSymmetry == Permutations(Natives) \cup Permutations(Wrappers)
=============================================================================
