----------------------------- MODULE MCTEServer -----------------------------
(* Instances of TEServer for TLC. *)
EXTENDS TEServer, TLC

Symmetry == Permutations(Conns) \cup Permutations(Workers)
=============================================================================
