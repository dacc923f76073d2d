------------------------ MODULE MCTEServerLifecycle -------------------------
(* Instances of TEServerLifecycle for TLC. *)
EXTENDS TEServerLifecycle, TLC

Symmetry == Permutations(Conns) \cup Permutations(Workers)
=============================================================================
