----------------------------- MODULE MCTEClient -----------------------------
(* Instances of TEClient for TLC. *)
EXTENDS TEClient

=============================================================================
