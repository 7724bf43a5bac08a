-------------------------- MODULE MCSessionCounter --------------------------
(* Instances of SessionCounter for TLC. *)
EXTENDS SessionCounter, TLC

Sym == Permutations(Inodes)
=============================================================================
