----------------------------- MODULE MCEsHealth -----------------------------
(* Instances of EsHealth for TLC. *)
EXTENDS EsHealth, TLC

Sym == Permutations(Tasks)
=============================================================================
