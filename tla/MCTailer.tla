------------------------------ MODULE MCTailer ------------------------------
(* Instances of Tailer for TLC. *)
EXTENDS Tailer, TLC

\* Inode numbers are only compared for equality.
Sym == Permutations(Inodes)
=============================================================================
