------------------------------ MODULE MCSpool ------------------------------
(* Instances of Spool for TLC: one dataset and three records, or two datasets. *)
EXTENDS Spool, TLC

CONSTANTS s1, s2, r1, r2, r3

OneSlug == [r \in Records |-> s1]
TwoSlugs == [r \in Records |-> IF r = r3 THEN s2 ELSE s1]
=============================================================================
