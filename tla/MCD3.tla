-------------------------------- MODULE MCD3 --------------------------------
(* Instances of D3 for TLC. *)
EXTENDS D3

Bridge == [bdf |-> "b0", id |-> "bridge", bridge |-> TRUE, up |-> None]
Gpu(slot) == [bdf |-> slot, id |-> "gpu", bridge |-> FALSE, up |-> "b0"]

Present == {Bridge, Gpu("s1")}
MCBuses == {Present, {Bridge}, {Bridge, Gpu("s2")}}
MCSlots == {None, "s1"}

Line(t, kernel, says) ==
    [t |-> t, zone |-> 0, indent |-> FALSE, kernel |-> kernel,
     bdf |-> IF kernel THEN "s1" ELSE None, says |-> says]

\* A clean end of the prior boot, and one the precursor fires on.
MCTails == {<<Line(0, FALSE, "shutdown")>>,
            <<Line(0, TRUE, "smu"), Line(1, TRUE, "reset")>>}

Sym == Permutations(Runs)
=============================================================================
