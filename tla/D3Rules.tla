------------------------------ MODULE D3Rules ------------------------------
(***************************************************************************)
(* The rules of detector D3 (src/src/detectors/d3.rs): what an operation   *)
(* makes of the loaded state and of the evidence collected in a boot.      *)
(*                                                                         *)
(* A device is [bdf, id, bridge, up]: its slot, its vendor, device and     *)
(* class together, whether the class is a bridge, and the bridge above it. *)
(* An input i has the PCI snapshot (a set of devices), down, the devices   *)
(* the journal of the same boot reports without link, prior, whether the   *)
(* boot list names a prior boot, tail, that boot's combined journal, and   *)
(* unreliable, whether a reading of it was out of order.                   *)
(***************************************************************************)
EXTENDS D3Journal

Empty == [baseline |-> None, pending |-> None]     \* D3State::empty

Matching(b, snapshot) == {d \in snapshot : d.id = b.id}      \* identity_matches
AtSlot(b, snapshot) == {d \in snapshot : d.bdf = b.slot}

HardwareChanged(b, snapshot) ==
    \/ Cardinality(Matching(b, snapshot)) > 1
    \/ \E d \in Matching(b, snapshot) : d.bdf # b.slot
    \/ Matching(b, snapshot) = {} /\ \E d \in AtSlot(b, snapshot) : ~d.bridge

BusAbsent(b, snapshot) ==
    /\ Matching(b, snapshot) = {}
    /\ \A d \in AtSlot(b, snapshot) : d.bridge

\* The precursor on the paired prior boot, unless a reading was out of order.
Fires(i, b) ==
    /\ i.prior /\ i.tail # None
    /\ precursor(i.tail, b.slot).fires
    /\ ~i.unreliable

\* Mutant: a GPU that is gone and a bridge in its slot are no finding.
EvaluateBlind(i, s, n) ==
    IF s.baseline = None THEN [verdict |-> "baseline-required", pending |-> s.pending]
    ELSE IF HardwareChanged(s.baseline, i.snapshot) THEN
            [verdict |-> "hardware-changed", pending |-> None]
    ELSE [verdict |-> "ok", pending |-> s.pending]

\* Mutant: a recovery is reported in the boot of the absence too.
EvaluateAnyBoot(i, s, n) ==
    IF s.baseline = None THEN [verdict |-> "baseline-required", pending |-> s.pending]
    ELSE IF HardwareChanged(s.baseline, i.snapshot) THEN
            [verdict |-> "hardware-changed", pending |-> None]
    ELSE IF BusAbsent(s.baseline, i.snapshot) THEN [verdict |-> "bus-absent", pending |-> n]
    ELSE IF s.pending # None THEN [verdict |-> "recovered", pending |-> None]
    ELSE [verdict |-> "ok", pending |-> s.pending]

\* evaluate: the verdict of input i on state s in boot n, and the pending
\* finding it leaves.
evaluate(i, s, n) ==
    IF s.baseline = None THEN [verdict |-> "baseline-required", pending |-> s.pending]
    ELSE IF HardwareChanged(s.baseline, i.snapshot) THEN
            [verdict |-> "hardware-changed", pending |-> None]
    ELSE IF BusAbsent(s.baseline, i.snapshot) THEN [verdict |-> "bus-absent", pending |-> n]
    ELSE IF Fires(i, s.baseline) THEN [verdict |-> "precursor-warning", pending |-> s.pending]
    ELSE IF s.pending \notin {None, n} THEN [verdict |-> "recovered", pending |-> None]
    ELSE IF ~i.prior \/ i.tail = None THEN
            [verdict |-> "history-unavailable", pending |-> s.pending]
    ELSE [verdict |-> "ok", pending |-> s.pending]

\* link_down_for: the journal of this boot says that the bridge above the GPU lost its
\* link, or any device where that bridge is not known.
LinkDown(i, b) == IF b.up = None THEN i.down # {} ELSE b.up \in i.down

\* A healthy snapshot that the journal of the same boot contradicts.
Contradicted(i, b) ==
    /\ \E d \in i.snapshot : d.bdf = b.slot /\ d.id = b.id
    /\ LinkDown(i, b)

\* validate_state: a pending finding belongs to a baseline.
validate_state(s) == s.baseline = None => s.pending = None

\* run: what an operation makes of the state, or no result.
Refusal == [verdict |-> "error", state |-> Empty]

diagnose(i, s, n) ==
    IF s.baseline # None /\ Contradicted(i, s.baseline) THEN Refusal
    ELSE LET e == evaluate(i, s, n)
         IN [verdict |-> e.verdict, state |-> [s EXCEPT !.pending = e.pending]]

\* Mutant: a learn replaces the baseline that is there.
LearnAnew(i, s, n) ==
    LET at == {d \in i.snapshot : d.bdf = i.slot}
    IN IF at = {} THEN Refusal
       ELSE LET d == CHOOSE d \in at : TRUE
            IN [verdict |-> "baseline-learned",
                state |-> [pending |-> None,
                           baseline |-> [slot |-> d.bdf, id |-> d.id, up |-> d.up,
                                         learned |-> n]]]

\* A learn needs no baseline, and one device of its identity, at the slot.
learn(i, s, n) ==
    LET at == {d \in i.snapshot : d.bdf = i.slot}
    IN IF s.baseline # None \/ at = {} THEN Refusal
       ELSE LET d == CHOOSE d \in at : TRUE
            IN IF Cardinality(Matching(d, i.snapshot)) > 1 THEN Refusal
               ELSE [verdict |-> "baseline-learned",
                     state |-> [pending |-> None,
                                baseline |-> [slot |-> d.bdf, id |-> d.id, up |-> d.up,
                                              learned |-> n]]]

\* Mutant: a reset forgets the baseline and keeps the finding.
ResetBaseline(s) == [verdict |-> "baseline-reset", state |-> [s EXCEPT !.baseline = None]]

reset(s) == [verdict |-> "baseline-reset", state |-> Empty]

Operate(i, s, n) ==
    CASE i.op = "diagnose" -> diagnose(i, s, n)
      [] i.op = "learn" -> learn(i, s, n)
      [] i.op = "reset" -> reset(s)

\* diagnosis and success: the outcome as the contract sees it.  The confidence, in
\* hundredths, and the length 1 of the texts stand for any within the limits.
Finding(verdict) == verdict \in {"hardware-changed", "bus-absent", "precursor-warning"}

OutcomeOf(verdict) ==
    IF verdict = "error" THEN Error
    ELSE Build([kind |-> "diagnosis", verdict |-> verdict, finding |-> Finding(verdict),
                detector |-> "D3", rule |-> "d3.1", host |-> NoHost,
                confidence |-> IF verdict = "bus-absent" THEN 72 ELSE 90,
                evidence |-> <<1>>, fixes |-> <<1>>, scope |-> <<1>>, missing |-> <<>>,
                plain |-> 1, basis |-> 1, falsifier |-> 1, alternative |-> 1])
=============================================================================
