------------------------------ MODULE D3Proofs ------------------------------
(***************************************************************************)
(* Proofs about D3, for any number of concurrent runs, boots, buses and    *)
(* journals.                                                               *)
(*                                                                         *)
(* The argument: a run between its decision and its commit holds the       *)
(* sidecar lock, so the state it decided from is still the one in the      *)
(* file; what it decided follows from that state and from a snapshot of    *)
(* this boot (Follows, VerdictTrue); and the finding in the file is newer  *)
(* than every one that was reported as recovered, since a recovery removes *)
(* it and a new finding carries the number of a later boot.                *)
(***************************************************************************)
EXTENDS D3, SequenceTheorems, TLAPS

Ops == {"diagnose", "learn", "reset"}
Steps == {"idle", "collect", "lock", "decide", "save", "replace", "emit"}

\* The baselines that can be learned, and the states a file can hold.
Baselines ==
    {[slot |-> d.bdf, id |-> d.id, up |-> d.up, learned |-> n] :
        d \in UNION Buses, n \in 1..MaxBoots} \cup {None}
States == [baseline : Baselines, pending : (1..MaxBoots) \cup {None}]
Recovery == [from : 1..MaxBoots, at : 1..MaxBoots, baseline : Baselines]

\* What a decision v for the new state t says about the state s it was taken from,
\* in boot n.
Follows(v, t, s, n) ==
    /\ validate_state(t)
    /\ s.baseline # None => t.baseline \in {s.baseline, None}
    /\ v = "bus-absent" => t.pending = n /\ t.baseline = s.baseline
    /\ v = "recovered" => s.pending \notin {None, n} /\ t.pending = None
    /\ v # "bus-absent" /\ t.pending # None
          => t.pending = s.pending /\ t.baseline = s.baseline

Healthy == {"ok", "recovered", "history-unavailable", "precursor-warning",
            "baseline-learned"}

\* What a verdict says about the snapshot it was taken from.
VerdictTrue(v, b, snapshot) ==
    /\ v = "bus-absent" => BusAbsent(b, snapshot)
    /\ v = "hardware-changed" => HardwareChanged(b, snapshot)
    /\ v \in Healthy => \E d \in snapshot : d.bdf = b.slot /\ d.id = b.id

\* One run: from its decision to its end it holds the lock; its snapshot is of this
\* boot; what it will commit follows from the file as it is.
RunSound(r) ==
    /\ DOMAIN run[r] = DOMAIN Idle
    /\ run[r].pc \in Steps /\ run[r].op \in Ops
    /\ run[r].pc \in {"decide", "save", "replace", "emit"} => holder = r
    /\ run[r].pc # "idle" => run[r].snapshot \in shown
    /\ run[r].pc \in {"save", "replace", "emit"} =>
          /\ run[r].state \in States
          /\ VerdictTrue(run[r].verdict, run[r].state.baseline, run[r].snapshot)
    /\ run[r].pc \in {"save", "replace"} =>
          Follows(run[r].verdict, run[r].state, file, boot)

RunsSound == run = [r \in Runs |-> run[r]] /\ \A r \in Runs : RunSound(r)

\* The finding in the file is newer than every recovered one.
PendingNewest ==
    file.pending # None =>
        /\ file.pending <= boot
        /\ \A i \in DOMAIN recoveries : recoveries[i].from < file.pending

\* The history of recoveries.
RecoveriesPast ==
    /\ recoveries \in Seq(Recovery)
    /\ \A i \in DOMAIN recoveries : recoveries[i].at <= boot

IInv ==
    /\ TypeOK /\ RunsSound /\ file \in States
    /\ PendingWitnessed /\ PendingNewest /\ RecoveriesPast /\ RecoveredOnce

USE D3Assumptions

-----------------------------------------------------------------------------
(* The rules *)

\* A snapshot that is neither a changed hardware nor an absence shows the GPU.
LEMMA PresentOtherwise ==
  ASSUME NEW b, NEW snapshot, ~HardwareChanged(b, snapshot), ~BusAbsent(b, snapshot)
  PROVE  \E d \in snapshot : d.bdf = b.slot /\ d.id = b.id
BY DEF HardwareChanged, BusAbsent, Matching, AtSlot

LEMMA EvaluateSound ==
  ASSUME NEW i, NEW s \in States, validate_state(s), NEW n \in 1..MaxBoots,
         NEW e, e = evaluate(i, s, n)
  PROVE  /\ [s EXCEPT !.pending = e.pending] \in States
         /\ Follows(e.verdict, [s EXCEPT !.pending = e.pending], s, n)
         /\ VerdictTrue(e.verdict, s.baseline, i.snapshot)
<1> DEFINE t == [s EXCEPT !.pending = e.pending]
<1>0. /\ s.pending \in (1..MaxBoots) \cup {None} /\ s.baseline \in Baselines
      /\ t.baseline = s.baseline /\ t.pending = e.pending
      /\ e.pending \in (1..MaxBoots) \cup {None} => t \in States
  BY DEF States
<1> HIDE DEF t
<1> SUFFICES /\ e.pending \in (1..MaxBoots) \cup {None}
             /\ Follows(e.verdict, t, s, n)
             /\ VerdictTrue(e.verdict, s.baseline, i.snapshot)
    BY <1>0 DEF t
<1>1. CASE s.baseline = None
  <2>1. e = [verdict |-> "baseline-required", pending |-> s.pending]
    BY <1>1 DEF evaluate
  <2> QED
    BY <1>0, <1>1, <2>1 DEF Follows, VerdictTrue, Healthy, validate_state
<1>2. CASE s.baseline # None /\ HardwareChanged(s.baseline, i.snapshot)
  <2>1. e = [verdict |-> "hardware-changed", pending |-> None]
    BY <1>2 DEF evaluate
  <2> QED
    BY <1>0, <1>2, <2>1 DEF Follows, VerdictTrue, Healthy, validate_state
<1>3. CASE s.baseline # None /\ ~HardwareChanged(s.baseline, i.snapshot)
           /\ BusAbsent(s.baseline, i.snapshot)
  <2>1. e = [verdict |-> "bus-absent", pending |-> n]
    BY <1>3 DEF evaluate
  <2> QED
    BY <1>0, <1>3, <2>1 DEF Follows, VerdictTrue, Healthy, validate_state
<1>4. CASE s.baseline # None /\ ~HardwareChanged(s.baseline, i.snapshot)
           /\ ~BusAbsent(s.baseline, i.snapshot)
  <2>1. \/ e = [verdict |-> "recovered", pending |-> None] /\ s.pending \notin {None, n}
        \/ \E v \in {"precursor-warning", "history-unavailable", "ok"} :
              e = [verdict |-> v, pending |-> s.pending]
    BY <1>4 DEF evaluate
  <2>2. \E d \in i.snapshot : d.bdf = s.baseline.slot /\ d.id = s.baseline.id
    BY <1>4, PresentOtherwise
  <2>3. /\ e.pending \in (1..MaxBoots) \cup {None} /\ e.verdict \in Healthy
        /\ e.pending \in {None, s.pending}
        /\ e.verdict = "recovered" => s.pending \notin {None, n} /\ e.pending = None
        /\ e.verdict \notin {"bus-absent", "hardware-changed"}
    BY <1>0, <2>1 DEF Healthy
  <2>4. Follows(e.verdict, t, s, n)
    BY <1>0, <1>4, <2>3 DEF Follows, validate_state
  <2>5. VerdictTrue(e.verdict, s.baseline, i.snapshot)
    BY <2>2, <2>3 DEF VerdictTrue
  <2> QED
    BY <2>3, <2>4, <2>5
<1> QED
  BY <1>1, <1>2, <1>3, <1>4

\* diagnose, learn and reset: what they decide follows from the state and is true of
\* the snapshot.
LEMMA OperateSound ==
  ASSUME NEW i, NEW s \in States, validate_state(s), NEW n \in 1..MaxBoots,
         i.op \in Ops, i.snapshot \in Buses,
         NEW o, o = Operate(i, s, n), o.verdict # "error"
  PROVE  /\ o.state \in States
         /\ Follows(o.verdict, o.state, s, n)
         /\ VerdictTrue(o.verdict, o.state.baseline, i.snapshot)
<1>1. CASE i.op = "diagnose"
  <2>1. o = diagnose(i, s, n)
    BY <1>1 DEF Operate
  <2>2. PICK e : e = evaluate(i, s, n)
    OBVIOUS
  <2> DEFINE t == [s EXCEPT !.pending = e.pending]
  <2>3. o = [verdict |-> e.verdict, state |-> t]
    BY <2>1, <2>2 DEF diagnose, Refusal
  <2>4. /\ t \in States /\ Follows(e.verdict, t, s, n)
        /\ VerdictTrue(e.verdict, s.baseline, i.snapshot)
    BY <2>2, EvaluateSound
  <2>5. t.baseline = s.baseline
    BY DEF States
  <2> HIDE DEF t
  <2> QED
    BY <2>3, <2>4, <2>5
<1>2. CASE i.op = "learn"
  <2> DEFINE at == {d \in i.snapshot : d.bdf = i.slot}
             d == CHOOSE d \in at : TRUE
             b == [slot |-> d.bdf, id |-> d.id, up |-> d.up, learned |-> n]
  <2>1. o = learn(i, s, n)
    BY <1>2 DEF Operate
  <2>2. s.baseline = None /\ at # {}
        /\ o = [verdict |-> "baseline-learned", state |-> [pending |-> None, baseline |-> b]]
    BY <2>1 DEF learn, Refusal
  <2>3. d \in i.snapshot
    BY <2>2
  <2>4. b.slot = d.bdf /\ b.id = d.id
    OBVIOUS
  <2> HIDE DEF d
  <2>5. b \in Baselines
    BY <2>3 DEF Baselines
  <2> HIDE DEF b
  <2>6. o.verdict = "baseline-learned" /\ o.state = [pending |-> None, baseline |-> b]
    BY <2>2
  <2>7. o.state \in States /\ o.state.baseline = b /\ o.state.pending = None
    BY <2>5, <2>6 DEF States
  <2> QED
    BY <2>2, <2>3, <2>4, <2>6, <2>7 DEF Follows, VerdictTrue, Healthy, validate_state
<1>3. CASE i.op = "reset"
  <2>1. o = [verdict |-> "baseline-reset", state |-> Empty]
    BY <1>3 DEF Operate, reset
  <2>2. Empty \in States
    BY DEF Empty, States, Baselines
  <2> QED
    BY <2>1, <2>2 DEF Empty, Follows, VerdictTrue, Healthy, validate_state
<1> QED
  BY <1>1, <1>2, <1>3 DEF Ops

-----------------------------------------------------------------------------
(* The runs *)

LEMMA IdleSound ==
  ASSUME NEW r \in Runs, run[r] = Idle
  PROVE  RunSound(r)
BY DEF RunSound, Idle, Steps, Ops

LEMMA InitIInv == Init => IInv
<1> SUFFICES ASSUME Init PROVE IInv
    OBVIOUS
<1>1. RunsSound
  BY IdleSound DEF Init, RunsSound
<1>2. Empty \in States /\ Empty.pending = None /\ Empty.baseline = None
  BY DEF Empty, States, Baselines
<1>3. TypeOK
  BY <1>1, <1>2 DEF Init, TypeOK, RunsSound, RunSound, Steps
<1>4. PendingWitnessed /\ PendingNewest
  BY <1>2 DEF Init, PendingWitnessed, PendingNewest, validate_state
<1>5. RecoveriesPast /\ RecoveredOnce
  <2>1. recoveries = <<>> /\ recoveries \in Seq(Recovery) /\ DOMAIN recoveries = {}
    BY DEF Init
  <2> QED
    BY <2>1 DEF RecoveriesPast, RecoveredOnce
<1> QED
  BY <1>1, <1>2, <1>3, <1>4, <1>5 DEF IInv, Init

\* A step of run r that leaves the machine, the file and the history alone, and
\* takes the lock from nobody else, has only its own run to account for.
LEMMA LocalStep ==
  ASSUME IInv, NEW r \in Runs, UNCHANGED <<boot, bus, shown, file, absences, recoveries>>,
         NEW p, run' = [run EXCEPT ![r] = p],
         holder' \in Runs \cup {None},
         \A q \in Runs : q # r /\ holder = q => holder' = q,
         RunSound(r)'
  PROVE  IInv'
<1>1. ASSUME NEW q \in Runs PROVE RunSound(q)'
  <2>1. CASE q = r
    BY <2>1
  <2>2. CASE q # r
    <3>1. run'[q] = run[q] /\ RunSound(q)
      BY <2>2 DEF IInv, RunsSound
    <3> QED
      BY <2>2, <3>1 DEF RunSound
  <2> QED
    BY <2>1, <2>2
<1>2. run' = [q \in Runs |-> run'[q]]
  BY DEF IInv, RunsSound
<1>3. RunsSound'
  BY <1>1, <1>2 DEF RunsSound
<1>4. TypeOK'
  BY <1>3 DEF IInv, TypeOK, RunsSound, RunSound, Steps
<1> QED
  BY <1>3, <1>4 DEF IInv, PendingWitnessed, PendingNewest, RecoveriesPast, RecoveredOnce

\* The end of a run, at whatever step.
LEMMA EndsIInv ==
  ASSUME IInv, NEW r \in Runs, Ends(r),
         UNCHANGED <<boot, bus, shown, file, absences, recoveries>>
  PROVE  IInv'
<1>1. run' = [run EXCEPT ![r] = Idle] /\ holder' = IF holder = r THEN None ELSE holder
  BY DEF Ends
<1>2. run'[r] = Idle
  BY <1>1 DEF IInv, RunsSound
<1>3. RunSound(r)'
  BY <1>2 DEF RunSound, Idle, Steps, Ops
<1>4. holder' \in Runs \cup {None} /\ \A q \in Runs : q # r /\ holder = q => holder' = q
  BY <1>1 DEF IInv, TypeOK
<1> QED
  BY <1>1, <1>3, <1>4, LocalStep

LEMMA StartIInv ==
  ASSUME IInv, NEW r \in Runs, Start(r)
  PROVE  IInv'
<1>1. UNCHANGED <<boot, bus, shown, file, holder, absences, recoveries>>
  BY DEF Start, world, commits
<1>2. PICK op \in Ops, slot \in Slots :
         Moved(r, [pc |-> "collect", op |-> op, slot |-> slot, snapshot |-> bus])
  BY DEF Start, Ops
<1> DEFINE p == With(run[r], [pc |-> "collect", op |-> op, slot |-> slot, snapshot |-> bus])
<1>3. run' = [run EXCEPT ![r] = p] /\ run'[r] = p
  BY <1>2 DEF Moved, IInv, RunsSound
<1>4. DOMAIN p = DOMAIN Idle /\ p.pc = "collect" /\ p.op = op /\ p.snapshot = bus
  BY DEF With, IInv, RunsSound, RunSound, Idle
<1> HIDE DEF p
<1>5. bus \in shown
  BY DEF IInv, TypeOK
<1>6. RunSound(r)'
  BY <1>1, <1>3, <1>4, <1>5 DEF RunSound, Steps
<1>7. holder' \in Runs \cup {None}
  BY <1>1 DEF IInv, TypeOK
<1> QED
  BY <1>1, <1>3, <1>6, <1>7, LocalStep

LEMMA CollectIInv ==
  ASSUME IInv, NEW r \in Runs, Collect(r)
  PROVE  IInv'
<1>1. UNCHANGED <<boot, bus, shown, file, holder, absences, recoveries>> /\ run[r].pc = "collect"
  BY DEF Collect, world, commits
<1>2. PICK prior, tail, down, unreliable :
         Moved(r, [pc |-> "lock", prior |-> prior, down |-> down, tail |-> tail,
                   unreliable |-> unreliable])
  BY DEF Collect
<1> DEFINE p == With(run[r], [pc |-> "lock", prior |-> prior, down |-> down, tail |-> tail,
                              unreliable |-> unreliable])
<1>3. run' = [run EXCEPT ![r] = p] /\ run'[r] = p
  BY <1>2 DEF Moved, IInv, RunsSound
<1>4. DOMAIN p = DOMAIN Idle /\ p.pc = "lock" /\ p.op = run[r].op /\ p.snapshot = run[r].snapshot
  BY DEF With, IInv, RunsSound, RunSound, Idle
<1> HIDE DEF p
<1>5. run[r].op \in Ops /\ run[r].snapshot \in shown
  BY <1>1 DEF IInv, RunsSound, RunSound
<1>6. RunSound(r)'
  BY <1>1, <1>3, <1>4, <1>5 DEF RunSound, Steps
<1>7. holder' \in Runs \cup {None}
  BY <1>1 DEF IInv, TypeOK
<1> QED
  BY <1>1, <1>3, <1>6, <1>7, LocalStep

LEMMA LockIInv ==
  ASSUME IInv, NEW r \in Runs, Lock(r)
  PROVE  IInv'
<1>1. UNCHANGED <<boot, bus, shown, file, absences, recoveries>> /\ run[r].pc = "lock"
  BY DEF Lock, world, commits
<1>2. run[r].op \in Ops /\ run[r].snapshot \in shown
  BY <1>1 DEF IInv, RunsSound, RunSound
<1>3. CASE holder = None /\ holder' = r /\ Moved(r, [pc |-> "decide"])
  <2> DEFINE p == With(run[r], [pc |-> "decide"])
  <2>1. run' = [run EXCEPT ![r] = p] /\ run'[r] = p
    BY <1>3 DEF Moved, IInv, RunsSound
  <2>2. DOMAIN p = DOMAIN Idle /\ p.pc = "decide" /\ p.op = run[r].op /\ p.snapshot = run[r].snapshot
    BY DEF With, IInv, RunsSound, RunSound, Idle
  <2> HIDE DEF p
  <2>3. RunSound(r)'
    BY <1>1, <1>2, <1>3, <2>1, <2>2 DEF RunSound, Steps
  <2>4. holder' \in Runs \cup {None} /\ \A q \in Runs : q # r /\ holder = q => holder' = q
    BY <1>3
  <2> QED
    BY <1>1, <2>1, <2>3, <2>4, LocalStep
<1>4. CASE Moved(r, [tries |-> run[r].tries + 1]) /\ UNCHANGED holder
  <2> DEFINE p == With(run[r], [tries |-> run[r].tries + 1])
  <2>1. run' = [run EXCEPT ![r] = p] /\ run'[r] = p
    BY <1>4 DEF Moved, IInv, RunsSound
  <2>2. DOMAIN p = DOMAIN Idle /\ p.pc = "lock" /\ p.op = run[r].op /\ p.snapshot = run[r].snapshot
    BY <1>1 DEF With, IInv, RunsSound, RunSound, Idle
  <2> HIDE DEF p
  <2>3. RunSound(r)'
    BY <1>1, <1>2, <1>4, <2>1, <2>2 DEF RunSound, Steps
  <2>4. holder' \in Runs \cup {None}
    BY <1>4 DEF IInv, TypeOK
  <2> QED
    BY <1>1, <1>4, <2>1, <2>3, <2>4, LocalStep
<1>5. CASE Ends(r)
  BY <1>1, <1>5, EndsIInv
<1> QED
  BY <1>3, <1>4, <1>5 DEF Lock

LEMMA DecideIInv ==
  ASSUME IInv, NEW r \in Runs, Decide(r)
  PROVE  IInv'
<1>1. UNCHANGED <<boot, bus, shown, file, absences, recoveries>>
      /\ run[r].pc = "decide" /\ validate_state(file)
  BY DEF Decide, world, commits
<1>2. run[r].op \in Ops /\ run[r].snapshot \in shown /\ holder = r
  BY <1>1 DEF IInv, RunsSound, RunSound
<1>3. file \in States /\ boot \in 1..MaxBoots /\ run[r].snapshot \in Buses
  BY <1>2 DEF IInv, TypeOK
<1>4. PICK o : o = Operate(run[r], file, boot)
  OBVIOUS
<1>5. \/ Ends(r)
      \/ /\ o.verdict # "error" /\ holder' = holder
         /\ Moved(r, [pc |-> "save", state |-> o.state, verdict |-> o.verdict])
  BY <1>4 DEF Decide
<1>6. CASE Ends(r)
  BY <1>1, <1>6, EndsIInv
<1>7. CASE /\ o.verdict # "error" /\ holder' = holder
           /\ Moved(r, [pc |-> "save", state |-> o.state, verdict |-> o.verdict])
  <2>1. /\ o.state \in States /\ Follows(o.verdict, o.state, file, boot)
        /\ VerdictTrue(o.verdict, o.state.baseline, run[r].snapshot)
    BY <1>1, <1>2, <1>3, <1>4, <1>7, OperateSound
  <2> DEFINE p == With(run[r], [pc |-> "save", state |-> o.state, verdict |-> o.verdict])
  <2>2. run' = [run EXCEPT ![r] = p] /\ run'[r] = p
    BY <1>7 DEF Moved, IInv, RunsSound
  <2>3. DOMAIN p = DOMAIN Idle /\ p.pc = "save" /\ p.op = run[r].op
        /\ p.snapshot = run[r].snapshot /\ p.state = o.state /\ p.verdict = o.verdict
    BY DEF With, IInv, RunsSound, RunSound, Idle
  <2> HIDE DEF p
  <2>4. RunSound(r)'
    BY <1>1, <1>2, <1>7, <2>1, <2>2, <2>3 DEF RunSound, Steps
  <2> QED
    BY <1>1, <1>2, <1>7, <2>2, <2>4, LocalStep
<1> QED
  BY <1>5, <1>6, <1>7

LEMMA SaveIInv ==
  ASSUME IInv, NEW r \in Runs, Save(r)
  PROVE  IInv'
<1>1. UNCHANGED <<boot, bus, shown, file, holder, absences, recoveries>> /\ run[r].pc = "save"
      /\ Moved(r, [pc |-> "replace"])
  BY DEF Save, world, commits
<1>2. RunSound(r)
  BY DEF IInv, RunsSound
<1> DEFINE p == With(run[r], [pc |-> "replace"])
<1>3. run' = [run EXCEPT ![r] = p] /\ run'[r] = p
  BY <1>1 DEF Moved, IInv, RunsSound
<1>4. DOMAIN p = DOMAIN Idle /\ p.pc = "replace" /\ p.op = run[r].op
      /\ p.snapshot = run[r].snapshot /\ p.state = run[r].state /\ p.verdict = run[r].verdict
  BY <1>2 DEF With, RunSound, Idle
<1> HIDE DEF p
<1>5. RunSound(r)'
  BY <1>1, <1>2, <1>3, <1>4 DEF RunSound, Steps
<1>6. holder' \in Runs \cup {None}
  BY <1>1 DEF IInv, TypeOK
<1> QED
  BY <1>1, <1>3, <1>5, <1>6, LocalStep

\* The commit: the lock keeps every other run away from the file.
LEMMA ReplaceRuns ==
  ASSUME IInv, NEW r \in Runs, Replace(r)
  PROVE  RunsSound' /\ TypeOK'
<1>1. /\ UNCHANGED <<boot, bus, shown, holder>> /\ run[r].pc = "replace"
      /\ file' = run[r].state /\ Moved(r, [pc |-> "emit"])
  BY DEF Replace, world
<1>2. RunSound(r) /\ holder = r
  BY <1>1 DEF IInv, RunsSound, RunSound
<1> DEFINE p == With(run[r], [pc |-> "emit"])
<1>3. run' = [run EXCEPT ![r] = p] /\ run'[r] = p
  BY <1>1 DEF Moved, IInv, RunsSound
<1>4. DOMAIN p = DOMAIN Idle /\ p.pc = "emit" /\ p.op = run[r].op
      /\ p.snapshot = run[r].snapshot /\ p.state = run[r].state /\ p.verdict = run[r].verdict
  BY <1>2 DEF With, RunSound, Idle
<1> HIDE DEF p
<1>5. RunSound(r)'
  BY <1>1, <1>2, <1>3, <1>4 DEF RunSound, Steps
<1>6. ASSUME NEW q \in Runs, q # r PROVE RunSound(q)'
  <2>1. run'[q] = run[q] /\ RunSound(q)
    BY <1>3, <1>6 DEF IInv, RunsSound
  <2>2. run[q].pc \notin {"decide", "save", "replace", "emit"}
    BY <1>2, <1>6, <2>1 DEF RunSound
  <2> QED
    BY <1>1, <2>1, <2>2 DEF RunSound
<1>7. RunsSound'
  BY <1>3, <1>5, <1>6 DEF IInv, RunsSound
<1>8. file'.pending \in (1..MaxBoots) \cup {None}
  BY <1>1, <1>2 DEF RunSound, States
<1> QED
  BY <1>1, <1>7, <1>8 DEF IInv, TypeOK, RunsSound, RunSound, Steps

LEMMA RecoveryTypes ==
  ASSUME RecoveriesPast, NEW i \in DOMAIN recoveries
  PROVE  recoveries[i].from \in 1..MaxBoots /\ recoveries[i].at \in 1..MaxBoots
<1>1. recoveries[i] \in Recovery
  BY DEF RecoveriesPast
<1> QED
  BY <1>1 DEF Recovery

LEMMA ReplaceIInv ==
  ASSUME IInv, NEW r \in Runs, Replace(r)
  PROVE  IInv'
<1> DEFINE v == run[r].verdict
           t == run[r].state
<1>1. /\ boot' = boot /\ run[r].pc = "replace" /\ file' = t
      /\ absences' = IF v = "bus-absent" THEN absences \cup {<<boot, file.baseline>>}
                     ELSE absences
      /\ recoveries' = IF v = "recovered"
                       THEN Append(recoveries, [from |-> file.pending, at |-> boot,
                                                baseline |-> file.baseline])
                       ELSE recoveries
  BY DEF Replace, world
<1>2. t \in States /\ Follows(v, t, file, boot)
  BY <1>1 DEF IInv, RunsSound, RunSound
<1>3. RunsSound' /\ TypeOK'
  BY ReplaceRuns
<1>4. /\ file \in States /\ PendingWitnessed /\ PendingNewest /\ RecoveriesPast /\ RecoveredOnce
      /\ boot \in 1..MaxBoots
  BY DEF IInv, TypeOK
<1> HIDE DEF v, t
<1>5. PendingWitnessed'
  BY <1>1, <1>2, <1>4 DEF PendingWitnessed, Follows, validate_state
<1>6. CASE v = "recovered"
  <2> DEFINE x == [from |-> file.pending, at |-> boot, baseline |-> file.baseline]
  <2>1. file.pending \notin {None, boot} /\ t.pending = None
    BY <1>2, <1>6 DEF Follows
  <2>2. file.pending \in 1..MaxBoots /\ file.pending < boot
    BY <1>4, <2>1 DEF States, PendingNewest
  <2>3. x \in Recovery /\ x.from = file.pending /\ x.at = boot /\ x.baseline = file.baseline
    BY <1>4, <2>2 DEF Recovery, States
  <2>4. recoveries' = Append(recoveries, x) /\ absences' = absences
    BY <1>1, <1>6
  <2> HIDE DEF x
  <2>5. /\ recoveries' \in Seq(Recovery) /\ DOMAIN recoveries' = 1..(Len(recoveries) + 1)
        /\ DOMAIN recoveries = 1..Len(recoveries) /\ Len(recoveries) \in Nat
        /\ \A i \in 1..Len(recoveries) : recoveries'[i] = recoveries[i]
        /\ recoveries'[Len(recoveries) + 1] = x
    BY <1>4, <2>3, <2>4 DEF RecoveriesPast
  <2>6. RecoveriesPast'
    BY <1>1, <1>4, <2>3, <2>5 DEF RecoveriesPast
  <2>7. \A i \in DOMAIN recoveries : recoveries[i].from < file.pending /\ recoveries[i].from \in Nat
    <3>1. \A i \in DOMAIN recoveries : recoveries[i].from \in 1..MaxBoots
      BY <1>4, RecoveryTypes
    <3> QED
      BY <1>4, <2>1, <3>1 DEF PendingNewest
  <2>8. <<file.pending, file.baseline>> \in absences
    BY <1>4, <2>1 DEF PendingWitnessed
  <2>9. RecoveredOnce'
    <3>1. ASSUME NEW i \in DOMAIN recoveries', NEW k \in DOMAIN recoveries',
                 recoveries'[i].from = recoveries'[k].from
          PROVE  i = k
      BY <1>4, <2>2, <2>3, <2>5, <2>7, <3>1 DEF RecoveredOnce
    <3>2. ASSUME NEW i \in DOMAIN recoveries'
          PROVE  /\ recoveries'[i].from < recoveries'[i].at
                 /\ <<recoveries'[i].from, recoveries'[i].baseline>> \in absences'
      <4>1. CASE i \in 1..Len(recoveries)
        BY <1>4, <2>4, <2>5, <4>1 DEF RecoveredOnce
      <4>2. CASE i = Len(recoveries) + 1
        BY <2>2, <2>3, <2>4, <2>5, <2>8, <4>2
      <4> QED
        BY <2>5, <4>1, <4>2
    <3> QED
      BY <3>1, <3>2 DEF RecoveredOnce
  <2>10. PendingNewest'
    BY <1>1, <2>1 DEF PendingNewest
  <2> QED
    BY <1>1, <1>2, <1>3, <1>5, <2>6, <2>9, <2>10 DEF IInv
<1>7. CASE v # "recovered"
  <2>1. recoveries' = recoveries /\ absences \subseteq absences'
    BY <1>1, <1>7
  <2>2. RecoveriesPast' /\ RecoveredOnce'
    BY <1>1, <1>4, <2>1 DEF RecoveriesPast, RecoveredOnce
  <2>3. \A i \in DOMAIN recoveries : recoveries[i].from < boot
    <3> SUFFICES ASSUME NEW i \in DOMAIN recoveries PROVE recoveries[i].from < boot
        OBVIOUS
    <3>1. recoveries[i].from \in 1..MaxBoots /\ recoveries[i].at \in 1..MaxBoots
      BY <1>4, RecoveryTypes
    <3>2. recoveries[i].from < recoveries[i].at /\ recoveries[i].at <= boot
      BY <1>4 DEF RecoveriesPast, RecoveredOnce
    <3> QED
      BY <1>4, <3>1, <3>2
  <2>4. PendingNewest'
    BY <1>1, <1>2, <1>4, <2>1, <2>3 DEF PendingNewest, Follows
  <2> QED
    BY <1>1, <1>2, <1>3, <1>5, <2>2, <2>4 DEF IInv
<1> QED
  BY <1>6, <1>7

-----------------------------------------------------------------------------
(* The machine *)

LEMMA DropOffIInv == IInv /\ DropOff => IInv'
<1> SUFFICES ASSUME IInv, DropOff PROVE IInv'
    OBVIOUS
<1>1. /\ UNCHANGED <<boot, file, holder, run, absences, recoveries>>
      /\ \E b \in Buses : bus' = b /\ shown' = shown \cup {b}
  BY DEF DropOff, bounds, commits
<1>2. TypeOK'
  BY <1>1 DEF IInv, TypeOK
<1>3. RunsSound'
  BY <1>1 DEF IInv, RunsSound, RunSound
<1> QED
  BY <1>1, <1>2, <1>3 DEF IInv, PendingWitnessed, PendingNewest, RecoveriesPast, RecoveredOnce

\* A new boot: nothing survives but the file and the history, which are older.
LEMMA RebootIInv == IInv /\ Reboot => IInv'
<1> SUFFICES ASSUME IInv, Reboot PROVE IInv'
    OBVIOUS
<1>1. /\ boot < MaxBoots /\ boot' = boot + 1 /\ UNCHANGED <<file, absences, recoveries>>
      /\ \E b \in Buses : bus' = b /\ shown' = {b}
      /\ run' = [r \in Runs |-> Idle] /\ holder' = None
  BY DEF Reboot, commits
<1>2. \A r \in Runs : run'[r] = Idle
  BY <1>1
<1>3. RunsSound'
  BY <1>1, <1>2 DEF RunsSound, RunSound, Idle, Steps, Ops
<1>4. TypeOK'
  BY <1>1, <1>3 DEF IInv, TypeOK, RunsSound, RunSound, Steps
<1>5. boot \in Nat /\ file.pending \in Nat \cup {None}
  BY DEF IInv, TypeOK
<1>6. PendingNewest'
  BY <1>1, <1>5 DEF IInv, PendingNewest, States
<1>7. RecoveriesPast'
  <2>1. \A i \in DOMAIN recoveries : recoveries[i].at \in Nat
    BY RecoveryTypes DEF IInv
  <2> QED
    BY <1>1, <1>5, <2>1 DEF IInv, RecoveriesPast
<1> QED
  BY <1>1, <1>3, <1>4, <1>6, <1>7 DEF IInv, PendingWitnessed, RecoveredOnce

LEMMA StepIInv == IInv /\ [Next]_vars => IInv'
<1> SUFFICES ASSUME IInv, [Next]_vars PROVE IInv'
    OBVIOUS
<1>1. ASSUME NEW r \in Runs, Step(r) PROVE IInv'
  <2>1. CASE Emit(r)
    BY <2>1, EndsIInv DEF Emit, world, commits
  <2> QED
    BY <1>1, <2>1, CollectIInv, LockIInv, DecideIInv, SaveIInv, ReplaceIInv DEF Step
<1>2. ASSUME NEW r \in Runs, CollectFails(r) \/ StoreFails(r) \/ Kill(r) PROVE IInv'
  BY <1>2, EndsIInv DEF CollectFails, StoreFails, Kill, Ends, world, commits
<1>3. CASE UNCHANGED vars
  BY <1>3 DEF vars, world, bounds, commits, IInv, TypeOK, RunsSound, RunSound,
              PendingWitnessed, PendingNewest, RecoveriesPast, RecoveredOnce
<1> QED
  BY <1>1, <1>2, <1>3, StartIInv, DropOffIInv, RebootIInv DEF Next

LEMMA AlwaysIInv == Spec => []IInv
BY InitIInv, StepIInv, PTL DEF Spec

-----------------------------------------------------------------------------
(* The theorems *)

\* save, reset and learn: the state file always loads, and its pending finding was
\* committed as an absence of the very baseline beside it, however runs overlap,
\* fail or are killed between any two steps.
THEOREM StateFileSound == Spec => []D3Inv
BY AlwaysIInv, PTL DEF IInv, D3Inv

\* run, evaluate and the lock: each absence is reported as recovered at most once,
\* in a later boot than its own and for its own baseline.
THEOREM EachRecoveryOnce == Spec => []RecoveredOnce
BY AlwaysIInv, PTL DEF IInv

\* live_outcome and run: a verdict that is printed is true of a bus this boot has
\* shown, although the snapshot is older than the lock and the baseline.
THEOREM VerdictsTrue == Spec => []VerdictTrueOfBoot
<1>1. IInv => VerdictTrueOfBoot
  BY DEF IInv, RunsSound, RunSound, VerdictTrue, VerdictTrueOfBoot, Healthy
<1> QED
  BY AlwaysIInv, <1>1, PTL

\* learn: whichever runs learn at the same time, a learned baseline is replaced by
\* nothing; only a reset removes it.
THEOREM BaselineReplacedByNone == Spec => BaselineKept
<1> DEFINE Kept == file.baseline # None => file'.baseline \in {file.baseline, None}
<1>1. IInv /\ [Next]_vars => [Kept]_vars
  <2> SUFFICES ASSUME IInv, [Next]_vars, file' # file PROVE Kept
      OBVIOUS
  <2>1. PICK r \in Runs : Replace(r)
    BY DEF Next, Start, Step, Collect, Lock, Decide, Save, Emit, CollectFails, StoreFails,
           Kill, DropOff, Reboot, vars
  <2>2. RunSound(r) /\ run[r].pc = "replace" /\ file' = run[r].state
    BY <2>1 DEF Replace, IInv, RunsSound
  <2> QED
    BY <2>2 DEF RunSound, Follows
<1> QED
  BY AlwaysIInv, <1>1, PTL DEF Spec, BaselineKept
=============================================================================
