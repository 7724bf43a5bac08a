--------------------------------- MODULE D3 ---------------------------------
(***************************************************************************)
(* Detector D3 over reboots: `diagnose gpu-boot` runs against one state    *)
(* file (src/src/detectors/d3.rs).                                         *)
(*                                                                         *)
(* A run takes the PCI snapshot and the journals of its boot, then waits   *)
(* for the sidecar lock, loads the state, decides, and replaces the file.  *)
(* Runs overlap, are killed between any two steps, and end with the boot.  *)
(* The PCI bus, journald and the file system are external: the GPU may be  *)
(* missing at boot or drop off the bus later, a journal may be missing.    *)
(***************************************************************************)
EXTENDS D3Rules

CONSTANTS
    Runs,        \* concurrent CLI processes
    Buses,       \* what the PCI bus may enumerate: sets of devices
    FirstBus,    \* the bus of the first boot
    Bridges,     \* the bridges whose link a journal may report down
    Slots,       \* the --slot arguments, None where it is left out
    Tails,       \* the prior-boot end-tails journald may hold
    LockTries,   \* attempts at the sidecar lock (50 in the code)
    MaxBoots, MaxRuns, MaxKills, MaxFaults   \* bounds

ASSUME D3Assumptions ==
    /\ FirstBus \in Buses
    /\ LockTries \in Nat \ {0}
    /\ {MaxBoots, MaxRuns, MaxKills, MaxFaults} \subseteq Nat
    /\ None \notin Runs /\ None \notin 1..MaxBoots /\ MaxBoots # 0

VARIABLES
    boot, bus,     \* the current boot and what its PCI bus shows
    file,          \* the state file: D3State
    holder,        \* who holds the sidecar lock
    run,           \* run[r]: a CLI process
    runs, kills, faults,
    shown,         \* history: the buses this boot has shown
    absences,      \* history: the committed bus-absent findings, <<boot, baseline>>
    recoveries     \* history: what the committed recoveries consumed, in order

world == <<boot, bus, shown>>
bounds == <<runs, kills, faults>>
commits == <<absences, recoveries>>
vars == <<world, file, holder, run, bounds, commits>>

Idle == [pc |-> "idle", op |-> "diagnose", slot |-> None, snapshot |-> {},
         prior |-> FALSE, down |-> {}, tail |-> None, unreliable |-> FALSE,
         tries |-> 0, state |-> Empty, verdict |-> "error"]

-----------------------------------------------------------------------------
(* A run, step by step *)

\* A process with some of its fields changed.
With(process, fields) ==
    [x \in DOMAIN process |-> IF x \in DOMAIN fields THEN fields[x] ELSE process[x]]

Moved(r, fields) == run' = [run EXCEPT ![r] = With(run[r], fields)]

\* The run ends and its lock is dropped.
Ends(r) ==
    /\ run' = [run EXCEPT ![r] = Idle]
    /\ holder' = IF holder = r THEN None ELSE holder

Fault == faults < MaxFaults /\ faults' = faults + 1

\* live_outcome reads the boot id, then every device of the PCI bus.
Start(r) ==
    /\ run[r].pc = "idle" /\ runs < MaxRuns
    /\ runs' = runs + 1
    /\ \E op \in {"diagnose", "learn", "reset"}, slot \in Slots :
          /\ op # "learn" => slot = None
          /\ Moved(r, [pc |-> "collect", op |-> op, slot |-> slot, snapshot |-> bus])
    /\ UNCHANGED <<world, file, holder, kills, faults, commits>>

\* The boot list may lack the older boots, and any journal may be missing or
\* without entries; the prior boot's kernel excerpt and tail are combined.
\* Only a diagnosis looks at them.
Collect(r) ==
    /\ run[r].pc = "collect"
    /\ \E prior \in BOOLEAN, tail \in Tails \cup {None}, down \in {{}, Bridges} :
          LET k == IF tail = None THEN <<>> ELSE SelectSeq(tail, LAMBDA l : l.kernel)
              kernel == IF k = <<>> THEN None ELSE k
          IN /\ prior => boot > 1
             /\ ~prior => tail = None
             /\ run[r].op # "diagnose" => ~prior /\ down = {}
             /\ Moved(r, [pc |-> "lock", prior |-> prior, down |-> down,
                          tail |-> combine_prior(kernel, tail),
                          unreliable |-> PriorTimingUnreliable(kernel, tail)])
    /\ UNCHANGED <<world, file, holder, bounds, commits>>

\* The boot id cannot be read, a device is malformed, or the boot list lacks
\* the current boot: no verdict.
CollectFails(r) ==
    /\ run[r].pc = "collect" /\ Fault
    /\ Ends(r)
    /\ UNCHANGED <<world, file, runs, kills, commits>>

\* StateStore::lock tries a bounded number of times.
Lock(r) ==
    /\ run[r].pc = "lock"
    /\ \/ /\ holder = None
          /\ holder' = r
          /\ Moved(r, [pc |-> "decide"])
       \/ /\ holder # None /\ run[r].tries + 1 < LockTries
          /\ Moved(r, [tries |-> run[r].tries + 1])
          /\ UNCHANGED holder
       \/ /\ holder # None /\ run[r].tries + 1 = LockTries
          /\ Ends(r)
    /\ UNCHANGED <<world, file, bounds, commits>>

\* The state is loaded and the operation decides; nothing is written yet.
Decide(r) ==
    /\ run[r].pc = "decide" /\ validate_state(file)
    /\ LET o == Operate(run[r], file, boot)
       IN IF o.verdict = "error" \/ OutcomeOf(o.verdict).kind = "error"
          THEN Ends(r)
          ELSE /\ Moved(r, [pc |-> "save", state |-> o.state, verdict |-> o.verdict])
               /\ UNCHANGED holder
    /\ UNCHANGED <<world, file, bounds, commits>>

\* save writes a temporary file and replaces the state file by it.
Save(r) ==
    /\ run[r].pc = "save"
    /\ Moved(r, [pc |-> "replace"])
    /\ UNCHANGED <<world, file, holder, bounds, commits>>

Replace(r) ==
    /\ run[r].pc = "replace"
    /\ file' = run[r].state
    /\ Moved(r, [pc |-> "emit"])
    /\ absences' = IF run[r].verdict = "bus-absent"
                   THEN absences \cup {<<boot, file.baseline>>} ELSE absences
    /\ recoveries' = IF run[r].verdict = "recovered"
                     THEN Append(recoveries, [from |-> file.pending, at |-> boot,
                                              baseline |-> file.baseline])
                     ELSE recoveries
    /\ UNCHANGED <<world, holder, bounds>>

\* The state cannot be read, written or replaced: the run ends without a
\* verdict and the file is as it was.
StoreFails(r) ==
    /\ run[r].pc \in {"decide", "save", "replace"} /\ Fault
    /\ Ends(r)
    /\ UNCHANGED <<world, file, runs, kills, commits>>

Emit(r) ==
    /\ run[r].pc = "emit"
    /\ Ends(r)
    /\ UNCHANGED <<world, file, bounds, commits>>

-----------------------------------------------------------------------------
(* The machine *)

Kill(r) ==
    /\ run[r].pc # "idle" /\ kills < MaxKills
    /\ kills' = kills + 1
    /\ run' = [run EXCEPT ![r] = Idle]
    /\ holder' = IF holder = r THEN None ELSE holder
    /\ UNCHANGED <<world, file, runs, faults, commits>>

\* The GPU falls off the bus of a running machine.
DropOff ==
    /\ \E b \in Buses : /\ b \subseteq bus /\ b # bus
                        /\ bus' = b
                        /\ shown' = shown \cup {b}
    /\ UNCHANGED <<boot, file, holder, run, bounds, commits>>

\* Mutant: what the last boot showed is still believed.
RebootBelieves ==
    /\ boot < MaxBoots
    /\ boot' = boot + 1
    /\ \E b \in Buses : bus' = b /\ UNCHANGED shown
    /\ run' = [r \in Runs |-> Idle] /\ holder' = None
    /\ UNCHANGED <<file, bounds, commits>>

Reboot ==
    /\ boot < MaxBoots
    /\ boot' = boot + 1
    /\ \E b \in Buses : bus' = b /\ shown' = {b}
    /\ run' = [r \in Runs |-> Idle] /\ holder' = None
    /\ UNCHANGED <<file, bounds, commits>>

Init ==
    /\ boot = 1 /\ bus = FirstBus /\ shown = {FirstBus}
    /\ file = Empty /\ holder = None
    /\ run = [r \in Runs |-> Idle]
    /\ runs = 0 /\ kills = 0 /\ faults = 0
    /\ absences = {} /\ recoveries = <<>>

Step(r) == \/ Collect(r) \/ Lock(r) \/ Decide(r) \/ Save(r) \/ Replace(r) \/ Emit(r)

Next ==
    \/ \E r \in Runs : \/ Start(r) \/ Step(r)
                       \/ CollectFails(r) \/ StoreFails(r) \/ Kill(r)
    \/ DropOff \/ Reboot

Spec == Init /\ [][Next]_vars

-----------------------------------------------------------------------------
(* Properties *)

\* The shape of the state: what the bus shows was shown in this boot.
TypeOK ==
    /\ boot \in 1..MaxBoots /\ bus \in shown /\ shown \subseteq Buses
    /\ holder \in Runs \cup {None}
    /\ file.pending \in (1..MaxBoots) \cup {None}
    /\ \A r \in Runs : run[r].pc \in {"idle", "collect", "lock", "decide", "save",
                                       "replace", "emit"}

\* run, evaluate and the lock: every absence is reported as recovered at most once, however runs overlap,
\* fail to save or are killed, and only in a later boot than the one it was
\* committed in, for the baseline it was committed for.
RecoveredOnce ==
    /\ \A i, k \in DOMAIN recoveries :
          recoveries[i].from = recoveries[k].from => i = k
    /\ \A i \in DOMAIN recoveries :
          /\ recoveries[i].from < recoveries[i].at
          /\ <<recoveries[i].from, recoveries[i].baseline>> \in absences

\* save, reset and learn: the pending finding in the file was committed as bus-absent for the very
\* baseline beside it, and the file always loads: a reset or a new baseline
\* leaves no finding behind, and a killed run no half-written state.
PendingWitnessed ==
    /\ validate_state(file)
    /\ file.pending # None => <<file.pending, file.baseline>> \in absences

\* live_outcome and run: a verdict printed in a boot is true of a bus that boot has shown, although
\* the snapshot was taken before the wait for the lock and the baseline may
\* have been learned by another run meanwhile.
VerdictTrueOfBoot ==
    \A r \in Runs : run[r].pc = "emit" =>
        LET verdict == run[r].verdict
            b == run[r].state.baseline
        IN /\ verdict = "bus-absent" => \E s \in shown : BusAbsent(b, s)
           /\ verdict = "hardware-changed" => \E s \in shown : HardwareChanged(b, s)
           /\ verdict \in {"ok", "recovered", "history-unavailable", "precursor-warning",
                           "baseline-learned"} =>
                 \E d \in UNION shown : d.bdf = b.slot /\ d.id = b.id

\* learn: a learned baseline is replaced by nothing but a reset, whichever runs
\* learn at the same time.
BaselineKept ==
    [][file.baseline # None => file'.baseline \in {file.baseline, None}]_vars

\* What holds of the detector at every moment: the shape of its state, and a state
\* file that loads and whose finding belongs to its baseline.
D3Inv == TypeOK /\ PendingWitnessed
=============================================================================
