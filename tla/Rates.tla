------------------------------- MODULE Rates -------------------------------
(***************************************************************************)
(* The collectors that turn the kernel's cumulative counters into rates    *)
(* (src/src/collectors/linux/cpu.rs, storage.rs, network.rs).  Each keeps  *)
(* the snapshot of its previous tick and reports what the counters of this *)
(* one have gained.  Cores, disks and interfaces come and go in between,   *)
(* and one that comes back counts from zero.                               *)
(* A count stands for every cumulative field of its line.                  *)
(***************************************************************************)
EXTENDS Integers, Sequences, SequencesExt, FiniteSets, FiniteSetsExt, Functions

CONSTANTS
    None,
    Cores, Disks, Interfaces,   \* sources, in the order of their file
    Virtual,                    \* SKIP_PREFIXES and is_virtual
    MountDevice                 \* the device of the Steam library in /proc/mounts, or None

ASSUME RatesAssumptions ==
    /\ Cores \in Seq(Range(Cores)) /\ Disks \in Seq(Range(Disks))
    /\ Interfaces \in Seq(Range(Interfaces))

Sources == Range(Cores) \cup Range(Disks) \cup Range(Interfaces)

VARIABLES
    clock,      \* Instant::now(), the same for all collectors of a tick
    meters,     \* /proc/stat, /proc/diskstats, /proc/net/dev: each source's line
    retrans,    \* RetransSegs of /proc/net/snmp
    prev,       \* each collector's previous snapshot, or None
    rates,      \* what each collector returned in this tick, or None
    moved,      \* everything each source ever counted
    replugged   \* by collector, the sources that went or came since its last collect

machine == <<meters, retrans, moved>>
rateVars == <<machine, prev, rates, replugged>>

RateCollectors == {"cpu", "storage", "network"}
FileOf == [cpu |-> Cores, storage |-> Disks, network |-> Interfaces]
NoRates == [c \in RateCollectors |-> None]

RatesInit ==
    /\ meters = [s \in Sources |-> [up |-> TRUE, idle |-> 0, count |-> 0]]
    /\ retrans = 0
    /\ moved = [s \in Sources |-> [idle |-> 0, count |-> 0]]
    /\ prev = NoRates
    /\ rates = NoRates
    /\ replugged = [c \in RateCollectors |-> {}]

-----------------------------------------------------------------------------
(* The machine *)

\* A source counts; of what a core counts, a part is idle time.
Count(s, idle) ==
    /\ meters[s].up
    /\ idle => s \in Range(Cores)
    /\ meters' = [meters EXCEPT ![s].count = @ + 1, ![s].idle = IF idle THEN @ + 1 ELSE @]
    /\ moved' = [moved EXCEPT ![s].count = @ + 1, ![s].idle = IF idle THEN @ + 1 ELSE @]
    /\ UNCHANGED <<retrans, prev, rates, replugged>>

Retransmit ==
    /\ retrans' = retrans + 1
    /\ UNCHANGED <<meters, moved, prev, rates, replugged>>

\* A source leaves its file, or comes back to it counting from zero.
Replug(s) ==
    /\ meters' = [meters EXCEPT ![s] = [up |-> ~@.up, idle |-> 0, count |-> 0]]
    /\ replugged' = [c \in RateCollectors |-> replugged[c] \cup {s}]
    /\ UNCHANGED <<retrans, moved, prev, rates>>

-----------------------------------------------------------------------------
(* Snapshots *)

\* The members of S among the lines of a file, in its order.
Listed(file, S) ==
    LET upto[n \in 0..Len(file)] ==
            IF n = 0 THEN <<>>
            ELSE IF file[n] \in S THEN Append(upto[n - 1], file[n]) ELSE upto[n - 1]
    IN upto[Len(file)]

Up(file) == {s \in Range(file) : meters[s].up}

\* The file's lines in order.  Only the network's reader looks at snmp, where a
\* file it cannot read counts as zero.
Snapshot(file, snmp) ==
    LET order == Listed(file, Up(file)) IN
    [order |-> order, lines |-> [s \in Range(order) |-> meters[s]],
     retrans |-> IF snmp THEN retrans ELSE 0, snmp |-> snmp,
     at |-> clock, was |-> moved, sent |-> retrans]

\* The positions of the real devices, and the first of them.
Real(order) == {i \in DOMAIN order : order[i] \notin Virtual}
first_real_device(order) == IF Real(order) = {} THEN None ELSE order[Min(Real(order))]

\* The real interface that has received most, the first of equals.
primary_interface(snap) ==
    LET real == Real(snap.order)
        Received(i) == snap.lines[snap.order[i]].count
        most == {i \in real : \A j \in real : Received(j) <= Received(i)}
    IN  IF real = {} THEN None ELSE snap.order[Min(most)]

\* The disk found when the collector was built: the library's, else the first real one.
find_game_device ==
    IF MountDevice # None THEN MountDevice ELSE first_real_device(Disks)

game_device(snap) ==
    IF find_game_device \in Range(snap.order) THEN find_game_device
    ELSE first_real_device(snap.order)

saturating_sub(a, b) == IF a < b THEN 0 ELSE a - b

-----------------------------------------------------------------------------
(* The collectors *)

\* Lines are paired by position, not by core.
utilisation(cur, old) ==
    [i \in 1..Min({Len(cur.order), Len(old.order)}) |->
        LET new == cur.lines[cur.order[i]]
            was == old.lines[old.order[i]]
        IN  [core |-> cur.order[i], idle |-> saturating_sub(new.idle, was.idle),
             total |-> saturating_sub(new.count, was.count)]]

CpuDoc(cur) == IF prev.cpu = None THEN None ELSE utilisation(cur, prev.cpu)

\* A rate needs an earlier snapshot, time between the two and a source in both.
Comparable(old, cur, source) ==
    /\ old # None
    /\ cur.at > old.at
    /\ source # None
    /\ source \in Range(old.order)

Gain(old, cur, source) ==
    [source |-> source, gain |-> cur.lines[source].count - old.lines[source].count,
     retrans |-> cur.retrans - old.retrans, elapsed |-> cur.at - old.at]

StorageDoc(cur) ==
    IF Comparable(prev.storage, cur, game_device(cur))
    THEN Gain(prev.storage, cur, game_device(cur)) ELSE None

NetworkDoc(cur) ==
    IF Comparable(prev.network, cur, primary_interface(cur))
    THEN Gain(prev.network, cur, primary_interface(cur)) ELSE None

\* Every path through a collector that has read its file keeps all of the new snapshot.
KeepCounters(old, cur, doc) ==
    IF old # None /\ doc = None THEN [cur EXCEPT !.retrans = old.retrans] ELSE cur
Keep(old, cur, doc) == cur

\* One tick of the three.  When /proc/stat cannot be read, the CPU collector
\* fails before it touches its snapshot.
CollectRates(stat, snmp) ==
    \E cpu \in {Snapshot(Cores, TRUE)}, disk \in {Snapshot(Disks, TRUE)},
       net \in {Snapshot(Interfaces, snmp)} :
        /\ rates' = [cpu |-> IF stat THEN CpuDoc(cpu) ELSE None,
                     storage |-> StorageDoc(disk), network |-> NetworkDoc(net)]
        /\ prev' = [cpu |-> IF stat THEN cpu ELSE prev.cpu,
                    storage |-> Keep(prev.storage, disk, StorageDoc(disk)),
                    network |-> Keep(prev.network, net, NetworkDoc(net))]
        /\ replugged' = [cpu |-> IF stat THEN {} ELSE replugged.cpu, storage |-> {}, network |-> {}]
        /\ UNCHANGED machine

=============================================================================
