----------------------------- MODULE D3Offline -----------------------------
(***************************************************************************)
(* `diagnose gpu-boot --offline` (src/src/detectors/d3.rs): captured       *)
(* evidence is read, bounded, paired with the boots of the inventory, and  *)
(* judged by the rules of D3Rules.                                         *)
(*                                                                         *)
(* The options o hold, None where a flag is not given: offline, learn,     *)
(* reset (flags); slot; pci, the snapshot [boot, rows]; state, the state   *)
(* file's content; bootId; list, the boot inventory, a sequence of         *)
(* [boot, from, to, fromZone, toZone], the boot's first and last instant   *)
(* and the zones they are written in; current, kernel and tail, the        *)
(* journals.                                                               *)
(***************************************************************************)
EXTENDS D3Rules

\* parse_pci_snapshot: every row is well formed, no slot occurs twice and
\* every bridge a row's path names is a row.
SnapshotParses(pci) ==
    /\ pci.rows # <<>> /\ pci.boot # "bad"
    /\ \A i \in DOMAIN pci.rows : pci.rows[i].ok
    /\ \A i, k \in DOMAIN pci.rows : pci.rows[i].dev.bdf = pci.rows[k].dev.bdf => i = k
    /\ \A i \in DOMAIN pci.rows :
          pci.rows[i].dev.up \in {None} \cup {pci.rows[k].dev.bdf : k \in DOMAIN pci.rows}

Devices(pci) == {pci.rows[i].dev : i \in DOMAIN pci.rows}

\* The flags that make no sense together.
Misused(o) ==
    \/ ~o.offline /\ \E f \in {"pci", "list", "bootId", "current", "kernel", "tail"} : o[f] # None
    \/ o.learn /\ o.reset
    \/ o.reset /\ o.slot # None
    \/ o.offline /\ (o.pci = None \/ o.state = None \/ (o.list = None /\ o.bootId = None))

\* read_offline_journal_option: the prior kernel journal is cut at its end,
\* the others at their start.
ReadJournal(j, keepStart) == IF j \in {None, <<>>} THEN None ELSE Bounded(j, keepStart)
Current(o) == ReadJournal(o.current, FALSE)
Kernel(o) == ReadJournal(o.kernel, TRUE)
Tail_(o) == ReadJournal(o.tail, FALSE)

CurrentBoot(o) == IF o.bootId = None THEN o.pci.boot ELSE o.bootId

\* prior_for: the boot before the current one in the inventory.
Position(o) ==
    IF o.list = None THEN 0
    ELSE LET at == {i \in DOMAIN o.list : o.list[i].boot = CurrentBoot(o)}
         IN IF at = {} THEN 0 ELSE CHOOSE i \in at : \A k \in at : i <= k
HasPrior(o) == Position(o) > 1

\* parse_inventory_windows: the dates and times as they are written, the zone dropped.
Window(o, i) ==
    LET entry == o.list[i]
    IN <<entry.from + entry.fromZone, entry.to + entry.toZone>>

\* validate_supplied_journal_pairing: with a journal there is an inventory,
\* and each journal lies in the window of the boot it is taken for.  A prior
\* journal without a prior boot is not refused.
Paired(o) ==
    \/ Current(o) = None /\ Kernel(o) = None /\ Tail_(o) = None
    \/ /\ o.list # None
       /\ Current(o) # None =>
             Position(o) > 0 /\ InWindow(Current(o), Window(o, Position(o)))
       /\ HasPrior(o) =>
             \A j \in {Kernel(o), Tail_(o)} \ {None} : InWindow(j, Window(o, Position(o) - 1))

\* preflight: the snapshot is of the current boot, and the inventory has it.
Preflight_(o) ==
    /\ CurrentBoot(o) = o.pci.boot
    /\ o.list # None => Position(o) > 0

\* The input of the rules.
OfflineInput(o) ==
    [op |-> IF o.reset THEN "reset" ELSE IF o.learn THEN "learn" ELSE "diagnose",
     slot |-> o.slot,
     snapshot |-> Devices(o.pci),
     down |-> IF Current(o) = None THEN {} ELSE LinksDown(Current(o)),
     prior |-> HasPrior(o),
     tail |-> combine_prior(Kernel(o), Tail_(o)),
     unreliable |-> PriorTimingUnreliable(Kernel(o), Tail_(o))]

\* What cli_outcome refuses of an offline call before the rules run.
OfflineRefused(o) ==
    \/ Misused(o) \/ ~o.offline
    \/ ~SnapshotParses(o.pci) \/ o.bootId = "bad"
    \/ ~Paired(o) \/ ~Preflight_(o) \/ ~validate_state(o.state)
=============================================================================
