-------------------------------- MODULE Cli --------------------------------
(***************************************************************************)
(* The one-shot commands of the agent's run() (src/src/main.rs): `diagnose *)
(* display`, `diagnose gpu-boot --offline`, `handshake check`, and the     *)
(* `fixture-event-bytes` command that reads what a diagnosis printed and   *)
(* builds its envelope.  Each is dispatched before the configuration is    *)
(* loaded.                                                                 *)
(***************************************************************************)
EXTENDS D3Offline, D6, Handshake

CONSTANTS
    Calls,     \* the command lines: [cmd |-> "display" | "gpu-boot" | "handshake", ...]
    Contexts   \* the fixture contexts

JournalLine ==
    [t : Int, zone : Int, indent : BOOLEAN, kernel : BOOLEAN, bdf : STRING, says : STRING]
BootEntry == [boot : STRING, from : Int, to : Int, fromZone : Int, toZone : Int]

\* What the display command is given: sequences of lines, of connectors and of refresh rates,
\* and notes that are counted.  What the boot command is given: journals of lines, the prior boot's
\* whole journal for the properties, and an inventory of boots.
ASSUME CliAssumptions ==
    \A c \in Calls :
        /\ c.cmd = "display" =>
              /\ c.cfg \in Seq(ToSet(c.cfg)) /\ c.drm.connectors \in Seq(ToSet(c.drm.connectors))
              /\ c.drm.notes \in Nat
              /\ \A r \in {c.ctl.rates, c.drm.control.rates} : r \in Seq(ToSet(r))
        /\ c.cmd = "gpu-boot" =>
              /\ \A j \in {c.kernel, c.tail, c.whole} \ {None} : j \in Seq(JournalLine)
              /\ c.list # None => c.list \in Seq(BootEntry)

VARIABLES call, outcome, envelope
cliVars == <<call, outcome, envelope>>
allVars == <<cliVars, vars>>

-----------------------------------------------------------------------------
\* d6::run_cli and emit
Display ==
    /\ call.cmd = "display" /\ outcome = None
    /\ outcome' = run_cli(call.hasCfg, call.hasDrm, call.ctl, call.cfg, call.drm)
    /\ UNCHANGED <<call, envelope, vars>>

\* d3::run_cli and emit
GpuBoot ==
    /\ call.cmd = "gpu-boot" /\ outcome = None
    /\ \E i \in {IF OfflineRefused(call) THEN None ELSE OfflineInput(call)} :
          \E v \in {IF i = None THEN "error" ELSE Operate(i, call.state, CurrentBoot(call)).verdict} :
             outcome' = OutcomeOf(v)
    /\ UNCHANGED <<call, envelope, vars>>

\* handshake::run_check
Check ==
    /\ call.cmd = "handshake"
    /\ HandshakeNext
    /\ UNCHANGED cliVars

\* Mutant: the disposition is left at its default.
KeepsDefault(o) == [o EXCEPT !.finding = FALSE]

\* Outcome::with_disposition.  The printed JSON has no disposition; the fixture command calls every
\* outcome it reads a finding.
with_disposition(o) == [o EXCEPT !.finding = TRUE]

\* fixture_event_bytes: the envelope of a printed outcome, or a refusal.
FixtureEventBytes(ctx) ==
    /\ outcome \notin {None, Error} /\ envelope = None
    /\ envelope' = try_from_outcome(with_disposition(outcome), ctx)
    /\ UNCHANGED <<call, outcome, vars>>

\* The other commands do not look at the handshake's inputs.
Init ==
    /\ call \in Calls /\ outcome = None /\ envelope = None
    /\ IF call.cmd = "handshake" THEN HandshakeInit
       ELSE Fresh /\ input = None /\ server = None

Next ==
    \/ Display \/ GpuBoot \/ Check
    \/ \E ctx \in Contexts : FixtureEventBytes(ctx)

\* A probe that is started runs on: each request ends in an answer or at
\* the deadline.
Spec ==
    /\ Init /\ [][Next]_allVars
    /\ WF_allVars(call.cmd = "handshake" /\ (Preflight \/ Root \/ Template \/ Mapping)
                    /\ UNCHANGED cliVars)

-----------------------------------------------------------------------------
(* Properties *)

\* The commands' results have their shape: a probe that is done has its
\* report and an exit code, an unfinished one has neither, and an envelope
\* has an outcome behind it.
TypeOK ==
    /\ stage \in {"local", "root", "template", "mapping", "done"}
    /\ (stage = "done") <=> (report # None)
    /\ report # None => exit_code(report) \in {0} \cup 10..16
    /\ outcome # None => call.cmd # "handshake" /\ ExitCode(outcome) \in 0..2
    /\ envelope # None => outcome \notin {None, Error}

\* A finding that a detector printed becomes a finding in its envelope, when
\* the fixture's context is in order: what passed Diagnosis::validate is
\* refused by the envelope only for a size limit the printed texts exceed: the
\* number of elements, the length of one, of their display, or of the event.
\* (The contract has no such limit; d6 prints a list of refresh rates of any
\* length as one element.)
FindingReachesEnvelope ==
    envelope # None /\ outcome.finding =>
        \/ envelope.accepted /\ envelope.finding
        \/ envelope.why \in {"context", "contract", "host"}
        \/ /\ envelope.why \in {"limit", "bytes"}
           /\ \/ \E f \in {"evidence", "fixes", "scope", "missing"} :
                    \/ Len(outcome[f]) > MaxElements
                    \/ \E i \in DOMAIN outcome[f] : outcome[f][i] > MaxElementChars
              \/ \E f \in {"evidence", "fixes"} : DisplayChars(outcome[f]) > MaxDisplayChars
              \/ EventBytes(outcome) > MaxEventBytes

\* The display verdict is a statement about all overrides, whatever their
\* order and whichever is reported: a finding has a mapped override that is
\* invalid or degraded, "ok" with overrides has a mapped one and no wrong
\* one, and "not applicable" has none that maps to a usable display.
DisplayVerdictRight ==
    call.cmd = "display" /\ outcome \notin {None, Error} =>
        LET drm == IF call.hasDrm THEN call.drm ELSE Controlled(call.drm, call.ctl)
            overrides == {call.cfg[i] : i \in {k \in DOMAIN call.cfg : call.cfg[k].kind = "override"}}
            mapped == {o \in overrides : Mapped(drm, o)}
            Wrong(o) == LET c == FindConnector(drm, o)
                        IN invalid_mode(o, c) \/ Branches(o, c, drm) > 0
        IN /\ outcome.finding => \E o \in mapped : Wrong(o)
           /\ outcome.verdict = "ok" =>
                 (overrides # {} => mapped # {}) /\ \A o \in mapped : ~Wrong(o)
           /\ outcome.kind = "not_applicable" =>
                 mapped = {} \/ (~call.hasDrm /\ call.ctl.ended # "ok")

\* Combining the two readings of the prior boot loses no record and counts
\* none twice: each occurs as often as in the reading that has it most often.
\* (A reading cut inside a record starts with a continuation line, which the
\* combined text attaches to the record it then follows.)
MergeKeeps ==
    call.cmd = "gpu-boot" /\ outcome = None /\ None \notin {Kernel(call), Tail_(call)} =>
        \A k \in {journal_records(Kernel(call))}, t \in {journal_records(Tail_(call))},
           merged \in {journal_records(combine_prior(Kernel(call), Tail_(call)))} :
           ~k[1].text[1].indent /\ ~t[1].text[1].indent => \A r \in {k[i] : i \in DOMAIN k} \cup {t[i] : i \in DOMAIN t} :
              r.t # NoStamp =>
                 Times(r.text, merged) = IF Times(r.text, k) >= Times(r.text, t)
                                         THEN Times(r.text, k) ELSE Times(r.text, t)

Ordered(j) ==
    \A i \in DOMAIN j : j[i].t # NoStamp /\ (i > 1 => j[i - 1].t <= j[i].t)

\* The two readings are of one journal: its kernel lines, and its end from some line on.
ReadFrom(c) ==
    /\ c.whole # None
    /\ c.kernel = Among(c.whole, {l \in ToSet(c.whole) : l.kernel})
    /\ \E n \in DOMAIN c.whole : c.tail = SubSeq(c.whole, n, Len(c.whole))

\* How far back the tail reaches does not change what the precursor sees: for
\* a prior boot logged in order and within the cap, the kernel excerpt and any
\* end of the journal together give the counts of the whole journal.
PrecursorUnmoved ==
    /\ call.cmd = "gpu-boot" /\ outcome = None
    /\ ReadFrom(call) /\ Ordered(call.whole) /\ Len(call.whole) <= JournalLimit
    /\ None \notin {Kernel(call), Tail_(call)}
    =>  \A prior \in {combine_prior(Kernel(call), Tail_(call))}, slot \in {l.bdf : l \in ToSet(call.whole)} :
        \A combined \in {precursor(prior, slot)}, whole \in {precursor(call.whole, slot)} :
           /\ combined.fires = whole.fires
           /\ combined.smu = whole.smu /\ combined.resets = whole.resets

\* The zones that the stamps of the prior boot's readings are written in.
Zones(c) ==
    {l.zone : l \in {m \in UNION {ToSet(j) : j \in {Kernel(c), Tail_(c)} \ {None}} : m.t # NoStamp}}

\* A precursor warning rests on records of the boot before the current one:
\* every record of the readings lies in that boot's window, give or take its
\* grace, the tolerated clock jitter and the difference between the zones
\* that the inventory and the readings are written in (none where they
\* agree), though only the first and the last record are compared with the
\* window, and only what the clocks showed.
WarningFromPriorBoot ==
    call.cmd = "gpu-boot" /\ outcome \notin {None, Error} /\ outcome.verdict = "precursor-warning" =>
        /\ HasPrior(call)
        /\ LET boot == call.list[Position(call) - 1]
               slack == Grace + Tolerance
               rows == fold_journal_records(OfflineInput(call).tail)
           IN \A i \in DOMAIN rows : \E y, z \in Zones(call) :
                 rows[i].t \in (boot.from + (boot.fromZone - y) - slack)
                                 ..(boot.to + (boot.toZone - z) + slack)

\* The word of the highest tier that says anything about the cluster.
Expected(i) ==
    LET Pair(p) == IF p.uuid # None THEN p.uuid ELSE IF p.pending # None THEN "pending" ELSE None
        tiers == <<Pair(i.flag), Pair(i.env), i.policy, Pair(i.file)>>
    IN tiers[CHOOSE n \in DOMAIN tiers :
                tiers[n] # None /\ \A m \in DOMAIN tiers : m < n => tiers[m] = None]

\* A probe that succeeds was answered by the cluster that the highest tier of
\* the configuration names, or enrols where that tier says so, in three good
\* answers none of which came after the deadline, and the template accepts
\* this agent's schema.
ReadyMeansAgreed ==
    report # None /\ report.outcome # "failed" =>
        /\ [i \in 1..3 |-> sent[i].at] = <<"root", "template", "mapping">> /\ Len(sent) = 3
        /\ \A i \in 1..3 : sent[i].ok /\ ~sent[i].late
        /\ sent[1].uuid = report.uuid
        /\ IF report.outcome = "ready" THEN Expected(input) = report.uuid
           ELSE Expected(input) = "pending"
        /\ Schema \in report.digest

\* Nothing is asked of a cluster that turned out not to be the expected one,
\* and a probe whose inputs do not resolve asks nothing.
WrongClusterNotRead ==
    /\ Len(sent) > 1 => affinity \in {"pending", sent[1].uuid}
    /\ report # None /\ report.stage = "local" => sent = <<>>

\* Every probe ends, whatever the server does and however long it is silent.
ProbeEnds == call.cmd = "handshake" ~> report # None

\* cli_outcome, combine_prior, precursor and validate_journal_window: the readings of
\* the prior boot are put together without loss, tell the precursor what the whole
\* journal would, and are of that boot when a warning rests on them.
JournalsRight == MergeKeeps /\ PrecursorUnmoved /\ WarningFromPriorBoot

\* run_probe: a probe reads the cluster it was told to read, and succeeds only when
\* that cluster agreed.
ProbeAgreed == ReadyMeansAgreed /\ WrongClusterNotRead

\* What holds of every command: results of the right shape, and a finding that
\* reaches its envelope.
CliInv == TypeOK /\ FindingReachesEnvelope
=============================================================================
