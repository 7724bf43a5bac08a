# RigSignal: TLA+ models, checks and proofs

RigSignal is a gaming-telemetry agent. A user service samples the machine once a
second, labels the samples with the game that runs, and either ships them to
Elasticsearch or spools them as NDJSON for Elastic Agent to pick up. A privileged
eBPF daemon adds scheduler, GPU and I/O measurements for the threads of that game.
An installer puts templates, pipelines and dashboards into Elasticsearch and Kibana.

This directory holds TLA+ modules translated from the source, TLC configurations
that check them on small instances, and TLAPS proofs of most of the safety properties
for every value of the constants. `PROJECT.json` maps every definition to the lines it models. Source paths
below are relative to the repository root.

## 1. The system

| Component | State | Operations | Interacts with | What is hard |
|---|---|---|---|---|
| Spool writer (`src/shipper.rs`) | one active `.ndjson.tmp` per dataset, finals, quarantine files, `BufWriter`s, sequence number | `write_docs`, `rotate_if_needed`, `rotate_stale_files`, `finalize_all`, start-up recovery | main loop (calls), Elastic Agent (reads finals), retention job (deletes finals) | a crash or a failing call between any two system calls |
| Stream-client log tailer (`src/remote_connections.rs`) | checkpoint in memory and on disk, batch in flight | `poll`, `read_batch`, `ack_success`, `nack`, `persist` | Steam (writes and rotates the log), bulk API | rotation between stat and open, replays, checkpoint failures |
| Delivery health (`src/main.rs`, `EsDeliveryHealth`) | outage, time of the last line, behind a mutex | `note_failure`, `note_success`, `observe` | detached shipping tasks, the journal that `rigsignal status` reads | clock steps, readings taken before the lock, printing after it |
| Session manager and main loop (`src/session.rs`, `src/main.rs`) | current game, label, settings overlay, accumulators, `session.json` | a tick (poll, collect), shutdown | `/proc`, spool or bulk API, eBPF daemon through `session.json` | game changes between two scans, failing writes, kills |
| Session counter (`src/session.rs`) | `session-counters.json`, its `.tmp`, a lock | `increment_counter_at` | other agents of the same user | the lock is on an inode that a rename replaces |
| Collectors (`src/collectors/linux`) | previous counters, the selected streaming client and its baselines, the frame reader thread and what it shares | `collect`, `set_game_pid`, the reader's loop | main loop, `/proc`, Gamescope's FIFOs, MangoHud's logs | sources, PIDs and games that change between two ticks; a thread that is still stopping |
| eBPF daemon: session watcher (`ebpf/rigsignal-ebpf/src/session.rs`) | shared state, bounded channel | first look, file events, 30 s time-out | agent (writes `session.json`), `/proc`, the daemon's loop | missed events, torn reads, a full channel |
| eBPF daemon: loop, aggregation, shipping (`main.rs`, `loader.rs`, `aggregator.rs`, `shipper.rs`, `probes/`) | loaded probes, events of the interval, pending documents, loss tracker | load, tick (collect, correlate, flush), session change, signal | BPF programs through maps and ring buffers, the watcher, bulk API | everything the kernel does meanwhile, a server that is silent |
| BPF programs (`ebpf/rigsignal-ebpf-probes/src`) | the filter, maps of start times, ring buffers, loss counters | one program per trace point or function | kernel, daemon | full maps, a filter that changes during a call |
| GPU boot detector (`src/detectors/d3.rs`) | a state file (baseline, pending finding), a lock file | `diagnose gpu-boot`: diagnose, learn, reset; live or offline | PCI bus, journald | overlapping runs, kills, reboots, journals that overlap |
| Display detector and contract (`src/detectors/d6.rs`, `contract.rs`, `contract/diagnosis_event.rs`) | none | `diagnose display`, validation, exit codes, the envelope | gamescope's `modes.cfg`, DRM state | the order of overrides, limits of the envelope |
| Handshake (`src/handshake.rs`) | none beyond the probe | preflight, three requests, a verdict | Elasticsearch | one deadline over three requests, precedence of tiers |
| Asset installer (`tools/install_assets.py`) | transaction record, journal, lock | install, roll back, recover | Elasticsearch, Kibana | interruption between journal and effect |
| Spool retention (`packaging/rigsignal-spool-retention.py`) | none | delete delivered finals older than 48 h | Elastic Agent's registry | stale registry |
| Configuration, profiles, host description, launcher, release tools | little or none | parsing, formatting | files | input variety rather than state |

What makes each correct:

- Spool: an accepted record is never lost; a published file is never changed again;
  every published line is one JSON document; accepted records are published in the
  end; nothing is published twice except in the documented window.
- Tailer: the durable checkpoint never passes an event Elasticsearch has not
  acknowledged; a replay never creates a second document; every event is delivered.
- Delivery health: failures are reported, at most once per interval, never silenced
  by a clock step, and each announced outage is answered by one recovery line.
- Session: every sampled tick ends up in exactly one summary; summary, label and
  settings belong to one game; `session.json` names the tracked game.
- Counter: no two sessions of a game and day share an ordinal.
- Collectors: a rate is of one source and one interval, a percentage of one process;
  frames are of the tracked game; a game gets its reader; shutdown is not held up.
- Watcher: the kernel filter settles on the threads of the game in `session.json`.
- eBPF daemon: a latency is of the call that ended; every event is accounted for
  once; documents say what the events of their interval say; a signal stops it.
- GPU boot detector: a verdict is true of the boot it is printed in; an absence is
  reported as recovered at most once; a finding belongs to the baseline beside it.
- Display detector, contract: the verdict holds of all overrides; a finding that is
  within the limits reaches its envelope.
- Handshake: it succeeds only for the cluster the highest tier names; it ends.

## 2. Modules

Each `MC*` module extends its component and defines what the configurations need;
each `.cfg` is one run. Each `*Proofs` module extends its component with theorems and
proofs (section 4); `AgentProofs` extends three, `Session`, `SessionCounter` and `EsHealth`.

```
Spool   Tailer   EsHealth   SessionCounter   Session
Feed <- Probes <- Ebpf -> Aggregator   Watcher (implements Feed)
Contract <- D3Journal <- D3Rules <- D3             D3Rules <- D3Offline \
Contract <- D6, Handshake -------------------------------------------------> Cli
Rates <- StreamClient <- Frame <- Collectors
```

In each module but `Spool`, an invariant named after the module (`TailerInv`,
`WatcherInv`, `EsHealthInv`, `CounterInv`, `SessionInv`, `D3Inv`, `CliInv`, `EbpfInv`,
`CollectorsInv`) puts together the type invariant and the small invariants that relate
its pieces of state; each part has a name and a comment of its own. Definitions marked
"Mutant" are plausible mistakes that no specification uses; putting one in the place of
the definition beside it makes the property named for it in `PROJECT.json` fail.

### Spool
One agent process at a time (the directory lock) works through `pc`, one step per
system call; `Crash` is enabled everywhere and keeps only the directory. `tmp` is the
active file of each dataset, `files` the finals and quarantine files by name, `stage`
the recovery staging file; `open`, `buf` and `bytes` are `SpoolWriter.spools`, each
`BufWriter`'s unwritten bytes and `current_file_bytes`. A file is its terminated lines
(as a set; the newest apart, because padding rewrites it), its unterminated tail and
its size. A line is the sequence of record texts on it, so that two records on one
line, or a record torn in half, can be told from a whole one: only `Valid` lines parse.
`BeginBatch` ... `EndBatch` are `write_docs`; `RotateFlush` ... `RotateReplace` are
`close_publish_and_replace` with `pad_spool_final` in two steps and
`publish_closed_file_at` in two; `Sweep` ... `RecoverDone` are start-up recovery;
`RotateStale`, `FinalizeAll` and `TakeNext` are the loops over datasets. The constant
`Faults` names the calls that may fail: "torn" is a record write that stops half-way,
"pad" a padding that does, "unlink" a removal in a clean-up, whose error the code drops
(`let _ = remove_file_if_exists`): `Discard` and `Abandon` may then leave the reservation
or the stage behind, and `left` counts how often. Lines are a set, so the order of lines in a file and equal
texts on two lines of one file are not told apart.

### Tailer
`gens` are the log files in the order of creation, `state` and `disk` the checkpoint in
memory and in `stream-client-tail.json`, `inflight` the token. `PollStat`, `PollChoose`
and `PollRead` split `poll` where it looks at the log, so that Steam may act in between;
`Ship` and `Ack` are the main loop's use. A line is an event or junk (consumed without
a document). `Env` switches on what Steam may do besides appending and rotating in step
with the tailer: "race", "double", "torn", "remove", "truncate".

### EsHealth
`Fails` reads the clock, `NoteFailure` and `NoteSuccess` take the mutex, `Say` prints.
`StepBack` moves the wall clock back, before 1970 too. `said`, `recoveries`, `silent`
and `crossed` are history variables for the properties.

### SessionCounter
`Open`, `Lock`, `Read`, `OpenTmp`, `WriteTmp`, `Rename`, `Return` are the system calls of
`increment_counter_at` in order; `content` is per inode and `path`/`tmp` say which inode
has which name, so that a lock on a replaced inode can be seen. One key of the counters
is modelled; pruning old dates does not touch it. The calls before the read that may fail
(directory, open, lock) make it return 1; a failed save makes it return a number the file
does not hold.

### Session
`Launch` and `Quit` are the desktop; `Poll` is a tick's game detection with the whole
`GameStarted` or `GameEnded` arm (label, counter, `session.json`, overlay, summary,
reset); `Collect` is the rest of the tick; `Shutdown` the clean end; `Kill` the other.
Accumulators are ticks per game, the overlay the games whose settings were merged into
the configured ones. `switched` records that a game replaced another within one scan.
A label is a game, a day and a number. `Counted` is a call of `increment_session_counter`
that went well; `Miscounted` has what else it may do: return 1 or an unsaved number,
count from 1 again because the file did not parse, or be overtaken by midnight between
the two times the date is taken (`src/session.rs:466` and `577`). `Midnight` is the other
change of the date.

### Watcher
`Truncate`, `Write` and `Remove` are the agent's calls on `session.json`; `Seed`,
`StartWatch`, `HandleEvent` and `Timeout` the watcher thread; `SeedFilter` and
`Receive` the daemon's main loop. A state is a game and how far its process tree had
grown when `/proc` was scanned. `Window` allows a change of an existing file between
`Seed` and `StartWatch`.

### Feed
What the watcher promises the daemon: a shared state that always holds the last state
published, and a channel that delivers published states in order and leaves one out
only when it is full. `Watcher` implements it (`Delivers`, checked by TLC; `State` and
`Inactive` of `Watcher` are its states), and `Ebpf` is built on it instead of on
`Watcher`, so the composition of agent, watcher and daemon is done in two steps.

### Probes, Aggregator, Ebpf
`Probes` has one action per BPF program, taken together with the kernel operation that
triggers it. `starts` are the hash maps, `ring` the ring buffers, `pids` `GAME_PIDS`,
`loss` the four counters; `calls`, `made`, `lost` and `ran` are the kernel's own view,
against which the programs' is judged. `Insert` fails on a full map as the code ignores
it; `Submit` fails on a full ring buffer. Wake-ups may repeat before a switch, and a thread
that was preempted is switched in without one.
`Aggregator` holds the flush functions, `record_ns` and `correlate` as operators over
sequences of events.
`Ebpf` is the daemon: `Load` (capabilities, BTF, object, which probes attach, the
`gpu_sched` trace points in either of their formats), `Seed`, `Connect`, then the
`select!` loop of `Tick` ... `Collect` ... `Queue` ... `Flush`, `SessionChange` and
`Shutdown`. `UpdateStep` is one map operation of `update_pids`: programs fire in
between. A host is a record of what is there, so that one run covers the daemon on
machines that have or lack each part.

### D3Journal, D3Rules, D3, D3Offline
`D3Journal` is what the detector makes of journals: bounding, folding lines to records,
merging two readings, precursors, windows. A line is its stamp, whether it continues a
record, whether it is the kernel's, and what is matched in it. A stamp is an instant and
the zone it is written in; `WallClock` is what `naive_local` makes of it, and windows are
compared by it. `D3Rules` is `evaluate`,
`learn`, `reset` and `validate_state` on a state, a snapshot and a journal. `D3` runs them
over boots: `Start`, `Collect`, `Lock`, `Decide`, `Save`, `Replace`, `Emit` for each of two
processes, with `Kill`, `DropOff` (the GPU leaves the bus) and `Reboot`. `D3Offline` is
`cli_outcome` for files given on the command line.

### Contract, D6, Handshake, Cli
`Contract` is the outcome, its validation, exit code and envelope; a text is its length,
which is 1 except for the list of refresh rates that `degraded_mode` formats, as long as
the list. `Contract` is the release build: in a debug build the `debug_assert_eq!` at
`src/detectors/contract/diagnosis_event.rs:233` stops `fixture-event-bytes` on an outcome
that is not applicable.
`D6` is `parse_modes_cfg` to the verdict. `Handshake` resolves tiers of optional values
and then asks the server; `Deadline` may pass between or during any two requests, and
`ServerChanges` puts another cluster or template behind the endpoint. `Cli` runs one
command per behaviour and, for the detectors, the envelope that `fixture-event-bytes`
makes of what was printed.

### Rates, StreamClient, Frame, Collectors
`Rates` are the collectors of cumulative counters with their early returns; `moved` is
what each source ever counted. `StreamClient` is discovery, deduplication of contexts and
the percentages. `Frame` is the Gamescope reader thread (`Look`, `Wake`, `ReadLine`, `TakeLine`,
`Match`, `Push`, one step per access to what it shares) and the collector's side with the
MangoHud fallback; a log may change hands and then does not open, or not as a file of the
user's (`HandLog`, `Opens`). `Collectors` is the tick over all of them; the machine, the processes,
Gamescope and MangoHud move in between. What only one step of the agent reads moves only
while that step is next, which leaves out no behaviour the agent could tell apart.

## 3. Runs

| Run | Expect | Shows |
|---|---|---|
| `spool_faults` | pass | One dataset, two records, two crashes and two failing calls of any kind but the re-open, failing removals besides: `TypeOK`, `NoLoss`, `FinalsKept`, `FewReservations`. |
| `spool_clean` | pass | Two datasets, three records, a crash and a failing call that tears no line: `FinalsWhole`, `NoDuplicate`, and `Published` under fairness. |
| `tailer_deliver` | pass | Two generations, three lines, removal, truncation, a crash, a failing bulk request or checkpoint: `CheckpointAcked`, `TailerInv`, `EventuallyDelivered`. |
| `watcher_follow` | pass | Three changes of `session.json`, two games, a growing process tree: `WatcherInv`, `FilterFollowsFile`, and `Delivers`, the refinement of `Feed`. |
| `eshealth_track` | pass | Two deliveries at once and one clock step: `NeverSilenced`, `RateLimited`, `EsHealthInv`. |
| `sessioncounter_one` | pass | One agent, three crashes, two failing calls: `CounterInv`. |
| `session_play` | pass | Two games (one with a profile), launched, quit and switched, two runs of the agent, two days, one failing write and one failing counter call: `TicksSummarisedOnce`, `LabelsDistinct`, `SessionInv`. |
| `d3_boots` | pass | Three boots, four runs, two at a time, a kill and a failure: `RecoveredOnce`, `VerdictTrueOfBoot`, `BaselineKept`, `D3Inv`. |
| `cli_oneshot` | pass | All small journals, displays, overrides and tiers: `JournalsRight`, `DisplayVerdictRight`, `ProbeAgreed`, `CliInv`, and `ProbeEnds` under fairness. |
| `ebpf_daemon` | pass | Ten hosts with probes and twelve on which something is missing: `LatencyTrue`, `EbpfInv`, `FilterFollowsState`, `DocumentsTrue`, and `SignalStops` under fairness. |
| `collectors_tick` | pass | Nine workloads over counters, processes, FIFOs, logs and games: `RatesTrue`, `BusyTrue`, `CollectorsInv`, and `LogFollowed`, `GameGetsReader`, `ShutdownEnds` under fairness. |
| `collectors_stale` | violation | `StaleCannotPin`: with two FIFOs nobody writes to, the backoff reaches the length of the demotion; from then on the first is always free again when the sleep ends, and the second is never tried, also when it has lines. |

### Limits of the code
What the passing runs name as an exception in a property, exclude by a constant, or leave
to the reader; where a constant is named, TLC exhibits it when the constant is changed.

Agent:
- `Spool`, "reopen" in `Faults`: when the re-open after a failed rotation fails, the
  dataset is out of the map and `DatasetSpool::new` truncates its file
  (`src/shipper.rs:353`; `NoLoss` fails). "pad": a padding that fails after the newline was
  cut leaves a tail that the re-opened writer appends to, and `FinalsWhole` fails (the
  comment at `src/shipper.rs:860` promises valid lines); `NoLoss` still holds, as text. "torn"
  and "newline", a record or its newline of which a write leaves only a part: the same.
  A rename that fails and whose reservation cannot be removed either (`src/shipper.rs:397`,
  `664`, `730`, `826`) leaves an empty final without a crash; `FewReservations` counts such
  removals beside the crashes.
- `Tailer`, "race" in `Env`: a rotation between the stat and the open by path skips events
  (`src/remote_connections.rs:228`; `CheckpointAcked` fails). "double": after two rotations
  between two polls the generation in between is skipped. "torn": a generation rotated
  with an unterminated line is never left (`EventuallyDelivered` fails). `Wedged`: a failed
  checkpoint write in `ack_success` keeps the batch in flight until a restart. A file
  truncated and regrown past the checkpoint before the next poll is not noticed, and a line
  longer than the read window is never consumed.
- `EsHealth`: lines are printed after the unlock, so "recovered" may follow the "failing"
  that came later (`src/main.rs:212`; `LastLineTrue` names it as `crossed`); a task that
  read the clock before another's line was decided counts as a clock step (`RateLimited`).
- `Session`: a game that replaces another within one scan is a start without an end
  (`src/session.rs:231`): one summary adds up two games, and label and overlay of the first
  stay; `switched` marks it. A game is told from another by its PID and Steam app id: two
  games without an app id, the second under the first one's PID within one scan, count as
  one (`Detect` compares game and PID). Where the counter fails, labels repeat:
  an I/O error gives every session the number 1 (`src/session.rs:522-566`;
  `.github/RELEASE_NOTES.md:314-315` describes a counter stuck at 1), a failed save the
  same number to the next, a file that does not parse starts again from 1, and a call
  on midnight counts for one date and names the other. `LabelsDistinct` says that nothing else
  does: of two sessions with one label, one had such a call itself, or the file was unreadable
  after the first. A killed agent leaves `session.json` behind; a summary that
  cannot be written is lost.
- `SessionCounter`, two agents: the lock is on an inode that the holder's rename takes out
  of the directory (`src/session.rs:564`), so both get one ordinal; the shared `.tmp` name
  lets one rename what the other has just truncated.
- `Watcher`, `Window = TRUE`: a removal between the first look and the watch is never
  noticed, because the time-out of an active session does not look at the file.
  `ChannelSize` below the number of pending changes: `try_send` drops the newest state.
- `Rates`: a counter that was reset gives a negative rate (network, storage), and so does
  an `snmp` that could not be read; after a core goes, utilisations are paired with
  the wrong cores.
- `StreamClient`: contexts without a client id are told apart by counters and descriptor
  only; of a process with more descriptors than `MAX_FDINFO_FILES` only some are read, and
  its percentages are of those.
- `Frame`: samples left by the previous game are in the first document of the next; a
  reader that takes a line after it was told to stop leaves `attached` behind, and MangoHud
  is not read until a reader clears it; a FIFO that cannot be opened is not demoted; a log is
  read from its start when the collector first sees it or turns back to it. The latest log
  is chosen by name and time before it is opened (`mangohud.rs:56-66`), so one that cannot be
  opened, is no regular file or belongs to another user hides the older ones for as long as it
  is the latest; `RowsRead` exempts its rows. Logs that shrink or are removed are
  not modelled.

eBPF daemon:
- A session with more threads than `GAME_PIDS` has entries (`MapSize`), or a state published
  while the channel is full (`ChannelSize`): the filter stays without some thread, or on an
  older session, until the next change (`FilterFollowsState` fails).
- Without a session the tick returns before it drains the ring buffers
  (`ebpf/rigsignal-ebpf/src/main.rs:222`), so what the unfiltered probes measured meanwhile
  is shipped under the next session's id (compare `ebpf/rigsignal-ebpf-probes/src/bio.rs:23`).
- A session's id and the filter change at different moments; a tick in between pairs one's
  id with the other's threads.
- Block requests are keyed by device and sector: two at once share an entry, and one that
  never completes keeps its entry. A switch without a wake-up is reported with wait 0, and
  a wake-up from before a filter change with the wait since then; `LatencyTrue` therefore
  leaves out the scheduler and block probes. The header of the kernel's `gpu_sched.rs` (8-10)
  describes a collision of a seqno-only key, which the key of scope and sequence (31-37) no
  longer has.
- Histogram buckets. `record_ns` (`ebpf/rigsignal-ebpf/src/es_model.rs:447`) counts, in bucket
  `i` from 0, latencies from 2^(i-1) up to 2^i us, in bucket 0 those below 1 us, and in
  bucket 15, published as 32768, everything from 16384 us on: there is no seventeenth. The
  comments say otherwise: "Bucket i covers [2^i us, 2^(i+1) us)" (262), "Upper bound of each
  bucket" (427), bounds that end in "32768, infinity" (434), and
  `archive/docs/architecture/ebpf.md:310` gives [33ms, infinity) a bucket of its own.
  `SnapshotsTrue` states the code's buckets. `BucketsDocumented` states line 427; TLC
  refutes it on the host `LongWait`, where a call outlasts the last bound.
- A probe of which one program does not attach leaves the others running. Events since
  the last tick are not shipped at shutdown. Documents of a failed request are given up.

Detectors and handshake:
- The offline prior kernel journal is read with its start kept
  (`src/detectors/d3.rs:388`), while `tasks/d3-gpu-boot-detector.md:91` asks for an
  end-oriented window. A reading cut inside a record begins with a continuation line that
  the merge attaches to another record (`MergeKeeps` leaves it out).
- "Recovered" is reported at most once, and not at all when the run is killed between saving
  and printing. A state file that does not load blocks `--reset-baseline` too.
- A journal's first and last stamps are compared with the boot's window by what the clocks
  showed (`src/detectors/d3.rs:672-699`): one exported in another zone, or across a
  change of the clocks, passes although it lies hours outside the boot, which the comment at
  694-697 wants rejected, and one of the right boot may be refused. `WarningFromPriorBoot`
  widens the window by the difference of the zones; where they agree, by nothing.
- A degraded override may be reported where another is invalid, with less confidence; its
  evidence can exceed the envelope's 50 elements, and the list of refresh rates in it
  (`src/detectors/d6.rs:351`) the 4096 characters of one element. The envelope is then
  refused. `FindingReachesEnvelope` names each limit. `fixture-event-bytes` calls every outcome a
  finding (`src/main.rs:985`).
- A cluster replaced between two requests of one probe is not noticed.

### Bounds
Records, lines, games and tasks number two or three, enough for a batch to span a
rotation, for a replay to follow a delivery, and for one actor's step to fall between
two of another's. `MaxFileBytes` is 3 with records of two bytes, so one record fits and
two rotate. `MaxCrashes` and `MaxFaults` of one or two let recovery itself be
interrupted. `MaxSeq` is 8 and not reached there (the theorems hold for every `MaxSeq`),
`Millis` is one value, the worst case for names: every name is told apart by its sequence
number alone. `Repeat` is 2 of 5 seconds, so two announcements, a silence and a clock step
fit.

`d3_boots`: three boots are an absence, a recovery and a boot after it; of four runs two
overlap and two follow. `cli_oneshot`: journals of up to four lines over ten kinds of
line with a cap of three, so that cuts, repeats and continuations meet, each with every
reading of its end, on a healthy machine with a baseline; snapshots, states, inventories,
flags and journals of the current boot are crossed with one fault journal, journals in two
zones with inventories in two; limits of the contract (seven elements of two characters,
33 characters to display, 21 bytes) are such that an override with a long list of rates,
or two overrides, are refused for each of them alone, and others for none.
`ebpf_daemon`: maps and ring buffers of two entries under three calls overflow; the probes
are spread over hosts, because they share nothing but the filter, the tick and the
correlation, which `{"bio", "mem"}` and `{"bio", "gpu_sched"}` exercise; two ticks, so that
the second interval follows a flush. The clock moves once, and twice on `LongWait`, enough
for a latency beyond the last of two bounds. `collectors_tick`: each workload is a budget of what
may happen, and the clock stops at its bound; counters, processes and frames are in
workloads of their own because the collectors share nothing but the tick. A process has
up to three descriptors and `MaxFiles` is 2, so that one can be read only in part.
`BackoffMax = Window = 2` there, two doublings; 10 in `collectors_stale`, the code's ratio
of `REOPEN_BACKOFF_MAX` and `DEMOTION_WINDOW` to `REOPEN_BACKOFF_INITIAL`.

Symmetry is used only for values that are compared for equality, and never with a
liveness property.

### Fairness
- `Spool`: weak fairness of the process's own steps, of `Start` (the unit has
  `Restart=on-failure`, `packaging/systemd/rigsignal-agent.service`; after a clean stop, whose
  exit status is success also when `finalize_all` failed (`src/main.rs:1596-1605`), the next
  start is the user's or the next login's) and of the tick that
  finds stale files (`rotate_stale_files` runs in every tick). Crashes and failures have
  none, and are finite in number.
- `Tailer`: weak fairness of the agent's steps, a restart included, and of Steam creating
  the log again after a rotation. Failures are finite, so Elasticsearch accepts in the end.
- `Watcher`: weak fairness of the watcher thread, the daemon's loop, and of the second
  half of a write that began. `Feed` asks for that of the main loop only.
- `Cli`: weak fairness of the probe's next step; a request that is not answered ends at
  the deadline. The other commands are one step each, and none is asked of them.
- `Ebpf`: weak fairness of the daemon's steps, the time-out of a request included (the
  client has one of ten seconds); strong fairness of `Shutdown`, because
  `tokio::select!` picks among ready branches at random, so a signal that stays pending is
  not passed over for ever. None of the kernel, the watcher or the signal.
- `Collectors`: weak fairness of the tick and of the reader thread, two threads of the
  operating system; none of the environment.

`CHECK_DEADLOCK FALSE` is set where the bounds end a behaviour (no more games, lines,
boots, calls or changes of a file) or the program ends (a command, a stopped daemon).

## 4. Proofs

The `*Proofs` modules prove, with TLAPS and for every value of the constants, what the
runs check on one instance: every invariant and every action property of a passing run has
a theorem, and liveness is left to TLC. `PROJECT.json` lists the theorems; the rest are
lemmas. In each, an inductive invariant is stated as a conjunction of named parts, there is
one lemma for each action or group of actions, and the last step combines them. A leaf that
needs longer than the provers' default has its time in its `BY`.

| Module | Theorem | States | Hypothesis |
|---|---|---|---|
| `SpoolProofs` | `ShapeInvariant` | `[]Shape` | |
| | `TypeCorrect` | `[]TypeOK` | |
| | `FinalsNeverTouched` | `FinalsKept` | |
| | `ReservationsCleared` | `[]FewReservations` | |
| | `FinalsParse` | `[]FinalsWhole` | `NoTear`: no write of a record, its newline or the padding stops half-way |
| | `NothingLost` | `[]NoLoss` | "reopen" is not in `Faults` |
| | `RecordsPublishedOnce` | `[]NoDuplicate` | |
| `TailerProofs` | `TailerCorrect` | `[]TailerInv` | `NoRace`: "race" is not in `Env` |
| | `CheckpointNeverAhead` | `[]CheckpointAcked` | `NoRace`, and `NoDouble`: "double" is not in `Env` |
| `AgentProofs` | `TrackerCorrect` | `[]EsHealthInv` | |
| | `FailureLinesSpaced` | `RateLimited` | |
| | `OutageNeverSilenced` | `[]NeverSilenced` | |
| | `OrdinalsWithinStarts` | `[]CounterTypeOK` | |
| | `CounterCorrect` | `[]CounterInv` | `SingleAgent` |
| | `SessionCorrect` | `[]SessionInv` | |
| | `LabelsUnique` | `[]LabelsDistinct` | |
| | `SummariesOfOneGame` | `[]SummaryPure` | |
| | `TicksAllSummarised` | `[]TicksSummarisedOnce` | |
| `WatcherProofs` | `WatcherFeeds` | `Inbox!FeedSafety`, the safety part of `Delivers` | |
| | `WatcherCorrect` | `[]WatcherInv` | `~Window` |
| `D3Proofs` | `StateFileSound` | `[]D3Inv` | |
| | `EachRecoveryOnce` | `[]RecoveredOnce` | |
| | `VerdictsTrue` | `[]VerdictTrueOfBoot` | |
| | `BaselineReplacedByNone` | `BaselineKept` | |
| `EbpfProofs` | `EbpfCorrect` | `[]EbpfInv` | |
| | `LatenciesTrue` | `[]LatencyTrue` | |
| | `FilterFollows` | `[]FilterFollowsState` | `FitsMap`, and `[][Room]_vars` |
| | `DocumentsRight` | `[]DocumentsTrue` | |
| `CliProofs` | `ProbesAgree` | `[]ProbeAgreed` | |
| | `CommandsSound` | `[]CliInv` | |
| | `DisplayVerdicts` | `[]DisplayVerdictRight` | |
| | `JournalsSound` | `[]JournalsRight` | |
| `CollectorsProofs` | `CollectorsSound` | `[]CollectorsInv` | |
| | `RatesRight` | `RatesTrue` | |
| | `PercentagesRight` | `BusyTrue` | |
| | `RowsShippedOnce` | `RowsOnce`, the safety part of `LogFollowed` | |

Every hypothesis is one of the limits of section 3: without it the property is false, and
TLC shows how. A run has it built into its constants, the theorem names it. For
`FilterFollows` they are that no session has more threads than the filter map has entries,
and that the channel is not full when the watcher sends (a condition on the behaviour, and
not on the constants, because how fast the main loop receives is up to the scheduler).

Assumptions on constants are in the modules that declare them (`...Assumptions`) and
evaluated by TLC in every run: limits are natural numbers, a value that stands for "none"
is not one of the others, the threads of a session and the descriptors of a process are
finitely many, the boundaries of a histogram go up, statuses are HTTP's, and what a command
is given (journals, inventories, overrides, connectors) are sequences of such things, of any
length.

### Why the properties are not inductive, and what is added

- `Spool`. `TypeOK` needs that the active file is there in a rotation and that a name was
  reserved: `Shape` adds `Attached`, `Control` (what each program counter says of the
  operation under way) and `Reserved`. `FewReservations` adds `Filled`: what is renamed over a
  reservation is never itself empty, so the number of empty finals goes down there, and a
  clean-up that leaves one is counted in `left`.
  `FinalsWhole` adds what an active file is between two writes (`CleanFiles`: file and buffer
  alternate records and newlines; `CutLine`: within the padding) and that only valid lines
  are staged (`StageWhole`).
  `NoLoss` needs most, because later steps truncate, rename and delete the active file a
  record was accepted into: the records of the batch written so far are stored or in the
  current dataset's buffer (`BatchStored`); the active file of a dataset without a writer
  holds no record the writer answers for, so truncating it loses nothing (`Unattached`);
  neither does one with zero counted bytes, which rotation deletes (`Counted`); a document not
  written yet is nowhere (`Fresh`); the stage holds the valid lines of its source, a source
  without a quarantine name is undamaged, sources dealt with hold nothing (`Staged`).
  `NoDuplicate` adds that a record is held by its own dataset only, that an unwritten one is
  in no final, and that what a dataset holds is in no final unless recovery was interrupted
  between publishing a source and removing it (`Apart`).
- `Tailer`. An event gets one document because it has one place (`Directory`, `WrittenOnce`)
  and a document's id is that place (`Placed`); `Control` says which file the handle of a
  poll belongs to. The checkpoint is safe because it is `Clear`: everything before it, in its
  file and in older ones, is indexed, junk or destroyed, and the batch in flight covers the
  lines up to its end (`Covered`).
- `EsHealth`. `last_spoke` is the second of the last line decided (`SaidIsLastSpoke`), so the
  failures kept silent lie within `Repeat` seconds of it (`SilentNearLine`); they inject into
  the seconds of that window on either side of each clock step, which bounds their number.
  `LineOnItsWay`: an announced outage has its line printed or waiting, and no recovery waits.
- `SessionCounter`. With any number of agents, an ordinal plus the calls that have not read
  yet stays within the starts (`Affordable`). With one agent, `CallProgress` ties each step to
  what the two names hold, and an ordinal about to be returned is new (`RenamedIsNew`).
- `Session`. Counters are within the ticks (`WithinTicks`); a stopped agent that was not
  killed has removed its file (`FileGone`); the number of a label whose call went
  well is within its day's counter, which only grows until the file is unreadable
  (`LabelsCounted`); accumulators are of the current game (`AccPure`). For
  `TicksSummarisedOnce`, the summaries written and the accumulators together hold the ticks
  played with each game (`Accounted`), and an accumulator of no ticks is empty (`ZeroIsEmpty`).
- `Watcher`. The shared state agrees with the file once it is known what the thread has yet to
  see: without a watch there are no events (`BeforeWatch`), and a removal nothing followed is
  the last event (`RemovalIsLast`). For the refinement, an inactive state has no threads.
- `D3`. A run between its decision and its commit holds the lock, so the state it decided from
  is still the one in the file, and the decision follows from it and from a bus of this boot
  (`RunsSound`); the finding in the file is newer than every recovered one (`PendingNewest`).
- `Ebpf`. `Rings` is the accounting (events are counted by document and place, so that
  concatenating, removing and giving up documents are lemmas on cardinalities); `MapsOK` and
  `FilterOK` the sizes; `Losses` that counters only grow past what was named. `LatencyTrue`
  needs that a start in a map whose program is attached is the time of the call in progress
  (`StartsTrue`, and `JobsTrue` for gpu jobs), which holds because a return removes its start
  on every path and no start precedes the attaching (`Unused`). `FilterFollowsState` needs
  `Follow`: the newest state is the last in the channel or the one taken, and the threads an
  update leaves in the map and those it will insert make up, each once, the taken state's.
  `DocumentsTrue` needs that what was timed lies within the clock (`Timely`), that the running
  figures of a flush are those of the events read so far (`RecordOf`, by induction over the
  events), and that the documents made so far in a tick are those of its probes (`Gathered`);
  a ranking is a bijection between threads and places.
- `Cli`. `ProbeInv` says, stage by stage, what was asked and answered and which identity the
  answers were compared with. `OutcomeInv` ties a printed outcome to the command that made it
  and to the limits of the contract. The display verdict is what the loop over `modes.cfg` has
  found after each line (`JudgedRight`). A journal goes through five loops (`Among`, `Lines`,
  `UniqueTail`, `stable_merge`, `timestamps_regress`): for each text, the
  records of a prefix are counted, and a reading's surplus over the other is what is merged in;
  during the merge of two readings in order, what was merged is in order and no later than
  both heads; the combined journal then has the kernel lines and the last stamp of the whole
  one, so cutting its start off and merging the kernel's reading back in moves no precursor.
- `Collectors`. A collector's previous reading is what its source showed at the time it says
  (`RatesInv`), a baseline is of the selected process, by PID and start time, and its total is the
  busy time its contexts then had (`StreamInv`, `BusyInv`); `FrameInv` says what the reader
  holds at each of its steps, that a buffer taken in this game holds at most one sample of
  another and none while the reader is about to add one (`BufferOK`), and that rows shown of
  a log are rows read of it (`MangoOK`).

Definitions the provers have to see through avoid what they cannot: updates of a function at
a new key are written as a function constructor (`Put`, `Without`), counts as cardinalities
instead of folds, alternatives as `IF` or disjuncts instead of `CASE`, the loaded probes as a
set that is walked in the order of `Candidates`.

Loops are recursive functions over the numbers of turns (`f[n \in 0..Len(s)]`). The induction
theorems of the library take an operator, which the provers cannot instantiate; instead, a set
of numbers that is not empty has a least element (`Least`), so a set that holds 0 and, with a
number, the next one holds an interval (`UpTo`); `Recursion` and `SameUpTo` turn a recursive
function into the equations between its turns. Sums of durations are cardinalities of sets of
units.

### Only model-checked

Liveness under fairness is out of this prover's reach: `Published`, `EventuallyDelivered`,
`FilterFollowsFile`, `ProbeEnds`, `SignalStops`, `RowsRead` (the rest of `LogFollowed`),
`GameGetsReader`, `ShutdownEnds`, and the fairness part of `Delivers`.

## 5. Plan

1. Asset installer: a module of the transaction record, the journal and its recovery,
   with interruptions at every write and a second installer at the lock.
2. Bulk shipper: item-wise responses, 201 / 409 / error, and a document that is always
   rejected (every later line of the tailer waits behind it); the spool's lock retry
   across a service restart.
3. Retention: finals, an abstract Elastic Agent registry and the deletion job.

Order: what can lose a user's data first.

## 6. Not modelled

- Asset installer, spool retention, launcher and installation scripts: Python and shell
  tools beside the agent; the installer is next in the plan.
- GPU, power, memory and audio readings, and the Windows collectors: values of the moment,
  formatted; they carry nothing that a later tick depends on beyond caches of paths and of the
  audio back end, which is detected once.
- Configuration, profiles, host description, DLL scan, Windows launchers, the diagnose
  report, dashboards, templates, pipelines, release tooling and the archived Python
  collector: reading, formatting or declarative data.
- Of the modelled components: the texts of documents, labels and log lines, the values of
  samples, logging; partial lines of a FIFO or a log; returns the kernel misses
  (kretprobe instances); HTTP below the level of status, encoding and body.
