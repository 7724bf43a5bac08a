----------------------------- MODULE Collectors -----------------------------
(***************************************************************************)
(* The agent's tick over its Linux collectors (src/src/main.rs run and     *)
(* build_collectors; src/src/collectors/linux): the game is polled, then   *)
(* the collectors run one after the other.  The machine, the processes,    *)
(* Gamescope and MangoHud go on between any two steps, and so does the     *)
(* frame collector's reader thread.                                        *)
(***************************************************************************)
EXTENDS Frame

CONSTANT
    Workloads   \* what may happen: [clock, moves, procs, writes, rows, games, stops,
                \* fifos, link, faults], where faults may hold "files" (files that
                \* cannot be read, two ticks at one instant), "fifos" (games without
                \* an app id, reports cut short or of no frames, read errors) and
                \* "logs" (logs that are another user's, or cannot be opened)

ASSUME CollectorsAssumptions ==
    \A w \in Workloads : w.fifos \in [Sessions -> [there : BOOLEAN, opens : BOOLEAN,
                                                  writer : BOOLEAN, lines : Seq(Lines)]]

VARIABLES
    pc,     \* "wait", "poll", "collect", "select", "sample", "drop", "gone"
    work    \* what may still happen

vars == <<clock, rateVars, streamVars, frameVars, pc, work>>

Init ==
    /\ clock = 0
    /\ RatesInit /\ StreamInit /\ FrameInit
    /\ pc = "wait"
    /\ work \in Workloads
    /\ fifos = work.fifos
    /\ link = work.link

Spend(part) == work[part] > 0 /\ work' = [work EXCEPT ![part] = @ - 1]

-----------------------------------------------------------------------------
(* The agent *)

\* Time passes between two ticks; the clock stops at its bound.
Pass ==
    \/ clock' = Min({clock + 1, work.clock}) /\ AgeScan /\ AgeFrame
    \/ "files" \in work.faults /\ clock < work.clock /\ UNCHANGED <<clock, scanAge, resolveAge, mango>>

Sleep ==
    /\ pc = "wait"
    /\ Pass
    /\ rates' = NoRates /\ client' = NoBaselines /\ frames' = None
    /\ pc' = "poll"
    /\ UNCHANGED <<machine, prev, replugged, table, selected, sampling, baseline, sources,
                   tracked, candidate, appId, samples, attached, reader, ghosts, work>>

Games == [app : Apps \cup IF "fifos" \in work.faults THEN {None} ELSE {}]

\* SessionManager::poll: nothing, a game that starts (or replaces another), its end.
Poll ==
    /\ pc = "poll"
    /\ pc' = "collect"
    /\ \/ UNCHANGED <<frameVars, work>>
       \/ /\ Spend("games")
          /\ \/ \E g \in Games \ {tracked} : SetGame(g)
             \/ tracked # None /\ ClearGame
    /\ UNCHANGED <<clock, rateVars, streamVars>>

Reads == IF "files" \in work.faults THEN BOOLEAN ELSE {TRUE}

\* The loop over the collectors up to the stream client's; those before it share nothing.
Collect ==
    /\ pc = "collect"
    /\ pc' = "select"
    /\ \E stat, snmp \in Reads : CollectRates(stat, snmp)
    /\ CollectFrame
    /\ UNCHANGED <<clock, streamVars, work>>

Select ==
    /\ pc = "select"
    /\ SelectStream
    /\ pc' = IF selected' = None THEN "wait" ELSE "sample"
    /\ UNCHANGED <<clock, rateVars, frameVars, work>>

SampleClient ==
    /\ pc = "sample"
    /\ pc' = "wait"
    /\ SampleStream
    /\ UNCHANGED <<clock, rateVars, frameVars, work>>

Shutdown ==
    /\ pc = "wait" /\ work.stops
    /\ pc' = "drop"
    /\ Drop
    /\ UNCHANGED <<clock, rateVars, streamVars, work>>

Joined ==
    /\ pc = "drop"
    /\ reader = None \/ Finished
    /\ pc' = "gone"
    /\ UNCHANGED <<clock, rateVars, streamVars, frameVars, work>>

Agent == \/ Sleep \/ Poll \/ Collect \/ Select \/ SampleClient \/ Joined

-----------------------------------------------------------------------------
(* Everything else.  What only one step of the agent reads moves only while that *)
(* step is next: it makes no difference to the agent when it moved before.       *)

Reader == Thread /\ UNCHANGED <<clock, rateVars, streamVars, pc, work>>

ReaderFails ==
    /\ "fifos" \in work.faults
    /\ ReadError
    /\ UNCHANGED <<clock, rateVars, streamVars, pc, work>>

Machine ==
    /\ pc = "collect"
    /\ Spend("moves")
    /\ \/ \E s \in Sources, idle \in BOOLEAN : Count(s, idle)
       \/ \E s \in Sources : Replug(s)
       \/ Retransmit
    /\ UNCHANGED <<clock, streamVars, frameVars, pc>>

Processes ==
    /\ pc \in {"select", "sample"}
    /\ Spend("procs")
    /\ \/ \E p \in Pids, named \in BOOLEAN, c \in Contexts : StartProc(p, named, c)
       \/ \E p \in Pids : EndProc(p)
       \/ \E p \in Pids, f \in Fds, c \in Contexts \cup {None} : SetFd(p, f, c)
       \/ \E c \in Contexts : \E e \in Engines[c] : Run(c, e)
    /\ UNCHANGED <<clock, rateVars, frameVars, pc>>

Gamescope ==
    /\ Spend("writes")
    /\ \/ \E s \in Sessions : OpenFifo(s) \/ CloseFifo(s) \/ RemoveFifo(s)
       \/ \E s \in Sessions, app \in Apps : Report(s, 1, <<[focus |-> app]>>)
       \/ \E s \in Sessions : "fifos" \in work.faults /\ (Report(s, 1, <<>>) \/ \E app \in Apps : Report(s, 0, <<[focus |-> app]>>))
    /\ UNCHANGED <<clock, rateVars, streamVars, pc>>

MangoHud ==
    /\ pc = "collect"
    /\ Spend("rows")
    /\ \E l \in Logs : WriteLog(l) \/ ("logs" \in work.faults /\ HandLog(l))
    /\ UNCHANGED <<clock, rateVars, streamVars, pc>>

Next == \/ Agent \/ Reader \/ Shutdown \/ ReaderFails
        \/ Machine \/ Processes \/ Gamescope \/ MangoHud

\* The agent's thread and the reader's are scheduled; a signal need not come.
Spec == Init /\ [][Next]_vars /\ WF_vars(Agent) /\ WF_vars(Reader)

-----------------------------------------------------------------------------
(* Properties *)

\* The shape of the collectors' state: snapshots are of known sources, the selected
\* process was started, the reader's backoff and demotions are within their bounds.
TypeOK ==
    /\ \A s \in Sources : meters[s].idle <= meters[s].count /\ meters[s].up \in BOOLEAN
    /\ \A c \in RateCollectors : prev[c] = None \/ Range(prev[c].order) \subseteq Range(FileOf[c])
    /\ selected # None => selected.pid \in Pids /\ selected.start \in 1..starts
    /\ sampling # None => pc = "sample" /\ sampling = selected
    /\ reader # None =>
         /\ reader.at \in {"look", "sleep", "read", "line", "match", "push", "done"}
         /\ reader.backoff \in 1..BackoffMax
         /\ reader.demoted \in [Sessions -> 0..Window]
    /\ appId = IF tracked = None THEN None ELSE tracked.app
    /\ mango.path = None \/ mango.pos \in 0..logs[mango.path].lines

Clean(c) == replugged[c] \cap Range(FileOf[c]) = {}

GainTrue(c) ==
    rates'[c] # None =>
        LET doc == rates'[c] IN
        /\ doc.elapsed = clock - prev[c].at
        /\ doc.source \notin replugged[c] =>
               doc.gain = moved[doc.source].count - prev[c].was[doc.source].count
        /\ c = "network" /\ prev'[c].snmp /\ prev[c].snmp =>
               doc.retrans = retrans - prev[c].sent

CpuTrue ==
    rates'.cpu # None /\ Clean("cpu") =>
        LET online == Listed(Cores, Up(Cores)) IN
        rates'.cpu = [i \in DOMAIN online |->
            [core |-> online[i],
             idle |-> moved[online[i]].idle - prev.cpu.was[online[i]].idle,
             total |-> moved[online[i]].count - prev.cpu.was[online[i]].count]]

\* A rate is of one source and one interval: what a disk or an interface has counted
\* since the snapshot it is compared with, over the time since then, unless that
\* source left or came back in between; a core's utilisation likewise, unless any
\* core did (lines are paired by position); retransmissions, unless snmp could not
\* be read (cpu.rs, storage.rs, network.rs collect).
RatesTrue == [][pc = "collect" => CpuTrue /\ GainTrue("storage") /\ GainTrue("network")]_vars

BusyTrueOf(g) ==
    LET p == sampling.pid
        fds == {f \in Fds : procs[p].fds[f] # None}
        open == [c \in {procs[p].fds[f] : f \in fds} |-> c]
    IN  client'[g] # None /\ (procs[p] = None \/ (DOMAIN open) \cap Unnamed = {}) =>
            /\ procs[p] # None /\ procs[p].start = sampling.start
            /\ client'[g].elapsed = clock - baseline[g].at
            /\ Cardinality(fds) <= MaxFiles =>
                 client'[g].gain = Cardinality(Units(open, Groups[g], busy)
                                               \ Units(open, Groups[g], baseline[g].was))

\* A busy percentage is of one process and its contexts, each once: all of them were
\* open in it, under the start time it was selected by, when its descriptors were
\* read, and the gain is their engine time since the baseline, if the descriptors are
\* within the limit.  Descriptors without a client id are told apart by counters and
\* numbers and are not covered (stream_client.rs delta_percent, deduplicate,
\* selected_process).
BusyTrue == [][pc = "sample" => \A g \in DOMAIN Groups : BusyTrueOf(g)]_vars

\* Frames shipped for a game are that game's.  The buffer is not cleared when the game
\* changes, so its first document may hold samples of the game before; after that at
\* most one does, the sample the reader had matched when the game changed
\* (gamescope.rs set_game_pid, collect_gamescope, read_gamescope_loop).
FramesOfGame ==
    frames # None /\ frames.from = "gamescope" /\ ~frames.first =>
        LET other == {i \in DOMAIN frames.rows : frames.rows[i].app # appId} IN
        Cardinality(other) <= 1

\* No row of a MangoHud log is shipped twice while the log stays the latest
\* (mangohud.rs maybe_switch_log, read_new_rows).
RowsOnce ==
    [][pc = "collect" /\ frames' # None /\ frames'.from = "mango" /\ mango'.path = mango.path =>
          frames'.rows \cap shown = {}]_vars

\* The attached flag is never left behind by a reader that ended, which would hide
\* MangoHud, unless the reader took a line after it was told to stop
\* (gamescope.rs stop_reader, read_gamescope_loop).
AttachedHonest == attached => late \/ (reader # None /\ ~Finished)

\* A game whose Gamescope FIFO is there for good gets a reader for good, also when the
\* reader of the game before was still stopping as it started (maybe_resolve_source).
GameGetsReader ==
    <>[](tracked # None /\ stats_pipe_candidates # {}) =>
        <>[](reader # None /\ ~reader.stop /\ ~Finished) \/ <>(pc = "drop")

\* Without a candidate every row of the log written last is read, as soon as it opens,
\* unless a flag left behind or a shutdown prevents it (FrameCollector::collect).  While
\* it does not open nothing is read, whatever the older logs hold: the ranking does not
\* ask whether a log can be read (mangohud.rs latest_log, read_new_rows).
RowsRead ==
    []<>(mango.path = latest
           /\ (latest # None => mango.pos = logs[latest].lines \/ ~logs[latest].opens))
        \/ []<>(candidate \/ attached) \/ <>(pc = "drop")

\* A shutdown is not held up by the reader it joins (Drop, sleep_with_stop).
ShutdownEnds == pc = "drop" ~> pc = "gone"

\* A FIFO without a writer cannot keep the reader from one that has lines to read.
StaleCannotPin ==
    \A s \in Sessions :
        <>[](tracked # None /\ fifos[s].there /\ fifos[s].opens /\ fifos[s].lines # <<>>
               /\ \A t \in Sessions \ {s} : ~fifos[t].writer /\ fifos[t].lines = <<>>)
            => <>(pc = "drop")

\* The fallback log is followed: its rows are read in the end, and none is shipped twice.
LogFollowed == RowsOnce /\ RowsRead

\* What holds of the collectors at every moment: the shape of their state, frames of
\* the tracked game, and an attached flag with a live reader behind it.
CollectorsInv == TypeOK /\ FramesOfGame /\ AttachedHonest
=============================================================================
