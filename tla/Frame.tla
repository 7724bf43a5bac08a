------------------------------- MODULE Frame -------------------------------
(***************************************************************************)
(* The frame collector (src/src/collectors/linux/gamescope.rs) with its    *)
(* MangoHud fallback (mangohud.rs).  While a game is tracked, a thread     *)
(* reads Gamescope's statistics FIFOs and leaves samples in a buffer; the  *)
(* agent's tick takes the buffer, or reads MangoHud's log when no FIFO is  *)
(* there.  The two threads share the buffer, the game's app id, the        *)
(* attached flag and the reader's stop flag, and nothing else.             *)
(* Time is in units of REOPEN_BACKOFF_INITIAL for the thread, and in ticks *)
(* for the agent; lines of a FIFO and rows of a log are read whole.        *)
(***************************************************************************)
EXTENDS StreamClient

CONSTANTS
    Apps,           \* Steam app ids
    Pipes,          \* sessions with a stats.pipe, in their order without the link
    Logs,           \* MangoHud's csv files
    ResolveTicks,   \* RESOLVE_INTERVAL
    CheckTicks,     \* CHECK_INTERVAL_SECS
    BackoffMax,     \* REOPEN_BACKOFF_MAX
    Window          \* DEMOTION_WINDOW and NO_CANDIDATE_WAIT

VARIABLES
    fifos,      \* by session: [there, opens, writer, lines]
    link,       \* the target of gamescope-stats, or None
    logs,       \* by log: [lines, opens], the lines written to it, of which the first is
                \* the column header, and whether it opens as a file of the user's
    latest,     \* the log written last, or None
    tracked,    \* the agent's game: None or [app], whose app may be None
    appId, samples, attached,       \* shared by the two threads
    reader,     \* the reader's thread and its stop flag, or None
    candidate,  \* gamescope_candidate_present
    resolveAge, \* ticks since last_resolve, or None
    mango,      \* MangoHudCollector: [path, pos, checkAge]
    frames,     \* this tick's document: [from, rows], or None
    epoch,      \* changes of the tracked game so far
    taken,      \* the last epoch in which the buffer was taken
    late,       \* a reader took a line after it was told to stop
    shown       \* by log, rows shipped since the collector last turned to it

sources == <<fifos, link, logs, latest>>
ghosts == <<epoch, taken, late, shown>>
collectorVars == <<tracked, candidate, resolveAge, mango, frames, epoch, taken, shown>>
frameVars == <<sources, collectorVars, appId, samples, attached, reader, late>>

Sessions == Range(Pipes)

\* What a FIFO carries, what the reader makes of it, and the reader itself.
Lines == [fps : {0, 1}] \cup [focus : Apps]
Samples == [fps : {1}, app : Apps, epoch : Nat]
Readers ==
    [at : {"look", "sleep", "read", "line", "match", "push", "done"}, stop : BOOLEAN,
     pipe : Sessions \cup {None}, pending : [fps : {0, 1}] \cup {None},
     line : Lines \cup Samples \cup {None}, demoted : [Sessions -> 0..Window],
     backoff : 1..BackoffMax, wait : Nat]

ASSUME FrameAssumptions ==
    /\ Pipes \in Seq(Range(Pipes)) /\ BackoffMax \in Nat \ {0} /\ Window \in Nat
    /\ None \notin Readers \cup Logs \cup [app : Apps \cup {None}]

NoMango == [path |-> None, pos |-> 0, checkAge |-> None]

FrameInit ==
    /\ logs = [l \in Logs |-> [lines |-> 0, opens |-> TRUE]] /\ latest = None
    /\ tracked = None /\ appId = None /\ samples = <<>> /\ attached = FALSE
    /\ reader = None /\ candidate = FALSE /\ resolveAge = None
    /\ mango = NoMango /\ frames = None
    /\ epoch = 0 /\ taken = 0 /\ late = FALSE /\ shown = {}

-----------------------------------------------------------------------------
(* Gamescope and MangoHud, as the collector sees them *)

environment_only == UNCHANGED <<collectorVars, appId, samples, attached, reader, late>>

\* Gamescope opens its FIFO, writes reports and ends.  A report is the frame rate
\* and then the app it is of; one cut short has no app.
OpenFifo(s) ==
    /\ fifos[s].there /\ ~fifos[s].writer
    /\ fifos' = [fifos EXCEPT ![s].writer = TRUE]
    /\ UNCHANGED <<link, logs, latest>> /\ environment_only

Report(s, fps, focus) ==
    /\ fifos[s].writer /\ fifos[s].lines = <<>>
    /\ fifos' = [fifos EXCEPT ![s].lines = <<[fps |-> fps]>> \o focus]
    /\ UNCHANGED <<link, logs, latest>> /\ environment_only

CloseFifo(s) ==
    /\ fifos[s].writer
    /\ fifos' = [fifos EXCEPT ![s].writer = FALSE]
    /\ UNCHANGED <<link, logs, latest>> /\ environment_only

RemoveFifo(s) ==
    /\ fifos[s].there /\ ~fifos[s].writer
    /\ fifos' = [fifos EXCEPT ![s].there = FALSE]
    /\ UNCHANGED <<link, logs, latest>> /\ environment_only

WriteLog(l) ==
    /\ logs' = [logs EXCEPT ![l].lines = @ + 1]
    /\ latest' = l
    /\ UNCHANGED <<fifos, link>> /\ environment_only

\* A log changes hands: its mode or its owner, which leaves its place among the logs.
HandLog(l) ==
    /\ logs' = [logs EXCEPT ![l].opens = ~@]
    /\ UNCHANGED <<fifos, link, latest>> /\ environment_only

-----------------------------------------------------------------------------
(* Which FIFO *)

stats_pipe_candidates == {s \in Sessions : fifos[s].there}

\* The link's target goes first when it is a FIFO of a session here.
FirstInOrder(pipes) ==
    IF link \in pipes THEN link ELSE Pipes[Min({i \in DOMAIN Pipes : Pipes[i] \in pipes})]

-----------------------------------------------------------------------------
(* The reader thread *)

NewReader == [at |-> "look", stop |-> FALSE, pipe |-> None, pending |-> None, line |-> None,
              demoted |-> [s \in Sessions |-> 0], backoff |-> 1, wait |-> 0]

Finished == reader # None /\ reader.at = "done"
DoubledOn(b) == 2 * b
Doubled(b) == Min({2 * b, BackoffMax})

\* sleep_with_stop, started: the thread goes on looking when it ends.  A sleep lasts
\* what it asks for (in the code at least that).
Sleeping(r, n) == [r EXCEPT !.at = "sleep", !.wait = n]
BackingOff(r) == [Sleeping(r, r.backoff) EXCEPT !.backoff = Doubled(@)]

thread_only == UNCHANGED <<sources, collectorVars>>

\* The first candidate that is not demoted.
FirstOf(r) ==
    LET free == {s \in stats_pipe_candidates : r.demoted[s] = 0} IN
    IF free = {} THEN None ELSE FirstInOrder(free)

\* Whether the session's directories and FIFO pass the checks made through descriptors.
open_stats_pipe(s) == fifos[s].opens

\* A FIFO opens without its writer; reading it starts with nothing pending.
Opened(r, s) == [r EXCEPT !.at = "read", !.pipe = s, !.pending = None]

Look ==
    /\ reader # None /\ reader.at = "look"
    /\ LET s == FirstOf(reader) IN
       reader' = IF reader.stop THEN [reader EXCEPT !.at = "done"]
                 ELSE IF s = None THEN Sleeping(reader, Window)
                 ELSE IF ~open_stats_pipe(s) THEN BackingOff(reader)
                 ELSE Opened(reader, s)
    /\ thread_only /\ UNCHANGED <<appId, samples, attached, late>>

\* The sleep ends early when the thread is told to stop; else demotions run down.
Wake ==
    /\ reader # None /\ reader.at = "sleep"
    /\ reader' = IF reader.stop THEN [reader EXCEPT !.at = "done"]
                 ELSE [reader EXCEPT !.at = "look",
                          !.demoted = [s \in Sessions |-> saturating_sub(@[s], reader.wait)]]
    /\ thread_only /\ UNCHANGED <<appId, samples, attached, late>>

\* What read_line finds: a line, the end (no writer), or nothing yet, in which
\* case the thread sleeps 25 ms and reads again while demotions run down.
ReadStop ==
    /\ reader # None /\ reader.at = "read" /\ reader.stop
    /\ reader' = [reader EXCEPT !.at = "done"]
    /\ thread_only /\ UNCHANGED <<appId, samples, attached, late>>

ReadLine ==
    /\ reader # None /\ reader.at = "read" /\ ~reader.stop
    /\ fifos[reader.pipe].lines # <<>>
    /\ reader' = [reader EXCEPT !.at = "line", !.line = Head(fifos[reader.pipe].lines)]
    /\ fifos' = [fifos EXCEPT ![reader.pipe].lines = Tail(@)]
    /\ UNCHANGED <<link, logs, latest, collectorVars, appId, samples, attached, late>>

Demoted(r) == [r EXCEPT !.demoted[r.pipe] = Window]

ReadEnd ==
    /\ reader # None /\ reader.at = "read" /\ ~reader.stop
    /\ fifos[reader.pipe].lines = <<>> /\ ~fifos[reader.pipe].writer
    /\ attached' = FALSE
    /\ reader' = BackingOff(Demoted(reader))
    /\ thread_only /\ UNCHANGED <<appId, samples, late>>

ReadNothing ==
    /\ reader # None /\ reader.at = "read" /\ ~reader.stop
    /\ fifos[reader.pipe].lines = <<>> /\ fifos[reader.pipe].writer
    /\ \E s \in Sessions : reader.demoted[s] > 0
    /\ reader' = [reader EXCEPT !.demoted = [s \in Sessions |-> 0]]
    /\ thread_only /\ UNCHANGED <<appId, samples, attached, late>>

\* Any other error of the read: reopened after the backoff, not demoted.
ReadError ==
    /\ reader # None /\ reader.at = "read" /\ ~reader.stop
    /\ attached' = FALSE
    /\ reader' = BackingOff(reader)
    /\ thread_only /\ UNCHANGED <<appId, samples, late>>

\* Any line attaches the source; a rate waits for its focus line.
TakeLine ==
    /\ reader # None /\ reader.at = "line"
    /\ attached' = TRUE
    /\ late' = (late \/ reader.stop)
    /\ LET line == reader.line
           r == [reader EXCEPT !.backoff = 1, !.line = None]
       IN  reader' = IF "fps" \in DOMAIN line THEN [r EXCEPT !.at = "read", !.pending = line]
                     ELSE IF r.pending = None THEN [r EXCEPT !.at = "read"]
                     ELSE [r EXCEPT !.at = "match", !.line = line]
    /\ thread_only /\ UNCHANGED <<appId, samples>>

\* The focus must be the tracked game's app, and the rate at least one.
Sample(r) == [fps |-> r.pending.fps, app |-> r.line.focus, epoch |-> epoch]

Match ==
    /\ reader # None /\ reader.at = "match"
    /\ LET s == Sample(reader)
           r == [reader EXCEPT !.pending = None, !.line = None]
       IN  reader' = IF appId # None /\ appId = s.app /\ s.fps >= 1
                     THEN [r EXCEPT !.at = "push", !.line = s]
                     ELSE [r EXCEPT !.at = "read"]
    /\ thread_only /\ UNCHANGED <<appId, samples, attached, late>>

Push ==
    /\ reader # None /\ reader.at = "push"
    /\ samples' = Append(samples, reader.line)
    /\ reader' = [reader EXCEPT !.at = "read", !.line = None]
    /\ thread_only /\ UNCHANGED <<appId, attached, late>>

Thread == \/ Look \/ Wake \/ ReadStop \/ ReadLine \/ ReadEnd \/ ReadNothing
          \/ TakeLine \/ Match \/ Push

-----------------------------------------------------------------------------
(* The collector, on the agent's thread *)

Unreaped == reader
Reaped == IF Finished THEN None ELSE reader

\* maybe_resolve_source once it looks: the reader is started only when there is none.
Resolve(old) ==
    LET found == stats_pipe_candidates # {} IN
    /\ resolveAge' = 0
    /\ candidate' = found
    /\ reader' = IF found /\ old = None THEN NewReader ELSE old

\* set_game_pid(Some): a new game, with the app id its environment names.
SetGame(game) ==
    /\ tracked' = game
    /\ appId' = game.app
    /\ epoch' = epoch + 1
    /\ Resolve(Reaped)
    /\ UNCHANGED <<sources, samples, attached, mango, frames, taken, late, shown>>

stop_reader_attached ==
    /\ reader' = IF reader = None THEN None ELSE [reader EXCEPT !.stop = TRUE]
    /\ UNCHANGED attached

\* stop_reader leaves the thread to end by itself.
stop_reader ==
    /\ reader' = IF reader = None THEN None ELSE [reader EXCEPT !.stop = TRUE]
    /\ attached' = FALSE

\* set_game_pid(None)
ClearGame ==
    /\ tracked' = None
    /\ appId' = None
    /\ epoch' = epoch + 1
    /\ stop_reader
    /\ UNCHANGED <<sources, samples, candidate, resolveAge, mango, frames, taken, late, shown>>

SwitchedAnew ==
    IF mango.checkAge # None /\ mango.checkAge < CheckTicks THEN mango
    ELSE [NoMango EXCEPT !.path = latest, !.checkAge = 0]
SwitchedOnce == IF mango.path # None THEN mango ELSE [NoMango EXCEPT !.path = latest, !.checkAge = 0]

\* maybe_switch_log: the log written last, whether or not it can be read.
Switched ==
    IF mango.checkAge # None /\ mango.checkAge < CheckTicks THEN mango
    ELSE IF latest = mango.path THEN [mango EXCEPT !.checkAge = 0]
    ELSE [NoMango EXCEPT !.path = latest, !.checkAge = 0]

\* read_new_rows: a log that does not open, or not as a file of the user's, gives no
\* rows and keeps its position; of another, rows are the lines after the header.
Opens(m) == m.path # None /\ logs[m.path].opens

NewRows(m) ==
    IF ~Opens(m) THEN {}
    ELSE {<<m.path, n>> : n \in Max({m.pos + 1, 2})..logs[m.path].lines}

ReadOn(m) == IF ~Opens(m) THEN m ELSE [m EXCEPT !.pos = logs[m.path].lines]

CollectMango ==
    LET rows == NewRows(Switched) IN
    /\ mango' = ReadOn(Switched)
    /\ frames' = IF rows = {} THEN None ELSE [from |-> "mango", rows |-> rows]
    /\ shown' = (IF Switched.path = mango.path THEN shown ELSE {}) \cup rows
    /\ UNCHANGED <<samples, taken>>

Unemptied == samples

\* collect_gamescope empties the buffer it reports.
Emptied == <<>>

CollectGamescope ==
    /\ samples' = Emptied
    /\ frames' = IF samples = <<>> THEN None
                 ELSE [from |-> "gamescope", rows |-> samples, first |-> taken < epoch]
    /\ taken' = epoch
    /\ UNCHANGED <<mango, shown>>

\* Without a game no candidate counts; with one, a look is due every five seconds.
CollectFrame ==
    /\ IF tracked = None
       THEN candidate' = FALSE /\ reader' = Reaped /\ UNCHANGED resolveAge
       ELSE IF resolveAge # None /\ resolveAge < ResolveTicks
       THEN reader' = Reaped /\ UNCHANGED <<candidate, resolveAge>>
       ELSE Resolve(Reaped)
    /\ IF candidate' \/ attached THEN CollectGamescope ELSE CollectMango
    /\ UNCHANGED <<sources, tracked, appId, attached, epoch, late>>

DropJoins == UNCHANGED frameVars

\* Drop: the reader is told to stop, and joined.
Drop ==
    /\ stop_reader
    /\ UNCHANGED <<sources, collectorVars, appId, samples, late>>

AgeFrame ==
    /\ resolveAge' = IF resolveAge = None THEN None ELSE Min({resolveAge + 1, ResolveTicks})
    /\ mango' = IF mango.checkAge = None THEN mango
                ELSE [mango EXCEPT !.checkAge = Min({@ + 1, CheckTicks})]
=============================================================================
