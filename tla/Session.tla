------------------------------ MODULE Session ------------------------------
(***************************************************************************)
(* The agent's main loop and its SessionManager: games detected, labelled, *)
(* measured and summarised (src/src/main.rs and src/src/session.rs).       *)
(*                                                                         *)
(* A tick polls for a game, handles the change, collects a sample from     *)
(* every collector and adds it to the accumulators of the summary.  /proc  *)
(* is scanned every five seconds only.  A target is a game and the process *)
(* it runs as; the accumulators are the number of ticks of each game; the  *)
(* settings overlay is the set of games whose settings were merged into    *)
(* the configured ones.  A game stands for its steam_app_id: two games     *)
(* without one are told apart by their process ids only.                   *)
(***************************************************************************)
EXTENDS Integers, Sequences, FiniteSets, FiniteSetsExt, Functions

CONSTANTS
    Games,      \* game names
    Pids,       \* process ids
    Profiled,   \* the games that have a profile
    MaxTicks,   \* bound: ticks of all runs of the agent together
    MaxRuns,    \* bound: how often the agent starts
    MaxFaults,  \* bound: failed writes of session.json or of a summary, and
                \* failures of the session counter
    MaxDays,    \* bound: the days a behaviour spans
    None        \* no target, no game

ASSUME SessionAssumptions ==
    /\ Profiled \subseteq Games /\ None \notin Games \cup [game : Games, pid : Pids]
    /\ MaxTicks \in Nat /\ MaxRuns \in Nat /\ MaxFaults \in Nat /\ MaxDays \in Nat \ {0}

Target == [game : Games, pid : Pids]
Targets == Target \cup {None}

VARIABLES
    proc,       \* the target that really runs
    file,       \* session.json
    counter,    \* counter[g]: the ordinal session-counters.json has for g and today
    day,        \* the UTC date
    pc,         \* the main loop: "down", "wait", "polled"
    pinned,     \* the user's target, None for detection
    manual,     \* label_is_manual
    current,    \* current_game
    label,      \* the game, date and ordinal; None and 0 for the manual or idle label
    overlay,    \* settings_overlay
    known,      \* last_known_game
    acc,        \* SessionAccumulators
    sessionTick,\* session_tick
    summaries,  \* history: the summaries of this run
    played,     \* history: played[g]: ticks of game g in this run
    issued,     \* history: every label generated, in order, and how it was counted
    stale,      \* history: session.json outlived a killed agent
    switched,   \* history: this game replaced another within one scan
    ticks, runs, faults

daily == <<counter, day>>
manager == <<pinned, manual, current, label>>
loop == <<overlay, known, acc, sessionTick>>
history == <<summaries, played, issued, stale, switched>>
bounds == <<ticks, runs, faults>>
vars == <<proc, file, daily, pc, manager, loop, history, bounds>>

Zero == [g \in Games \cup {None} |-> 0]
Unnamed == [game |-> None, day |-> 0, n |-> 0]
GameOf(t) == IF t = None THEN None ELSE t.game

-----------------------------------------------------------------------------
(* The desktop *)

\* A game starts; the agent may not have seen the last one end.
Launch ==
    /\ \E t \in Target : t # proc /\ proc' = t
    /\ UNCHANGED <<file, daily, pc, manager, loop, history, bounds>>

Quit ==
    /\ proc # None
    /\ proc' = None
    /\ UNCHANGED <<file, daily, pc, manager, loop, history, bounds>>

\* A new UTC date: session-counters.json has no entry for it yet.
NewDay ==
    /\ day < MaxDays
    /\ day' = day + 1
    /\ counter' = [g \in Games |-> 0]

Midnight ==
    /\ NewDay
    /\ UNCHANGED <<proc, file, pc, manager, loop, history, bounds>>

-----------------------------------------------------------------------------
(* The agent starts *)

\* new_with_label_and_settings and the main loop's first values.  A session.json
\* that is there already is not looked at.
Start ==
    /\ pc = "down" /\ runs < MaxRuns
    /\ runs' = runs + 1
    /\ pc' = "wait"
    /\ pinned' \in {None, proc}
    /\ manual' \in BOOLEAN
    /\ label' = Unnamed
    /\ current' = None /\ known' = None
    /\ overlay' = {} /\ acc' = Zero /\ sessionTick' = 0
    /\ summaries' = <<>> /\ played' = Zero /\ switched' = FALSE
    /\ UNCHANGED <<proc, file, daily, issued, stale, ticks, faults>>

-----------------------------------------------------------------------------
(* Changes of session.json, and documents that may fail to be written *)

\* write_session_json, which may fail.
WriteFile(t) ==
    \/ file' = t /\ stale' = FALSE /\ UNCHANGED faults
    \/ faults < MaxFaults /\ faults' = faults + 1 /\ UNCHANGED <<file, stale>>

\* A summary built from the accumulators and the manager's fields.
Summary(t) == [game |-> GameOf(t), acc |-> acc, label |-> label, overlay |-> overlay,
               switched |-> switched]

\* write_output for a summary, which may fail and is not tried again.
WriteSummary(t) ==
    \/ summaries' = Append(summaries, Summary(t)) /\ UNCHANGED faults
    \/ faults < MaxFaults /\ faults' = faults + 1 /\ UNCHANGED summaries

-----------------------------------------------------------------------------
(* The tick: game detection *)

\* Mutant: the ordinal is the one last saved.
NumberStale(g) == counter[g]

\* The ordinal of the next session of g today.
Number(g) == counter[g] + 1

\* auto_label_game_n: the ordinal and the date it is called on.
Named(g, n, how) ==
    /\ label' = [game |-> g, day |-> day', n |-> n]
    /\ issued' = Append(issued, [label |-> label', how |-> how])

\* increment_session_counter, and the counter is saved.
Counted(g) ==
    /\ counter' = [counter EXCEPT ![g] = Number(g)] /\ UNCHANGED day
    /\ Named(g, Number(g), "saved")

Miscounts == Cardinality({i \in DOMAIN issued : issued[i].how # "saved"})

\* increment_session_counter where the file or the clock plays it false.  It cannot
\* be opened or locked: the ordinal is 1.  The new counter cannot be saved: the
\* ordinal is used all the same.  The file is not read or does not parse: all
\* counters start anew.  The label may be of the day after the one counted.
Miscounted(g) ==
    /\ Miscounts < MaxFaults
    /\ \/ /\ UNCHANGED daily \/ NewDay
          /\ \E n \in {1, Number(g)} : Named(g, n, "lost")
       \/ /\ counter' = [h \in Games |-> IF h = g THEN 1 ELSE 0] /\ UNCHANGED day
          /\ Named(g, 1, "wiped")

\* Mutant: the label is only set for the first game.
LabelledOnce(t) ==
    IF manual \/ label # Unnamed THEN UNCHANGED <<daily, label, issued>>
    ELSE Counted(t.game) \/ Miscounted(t.game)

\* The label of a first detection, unless the user set one.
Labelled(t) ==
    IF manual THEN UNCHANGED <<daily, label, issued>>
    ELSE Counted(t.game) \/ Miscounted(t.game)

\* The main loop on GameStarted(t): the profile replaces the overlay, hints from
\* the process's maps are added to it.
Started(t) ==
    /\ current' = t /\ known' = t /\ switched' = (current # None)
    /\ \E maps \in SUBSET {t.game} :
           overlay' = (IF t.game \in Profiled THEN {t.game} ELSE overlay) \cup maps
    /\ UNCHANGED <<acc, summaries>>
    /\ sessionTick' = sessionTick + 1

\* Mutant: the accumulators go on into the next game.
EndedKeeps(t) ==
    /\ current' = None /\ known' = t /\ switched' = FALSE
    /\ WriteSummary(t)
    /\ overlay' = {} /\ sessionTick' = 0
    /\ UNCHANGED acc

\* Mutant: the overlay of the game goes on into the next one.
EndedOverlaid(t) ==
    /\ current' = None /\ known' = t /\ switched' = FALSE
    /\ WriteSummary(t)
    /\ acc' = Zero /\ sessionTick' = 0
    /\ UNCHANGED overlay

\* The main loop on GameEnded(t): the summary, then everything starts anew.
\* session_tick was counted up before, so there always is a summary.
Ended(t) ==
    /\ current' = None /\ known' = t /\ switched' = FALSE
    /\ WriteSummary(t)
    /\ overlay' = {} /\ acc' = Zero /\ sessionTick' = 0

\* NoChange.  The scan refreshes the process list of the target it knows.
Unchanged ==
    /\ sessionTick' = sessionTick + 1
    /\ UNCHANGED <<file, daily, current, label, overlay, known, acc>>
    /\ UNCHANGED <<summaries, issued, stale, switched, faults>>

\* SessionManager::poll after a scan that found proc.
Detect ==
    \/ current = proc /\ Unchanged
    \/ /\ current = None /\ proc # None
       /\ Labelled(proc)
       /\ WriteFile(proc)
       /\ Started(proc)
    \/ /\ current # None /\ proc = None
       /\ file' = None
       /\ Ended(current)
       /\ stale' = FALSE
       /\ UNCHANGED <<daily, label, issued>>
    \/ /\ current # None /\ proc # None /\ current # proc
       /\ WriteFile(proc)
       /\ Started(proc)
       /\ UNCHANGED <<daily, label, issued>>

\* poll_pinned_target: the process id alone tells whether the user's target lives,
\* and session.json and the label are left alone.
DetectPinned ==
    LET alive == proc # None /\ proc.pid = pinned.pid
    IN  /\ UNCHANGED <<file, daily, label, issued, stale>>
        /\ \/ (current # None) = alive /\ Unchanged
           \/ current = None /\ alive /\ Started(pinned) /\ UNCHANGED faults
           \/ current # None /\ ~alive /\ Ended(current)

\* The first half of a tick.  A scan is due every fifth second at most.
Poll ==
    /\ pc = "wait" /\ ticks < MaxTicks
    /\ ticks' = ticks + 1
    /\ pc' = "polled"
    /\ \/ pinned = None /\ (Detect \/ Unchanged)
       \/ pinned # None /\ DetectPinned
    /\ UNCHANGED <<proc, pinned, manual, played, runs>>

\* The second half: the collectors' documents are added up and shipped.
Collect ==
    /\ pc = "polled"
    /\ pc' = "wait"
    /\ acc' = [acc EXCEPT ![GameOf(current)] = @ + 1]
    /\ played' = [played EXCEPT ![GameOf(current)] = @ + 1]
    /\ UNCHANGED <<proc, file, daily, manager, overlay, known, sessionTick>>
    /\ UNCHANGED <<summaries, issued, stale, switched, bounds>>

-----------------------------------------------------------------------------
(* The agent stops *)

\* The game a summary is about: the current one, or the one last known.
Subject == IF current # None THEN current ELSE known

\* Mutant: a summary at shutdown only when no game runs any more.
ShutdownIdle ==
    /\ pc = "wait"
    /\ pc' = "down"
    /\ file' = None /\ stale' = FALSE
    /\ \/ sessionTick > 0 /\ current = None /\ WriteSummary(Subject)
       \/ (sessionTick = 0 \/ current # None) /\ UNCHANGED <<summaries, faults>>
    /\ UNCHANGED <<proc, daily, manager, loop, played, issued, switched, ticks, runs>>

\* Mutant: session.json survives the shutdown.
ShutdownKeepsFile ==
    /\ pc = "wait"
    /\ pc' = "down"
    /\ \/ sessionTick > 0 /\ WriteSummary(Subject)
       \/ sessionTick = 0 /\ UNCHANGED <<summaries, faults>>
    /\ UNCHANGED <<proc, file, stale, daily, manager, loop, played, issued, switched, ticks, runs>>

\* SIGTERM or SIGINT between two ticks: session.json goes, the rest is summarised.
Shutdown ==
    /\ pc = "wait"
    /\ pc' = "down"
    /\ file' = None /\ stale' = FALSE
    /\ \/ sessionTick > 0 /\ WriteSummary(Subject)
       \/ sessionTick = 0 /\ UNCHANGED <<summaries, faults>>
    /\ UNCHANGED <<proc, daily, manager, loop, played, issued, switched, ticks, runs>>

\* The agent is killed: session.json stays.
Kill ==
    /\ pc # "down"
    /\ pc' = "down"
    /\ stale' = (stale \/ file # None)
    /\ played' = Zero /\ summaries' = <<>>
    /\ UNCHANGED <<proc, file, daily, manager, loop, issued, switched, bounds>>

Init ==
    /\ proc = None /\ file = None /\ counter = [g \in Games |-> 0] /\ day = 1
    /\ pc = "down" /\ pinned = None /\ manual = FALSE
    /\ current = None /\ label = Unnamed
    /\ overlay = {} /\ known = None /\ acc = Zero /\ sessionTick = 0
    /\ summaries = <<>> /\ played = Zero /\ issued = <<>> /\ stale = FALSE
    /\ switched = FALSE
    /\ ticks = 0 /\ runs = 0 /\ faults = 0

Next == Launch \/ Quit \/ Midnight \/ Start \/ Poll \/ Collect \/ Shutdown \/ Kill

Spec == Init /\ [][Next]_vars

-----------------------------------------------------------------------------
(* Properties *)

\* The shape of the agent's state.
TypeOK ==
    /\ proc \in Targets /\ file \in Targets /\ pinned \in Targets
    /\ current \in Targets /\ known \in Targets
    /\ pc \in {"down", "wait", "polled"} /\ manual \in BOOLEAN 
    /\ stale \in BOOLEAN /\ switched \in BOOLEAN
    /\ label \in {Unnamed} \cup [game : Games, day : 1..MaxDays, n : 1..MaxTicks]
    /\ counter \in [Games -> 0..MaxTicks] /\ day \in 1..MaxDays
    /\ acc \in [Games \cup {None} -> 0..MaxTicks]
    /\ played \in [Games \cup {None} -> 0..MaxTicks]
    /\ overlay \subseteq Games
    /\ sessionTick \in 0..MaxTicks
    /\ ticks \in 0..MaxTicks /\ runs \in 0..MaxRuns /\ faults \in 0..MaxFaults

Pure(s) == \A g \in Games : s.acc[g] > 0 => s.game = g

\* GameEnded and the shutdown path: the summary of a game adds up ticks of that
\* game and of the idle time before it, and of no other game, unless the game
\* replaced another within one scan.
SummaryPure == \A s \in Range(summaries) : s.switched \/ Pure(s)

\* What a sequence of summaries adds up for game g.
Summed(rows, g) ==
    LET upto[i \in 0..Len(rows)] == IF i = 0 THEN 0 ELSE upto[i - 1] + rows[i].acc[g]
    IN  upto[Len(rows)]

\* The shutdown path: once the agent has stopped, every tick of a game is in
\* exactly one of the summaries, unless one could not be written.
TicksSummarised ==
    pc = "down" /\ faults = 0 => \A g \in Games : Summed(summaries, g) = played[g]

\* increment_session_counter and the label: two sessions get the same label, over
\* restarts of the agent too, only when the counter call of one of them failed or
\* fell on midnight, or session-counters.json could not be read from the one to the
\* other.  No failure in any other session makes them share one.
LabelsDistinct ==
    \A i, j \in DOMAIN issued :
        i < j /\ issued[i].label = issued[j].label =>
            \/ issued[i].how = "lost" \/ issued[j].how = "lost"
            \/ \E k \in (i + 1)..j : issued[k].how = "wiped"

\* SessionManager::poll: while a game is current, a generated label names it,
\* unless the game replaced another within one scan and inherited its label.
LabelNamesGame ==
    pc # "down" /\ current # None /\ ~manual /\ pinned = None /\ ~switched
        => label.game = current.game

\* GameStarted and GameEnded: the settings in a session's documents are the
\* configured ones and those of the current game, with the same exception.
OverlayClean == pc # "down" /\ ~switched => overlay \subseteq {GameOf(current)}

\* write_session_json and remove_session_json: with no write failed, session.json
\* names the detected game, and names one that is not detected only after the
\* agent was killed.
FileNamesGame ==
    pc # "down" /\ pinned = None /\ faults = 0 /\ ~stale => file = current

\* GameEnded and the shutdown path: each tick of a game is summed up once, in a
\* summary of that game.
TicksSummarisedOnce == SummaryPure /\ TicksSummarised

\* What holds of the agent at every moment: the shape of its state, and a label, an
\* overlay of settings and a session.json that are all of the detected game.
SessionInv == TypeOK /\ LabelNamesGame /\ OverlayClean /\ FileNamesGame
=============================================================================
