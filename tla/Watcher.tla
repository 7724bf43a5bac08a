------------------------------ MODULE Watcher ------------------------------
(***************************************************************************)
(* How the eBPF daemon follows the agent's session.json                    *)
(* (src/ebpf/rigsignal-ebpf/src/session.rs and main.rs).                   *)
(*                                                                         *)
(* The agent writes the file when a game starts, in two calls (truncate,   *)
(* write), and removes it when the game ends.  The daemon's watcher thread *)
(* turns file events into a shared state and sends it through a bounded    *)
(* channel; the main loop receives it and loads the thread ids into the    *)
(* BPF filter.  A state is the game it is about and the size its process   *)
(* tree had when /proc was scanned.                                        *)
(***************************************************************************)
EXTENDS Integers, Sequences, FiniteSets, Functions

CONSTANTS
    Games,        \* the contents session.json can have
    MaxWrites,    \* how many times the agent starts a game or ends one
    MaxTree,      \* how often a game's process tree grows
    ChannelSize,  \* capacity of the channel, 16 in the code
    Window,       \* whether the agent may change an existing file between the
                  \* daemon's first look and its watch
    Idle,         \* SessionState::default(), and no file
    Empty         \* a file that was truncated and not written yet

ASSUME WatcherAssumptions ==
    /\ MaxWrites \in Nat /\ MaxTree \in Nat /\ ChannelSize \in Nat \ {0}
    /\ Idle \notin Games /\ Empty \notin Games /\ Idle # Empty

ASSUME WindowAssumption == Window \in BOOLEAN

VARIABLES
    file,      \* session.json
    writes,    \* game starts and ends so far
    tree,      \* the growth of the running game's process tree
    watch,     \* the watcher thread: "off", "seeded", "on"
    events,    \* file events the watcher has not seen
    state,     \* Arc<Mutex<SessionState>>
    channel,   \* states sent and not received
    ready,     \* whether the daemon's main loop has started
    filter     \* GAME_PIDS in the kernel

agent == <<file, writes, tree>>
daemon == <<ready, filter>>
vars == <<agent, watch, events, state, channel, daemon>>

Inactive == [game |-> Idle, tree |-> 0]
State == [game : Games \cup {Idle}, tree : 0..MaxTree]

-----------------------------------------------------------------------------
(* The agent *)

\* inotify reports nothing before the watch exists.
Notify(e) == events' = IF watch = "on" THEN Append(events, e) ELSE events

MayChange == Window \/ watch # "seeded" \/ file = Idle

\* write_session_json: the file is created or truncated ...
Truncate ==
    /\ file # Empty /\ writes < MaxWrites /\ MayChange
    /\ file' = Empty
    /\ writes' = writes + 1
    /\ tree' = 0
    /\ Notify("modify")
    /\ UNCHANGED <<watch, state, channel, daemon>>

\* ... and written.
Write ==
    /\ file = Empty
    /\ \E g \in Games : file' = g
    /\ Notify("modify")
    /\ UNCHANGED <<writes, tree, watch, state, channel, daemon>>

\* remove_session_json.
Remove ==
    /\ file \in Games /\ writes < MaxWrites /\ MayChange
    /\ file' = Idle
    /\ writes' = writes + 1
    /\ tree' = 0
    /\ Notify("remove")
    /\ UNCHANGED <<watch, state, channel, daemon>>

\* Proton starts another process of the game.
Grow ==
    /\ file \in Games /\ tree < MaxTree
    /\ tree' = tree + 1
    /\ UNCHANGED <<file, writes, watch, events, state, channel, daemon>>

-----------------------------------------------------------------------------
(* The watcher thread *)

\* active_session_state: the file read and /proc scanned.
Read == [game |-> file, tree |-> tree]

\* Mutant: only an active state is sent, as spawn_watcher does at the start.
PublishActive(s) ==
    /\ state' = s
    /\ channel' = IF s.game # Idle THEN Append(channel, s) ELSE channel

\* The state is stored, and sent unless the channel is full.
Publish(s) ==
    /\ state' = s
    /\ channel' = IF Len(channel) < ChannelSize THEN Append(channel, s) ELSE channel

\* spawn_watcher: the file as it is now, before any watch exists.
Seed ==
    /\ watch = "off"
    /\ watch' = "seeded"
    /\ \/ file \in Games /\ Publish(Read)
       \/ file \notin Games /\ UNCHANGED <<state, channel>>
    /\ UNCHANGED <<agent, events, daemon>>

StartWatch ==
    /\ watch = "seeded"
    /\ watch' = "on"
    /\ UNCHANGED <<agent, events, state, channel, daemon>>

\* Mutant: a removed file is an unreadable one, which keeps the session.
AfterRemovalKept ==
    \/ file \in Games /\ Publish(Read)
    \/ file \notin Games /\ UNCHANGED <<state, channel>>

\* What a removal event means when the file may have been written again.
AfterRemoval ==
    \/ file \in Games /\ Publish(Read)
    \/ file = Empty /\ UNCHANGED <<state, channel>>
    \/ file = Idle /\ Publish(Inactive)

\* Mutant: a file caught between truncation and write is taken for a session.
HandleEventUnparsed ==
    /\ watch = "on" /\ events # <<>>
    /\ events' = Tail(events)
    /\ \/ Head(events) = "modify" /\ Publish(Read)
       \/ Head(events) = "remove" /\ AfterRemoval
    /\ UNCHANGED <<agent, watch, daemon>>

\* One file event.  A file that cannot be parsed leaves the state as it is.
HandleEvent ==
    /\ watch = "on" /\ events # <<>>
    /\ events' = Tail(events)
    /\ \/ Head(events) = "modify" /\ file \in Games /\ Publish(Read)
       \/ Head(events) = "modify" /\ file \notin Games /\ UNCHANGED <<state, channel>>
       \/ Head(events) = "remove" /\ AfterRemoval
    /\ UNCHANGED <<agent, watch, daemon>>

\* refreshed_active_session_state: the recorded game, its process tree scanned
\* anew.  The file is not looked at.
Refreshed == [game |-> state.game, tree |-> IF file = state.game THEN tree ELSE 0]

\* Mutant: an active session is not refreshed.
TimeoutIdleOnly ==
    /\ watch = "on" /\ events = <<>>
    /\ state.game = Idle /\ file \in Games /\ Publish(Read)
    /\ UNCHANGED <<agent, watch, events, daemon>>

\* 30 seconds without an event: the safety net.
Timeout ==
    /\ watch = "on" /\ events = <<>>
    /\ \/ state.game # Idle /\ Refreshed # state /\ Publish(Refreshed)
       \/ state.game = Idle /\ file \in Games /\ Publish(Read)
    /\ UNCHANGED <<agent, watch, events, daemon>>

-----------------------------------------------------------------------------
(* The daemon's main loop *)

\* The filter is seeded from the shared state, which the watcher thread may have
\* moved on since it sent its first message.
SeedFilter ==
    /\ watch # "off" /\ ~ready
    /\ ready' = TRUE
    /\ filter' = IF state.game # Idle THEN state ELSE filter
    /\ UNCHANGED <<agent, watch, events, state, channel>>

\* session_rx.recv: the filter follows the state received.
Receive ==
    /\ ready /\ channel # <<>>
    /\ filter' = Head(channel)
    /\ channel' = Tail(channel)
    /\ UNCHANGED <<agent, watch, events, state, ready>>

Init ==
    /\ file \in Games \cup {Idle} /\ writes = 0 /\ tree = 0
    /\ watch = "off" /\ events = <<>>
    /\ state = Inactive /\ channel = <<>>
    /\ ready = FALSE /\ filter = Inactive

Agent == Truncate \/ Write \/ Remove \/ Grow
Thread == Seed \/ StartWatch \/ HandleEvent \/ Timeout

Daemon == SeedFilter \/ Receive

Next == Agent \/ Thread \/ Daemon

\* The thread and the main loop keep running, and a write that began ends.
Spec == Init /\ [][Next]_vars /\ WF_vars(Thread) /\ WF_vars(Daemon) /\ WF_vars(Write)

-----------------------------------------------------------------------------
(* Properties *)

\* The shape of the file, the events and the daemon's state.
TypeOK ==
    /\ file \in Games \cup {Idle, Empty}
    /\ writes \in 0..MaxWrites /\ tree \in 0..MaxTree
    /\ watch \in {"off", "seeded", "on"} /\ ready \in BOOLEAN
    /\ events \in Seq({"modify", "remove"})
    /\ state \in State /\ filter \in State
    /\ channel \in Seq(State) /\ Len(channel) <= ChannelSize

\* HandleEvent: once every event is handled, an active session is the one the
\* file names, and the session has ended when the file is gone.
StateFollowsFile ==
    watch = "on" /\ events = <<>> /\ file # Empty /\ (state.game # Idle \/ file = Idle)
        => state.game = file

\* spawn_watcher and the receiving loop: when the file and the process tree stop
\* changing, the kernel's filter ends up with the thread ids of that game, and
\* with none when there is no game.
FilterFollowsFile ==
    \A g \in Games \cup {Idle}, n \in 0..MaxTree :
        <>[](file = g /\ tree = n) => <>[](filter = [game |-> g, tree |-> n])

Inbox == INSTANCE Feed WITH States <- State, NoSession <- Inactive

\* spawn_watcher's promise to the daemon: with its file events, its read errors
\* and its refreshes, the watcher implements Feed, the shared state and ordered
\* channel that the main loop is written against.
Delivers == Inbox!FeedSpec

\* What holds of the watcher at every moment: the shape of its state, and a shared
\* state that agrees with session.json once every file event is handled.
WatcherInv == TypeOK /\ StateFollowsFile
=============================================================================
