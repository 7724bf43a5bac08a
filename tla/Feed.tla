-------------------------------- MODULE Feed --------------------------------
(***************************************************************************)
(* What the session watcher promises the eBPF daemon's main loop           *)
(* (src/ebpf/rigsignal-ebpf/src/session.rs, spawn_watcher's two results):  *)
(* a shared state that always holds the last one published, and a channel  *)
(* that delivers published states in order, leaving one out only when it   *)
(* is full.  Where the states come from is Watcher's business: Watcher is  *)
(* shown to implement this specification, and Ebpf is built on it.         *)
(***************************************************************************)
EXTENDS Integers, Sequences

CONSTANTS
    States,       \* the states a watcher can publish
    NoSession,    \* SessionState::default()
    ChannelSize   \* capacity of the channel, 16 in the code

ASSUME FeedAssumptions == NoSession \in States /\ ChannelSize \in Nat \ {0}

VARIABLES
    state,     \* Arc<Mutex<SessionState>>
    channel,   \* states sent and not received
    ready,     \* whether the main loop has taken the state it starts with
    filter     \* the state the main loop took last

feed == <<state, channel, ready, filter>>

\* The shared state is replaced, then try_send.
Publish(s) ==
    /\ state' = s
    /\ channel' = IF Len(channel) < ChannelSize THEN Append(channel, s) ELSE channel
    /\ UNCHANGED <<ready, filter>>

\* The main loop's first look, before its first recv.
Take ==
    /\ ~ready
    /\ ready' = TRUE
    /\ filter' = IF state # NoSession THEN state ELSE filter
    /\ UNCHANGED <<state, channel>>

\* session_rx.recv.
Recv ==
    /\ ready /\ channel # <<>>
    /\ filter' = Head(channel)
    /\ channel' = Tail(channel)
    /\ UNCHANGED <<state, ready>>

FeedInit == state = NoSession /\ channel = <<>> /\ ready = FALSE /\ filter = NoSession

FeedNext == (\E s \in States : Publish(s)) \/ Take \/ Recv

\* What may happen.
FeedSafety == FeedInit /\ [][FeedNext]_feed

\* The main loop keeps running.
FeedSpec == FeedSafety /\ WF_feed(Take \/ Recv)
=============================================================================
