---------------------------- MODULE WatcherProofs ----------------------------
(***************************************************************************)
(* Proofs about Watcher, for any set of games, any number of changes and   *)
(* any capacity of the channel.                                            *)
(*                                                                         *)
(* The shape of the state and the refinement of Feed need no hypothesis.   *)
(* That the shared state agrees with session.json needs the one stated in  *)
(* the README: the agent leaves an existing file alone between the         *)
(* daemon's first look and its watch (~Window).  It is inductive once it   *)
(* is known what the thread has yet to see: the last event waiting tells   *)
(* whether the file was removed, since the agent writes no event after the *)
(* one for its last change.                                                *)
(***************************************************************************)
EXTENDS Watcher, SequenceTheorems, TLAPS

\* An inactive shared state is the default one, without thread ids.
IdleIsInactive == state.game = Idle => state = Inactive

\* The watcher thread's view before the watch exists.
BeforeWatch ==
    /\ watch # "on" => events = <<>>
    /\ watch = "off" => state = Inactive
    /\ watch = "seeded" => state.game \in {Idle, file}

\* A removal that was not followed by a change is the last event.
RemovalIsLast ==
    watch = "on" /\ events # <<>> /\ file = Idle => events[Len(events)] = "remove"

USE WatcherAssumptions

-----------------------------------------------------------------------------
(* Sequences *)

\* What the properties of an event queue need of Append and Tail.
LEMMA AppendFacts ==
  ASSUME NEW S, NEW q \in Seq(S), NEW e \in S
  PROVE  /\ Append(q, e) \in Seq(S) /\ Append(q, e) # <<>>
         /\ Len(Append(q, e)) = Len(q) + 1
         /\ Append(q, e)[Len(Append(q, e))] = e
OBVIOUS

LEMMA TailFacts ==
  ASSUME NEW S, NEW q \in Seq(S), q # <<>>
  PROVE  /\ Tail(q) \in Seq(S) /\ Head(q) \in S /\ Len(Tail(q)) = Len(q) - 1
         /\ Tail(q) # <<>> => Tail(q)[Len(Tail(q))] = q[Len(q)]
         /\ Tail(q) = <<>> => Head(q) = q[Len(q)]
<1>1. Tail(q) \in Seq(S) /\ Head(q) \in S /\ Len(Tail(q)) = Len(q) - 1 /\ Len(q) \in Nat /\ Len(q) >= 1
  OBVIOUS
<1>2. ASSUME Tail(q) # <<>> PROVE Tail(q)[Len(Tail(q))] = q[Len(q)]
  <2>1. Len(Tail(q)) >= 1
    BY <1>1, <1>2
  <2> QED
    BY <1>1, <2>1
<1>3. ASSUME Tail(q) = <<>> PROVE Head(q) = q[Len(q)]
  <2> DEFINE l == Len(Tail(q))
             m == Len(q)
  <2>1. l = 0
    BY <1>1, <1>3, EmptySeq
  <2>2. l = m - 1 /\ m \in Nat
    BY <1>1
  <2>3. m = 1
    <3> HIDE DEF l, m
    <3> QED
      BY <2>1, <2>2
  <2> QED
    BY <2>3
<1> QED
  BY <1>1, <1>2, <1>3

-----------------------------------------------------------------------------
(* The shape of the state *)

LEMMA InactiveState == Inactive \in State /\ Inactive.game = Idle
BY DEF Inactive, State

LEMMA ReadState ==
  ASSUME TypeOK, file \in Games
  PROVE  Read \in State /\ Read.game = file
BY DEF TypeOK, Read, State

LEMMA RefreshedState == TypeOK => Refreshed \in State /\ Refreshed.game = state.game
BY DEF TypeOK, Refreshed, State

LEMMA PublishType ==
  ASSUME TypeOK, NEW s \in State, Publish(s)
  PROVE  state' \in State /\ channel' \in Seq(State) /\ Len(channel') <= ChannelSize
<1>1. channel \in Seq(State) /\ Len(channel) <= ChannelSize /\ Len(channel) \in Nat
  BY DEF TypeOK
<1>2. CASE Len(channel) < ChannelSize
  <2>1. channel' = Append(channel, s)
    BY <1>2 DEF Publish
  <2>2. Append(channel, s) \in Seq(State) /\ Len(Append(channel, s)) = Len(channel) + 1
    BY <1>1, AppendFacts
  <2> QED
    BY <1>1, <1>2, <2>1, <2>2 DEF Publish
<1>3. CASE ~(Len(channel) < ChannelSize)
  BY <1>1, <1>3 DEF Publish
<1> QED
  BY <1>2, <1>3

LEMMA NotifyType ==
  ASSUME TypeOK, NEW e \in {"modify", "remove"}, Notify(e)
  PROVE  /\ events' \in Seq({"modify", "remove"})
         /\ watch = "on" => events' # <<>> /\ events'[Len(events')] = e
         /\ watch # "on" => events' = events
<1>1. events \in Seq({"modify", "remove"})
  BY DEF TypeOK
<1> QED
  BY <1>1, AppendFacts DEF Notify

\* What a step of the watcher thread does to the state: it publishes one state or
\* none.
LEMMA ThreadPublishes ==
  ASSUME TypeOK, Thread
  PROVE  /\ UNCHANGED <<file, writes, tree, ready, filter>>
         /\ \/ UNCHANGED <<state, channel>>
            \/ \E s \in State : Publish(s) /\ (s.game = Idle => s = Inactive)
<1>1. CASE Seed
  BY <1>1, ReadState DEF Seed, agent, daemon
<1>2. CASE StartWatch
  BY <1>2 DEF StartWatch, agent, daemon
<1>3. CASE HandleEvent
  BY <1>3, ReadState, InactiveState DEF HandleEvent, AfterRemoval, agent, daemon
<1>4. CASE Timeout
  BY <1>4, ReadState, RefreshedState DEF Timeout, agent, daemon
<1> QED
  BY <1>1, <1>2, <1>3, <1>4 DEF Thread

LEMMA InitType == Init => TypeOK /\ IdleIsInactive
<1> SUFFICES ASSUME Init PROVE TypeOK /\ IdleIsInactive
    OBVIOUS
<1>1. /\ file \in Games \cup {Idle, Empty} /\ writes \in 0..MaxWrites /\ tree \in 0..MaxTree
      /\ watch \in {"off", "seeded", "on"}
  BY DEF Init
<1>a. ready \in BOOLEAN
  BY DEF Init
<1>2. events \in Seq({"modify", "remove"}) /\ channel \in Seq(State) /\ Len(channel) <= ChannelSize
  BY DEF Init
<1>3. state \in State /\ filter \in State /\ IdleIsInactive
  BY InactiveState DEF Init, IdleIsInactive
<1> QED
  BY <1>1, <1>a, <1>2, <1>3 DEF TypeOK

LEMMA AgentType ==
  ASSUME TypeOK, Agent
  PROVE  TypeOK' /\ UNCHANGED <<watch, state, channel, ready, filter>>
<1>1. UNCHANGED <<watch, state, channel, ready, filter>>
  BY DEF Agent, Truncate, Write, Remove, Grow, daemon
<1>2. file' \in Games \cup {Idle, Empty} /\ writes' \in 0..MaxWrites /\ tree' \in 0..MaxTree
  BY DEF Agent, Truncate, Write, Remove, Grow, TypeOK
<1>3. events' \in Seq({"modify", "remove"})
  BY NotifyType DEF Agent, Truncate, Write, Remove, Grow, TypeOK
<1> QED
  BY <1>1, <1>2, <1>3 DEF TypeOK

LEMMA ThreadType ==
  ASSUME TypeOK, Thread
  PROVE  TypeOK'
<1>1. UNCHANGED <<file, writes, tree, ready, filter>>
  BY ThreadPublishes
<1>2. state' \in State /\ channel' \in Seq(State) /\ Len(channel') <= ChannelSize
  BY ThreadPublishes, PublishType DEF TypeOK
<1>3. watch' \in {"off", "seeded", "on"}
  BY DEF Thread, Seed, StartWatch, HandleEvent, Timeout, TypeOK
<1>4. events' \in Seq({"modify", "remove"})
  BY TailFacts, SMTT(30) DEF Thread, Seed, StartWatch, HandleEvent, Timeout, TypeOK
<1> QED
  BY <1>1, <1>2, <1>3, <1>4 DEF TypeOK

LEMMA DaemonType ==
  ASSUME TypeOK, Daemon
  PROVE  TypeOK' /\ UNCHANGED <<file, watch, events, state>>
<1>1. UNCHANGED <<file, writes, tree, watch, events, state>>
  BY DEF Daemon, SeedFilter, Receive, agent
<1>2. CASE SeedFilter
  BY <1>1, <1>2 DEF SeedFilter, TypeOK
<1>3. CASE Receive
  <2>1. channel # <<>> /\ filter' = Head(channel) /\ channel' = Tail(channel) /\ ready' = ready
    BY <1>3 DEF Receive
  <2>2. channel \in Seq(State) /\ Len(channel) <= ChannelSize /\ Len(channel) \in Nat
    BY DEF TypeOK
  <2>3. filter' \in State /\ channel' \in Seq(State) /\ Len(channel') = Len(channel) - 1
    BY <2>1, <2>2, TailFacts
  <2> QED
    BY <1>1, <2>1, <2>2, <2>3 DEF TypeOK
<1> QED
  BY <1>1, <1>2, <1>3 DEF Daemon

LEMMA StepType == TypeOK /\ IdleIsInactive /\ [Next]_vars => TypeOK' /\ IdleIsInactive'
<1> SUFFICES ASSUME TypeOK, IdleIsInactive, [Next]_vars PROVE TypeOK' /\ IdleIsInactive'
    OBVIOUS
<1>1. CASE Agent
  BY <1>1, AgentType DEF IdleIsInactive
<1>2. CASE Thread
  BY <1>2, ThreadType, ThreadPublishes DEF IdleIsInactive, Publish
<1>3. CASE Daemon
  BY <1>3, DaemonType DEF IdleIsInactive
<1>4. CASE UNCHANGED vars
  BY <1>4 DEF vars, agent, daemon, TypeOK, IdleIsInactive
<1> QED
  BY <1>1, <1>2, <1>3, <1>4 DEF Next

LEMMA AlwaysType == Spec => [](TypeOK /\ IdleIsInactive)
<1>1. Init /\ [][Next]_vars => [](TypeOK /\ IdleIsInactive)
  BY InitType, StepType, PTL
<1> QED
  BY <1>1, PTL DEF Spec

-----------------------------------------------------------------------------
(* The refinement of Feed *)

\* Every step of the agent is invisible to the main loop, a step of the thread
\* publishes at most one state, and the main loop's steps are Feed's.
LEMMA StepFeeds ==
  TypeOK /\ IdleIsInactive /\ [Next]_vars => [Inbox!FeedNext]_(Inbox!feed)
<1> SUFFICES ASSUME TypeOK, IdleIsInactive, [Next]_vars
             PROVE  Inbox!FeedNext \/ UNCHANGED Inbox!feed
    OBVIOUS
<1>1. CASE Agent
  BY <1>1, AgentType DEF Inbox!feed
<1>2. CASE Thread
  BY <1>2, ThreadPublishes DEF Publish, Inbox!feed, Inbox!FeedNext, Inbox!Publish
<1>3. CASE SeedFilter
  <2>1. ~ready /\ ready' = TRUE /\ UNCHANGED <<state, channel>>
    BY <1>3 DEF SeedFilter
  <2>2. state.game # Idle <=> state # Inactive
    BY InactiveState DEF IdleIsInactive
  <2>3. filter' = IF state # Inactive THEN state ELSE filter
    BY <1>3, <2>2 DEF SeedFilter
  <2> QED
    BY <2>1, <2>3 DEF Inbox!FeedNext, Inbox!Take
<1>4. CASE Receive
  BY <1>4 DEF Receive, Inbox!FeedNext, Inbox!Recv
<1>5. CASE UNCHANGED vars
  BY <1>5 DEF vars, daemon, Inbox!feed
<1> QED
  BY <1>1, <1>2, <1>3, <1>4, <1>5 DEF Next, Daemon

\* spawn_watcher: whatever the agent does to session.json, and whichever events are
\* read late, lost to a parse error or replaced by the refresh, the main loop sees
\* nothing but a shared state that is replaced, and a channel that carries each
\* replacement in order, leaving one out only when it is full.
THEOREM WatcherFeeds == Spec => Inbox!FeedSafety
<1>1. Init => Inbox!FeedInit
  BY DEF Init, Inbox!FeedInit
<1>2. Init /\ [][Next]_vars => [][Inbox!FeedNext]_(Inbox!feed)
  <2>1. Init /\ [][Next]_vars => [](TypeOK /\ IdleIsInactive)
    BY InitType, StepType, PTL
  <2> QED
    BY <2>1, StepFeeds, PTL
<1> QED
  BY <1>1, <1>2, PTL DEF Spec, Inbox!FeedSafety

-----------------------------------------------------------------------------
(* The shared state and session.json *)

FollowInv == TypeOK /\ IdleIsInactive /\ BeforeWatch /\ RemovalIsLast /\ StateFollowsFile

LEMMA InitFollow == Init => FollowInv
BY InitType, InactiveState
   DEF Init, FollowInv, BeforeWatch, RemovalIsLast, StateFollowsFile

LEMMA AgentFollow ==
  ASSUME ~Window, FollowInv, Agent
  PROVE  BeforeWatch' /\ RemovalIsLast' /\ StateFollowsFile'
<1>0. TypeOK /\ BeforeWatch /\ RemovalIsLast /\ StateFollowsFile
  BY DEF FollowInv
<1>1. UNCHANGED <<watch, state>>
  BY <1>0, AgentType
<1>2. CASE Truncate
  BY <1>0, <1>1, <1>2, NotifyType
     DEF Truncate, MayChange, BeforeWatch, RemovalIsLast, StateFollowsFile, TypeOK, State
<1>3. CASE Write
  BY <1>0, <1>1, <1>3, NotifyType
     DEF Write, BeforeWatch, RemovalIsLast, StateFollowsFile, TypeOK, State
<1>4. CASE Remove
  BY <1>0, <1>1, <1>4, NotifyType
     DEF Remove, MayChange, BeforeWatch, RemovalIsLast, StateFollowsFile, TypeOK, State
<1>5. CASE Grow
  BY <1>0, <1>1, <1>5 DEF Grow, BeforeWatch, RemovalIsLast, StateFollowsFile
<1> QED
  BY <1>2, <1>3, <1>4, <1>5 DEF Agent

LEMMA ThreadFollow ==
  ASSUME FollowInv, Thread
  PROVE  BeforeWatch' /\ RemovalIsLast' /\ StateFollowsFile'
<1>0. TypeOK /\ BeforeWatch /\ RemovalIsLast /\ StateFollowsFile
  BY DEF FollowInv
<1>1. file' = file
  BY <1>0, ThreadPublishes
<1>2. CASE Seed
  BY <1>0, <1>1, <1>2, InactiveState, ReadState
     DEF Seed, Publish, BeforeWatch, RemovalIsLast, StateFollowsFile
<1>3. CASE StartWatch
  BY <1>0, <1>1, <1>3 DEF StartWatch, BeforeWatch, RemovalIsLast, StateFollowsFile
<1>4. CASE HandleEvent
  <2>1. watch = "on" /\ events # <<>> /\ events' = Tail(events) /\ watch' = watch
    BY <1>4 DEF HandleEvent
  <2>2. /\ Tail(events) # <<>> => Tail(events)[Len(Tail(events))] = events[Len(events)]
        /\ Tail(events) = <<>> => Head(events) = events[Len(events)]
    BY <1>0, <2>1, TailFacts DEF TypeOK
  <2>3. RemovalIsLast' /\ BeforeWatch'
    BY <1>0, <1>1, <2>1, <2>2 DEF RemovalIsLast, BeforeWatch
  <2>4. ASSUME events' = <<>>, file # Empty
        PROVE  state'.game = file
    <3>1. CASE file \in Games
      BY <1>0, <1>4, <3>1, ReadState DEF HandleEvent, AfterRemoval, Publish
    <3>2. CASE file = Idle
      <4>1. Head(events) = "remove"
        BY <1>0, <2>1, <2>2, <2>4, <3>2 DEF RemovalIsLast
      <4> QED
        BY <1>4, <3>2, <4>1, InactiveState DEF HandleEvent, AfterRemoval, Publish
    <3> QED
      BY <1>0, <2>4, <3>1, <3>2 DEF TypeOK
  <2> QED
    BY <1>1, <2>1, <2>3, <2>4 DEF StateFollowsFile
<1>5. CASE Timeout
  BY <1>0, <1>1, <1>5, ReadState, RefreshedState
     DEF Timeout, Publish, BeforeWatch, RemovalIsLast, StateFollowsFile
<1> QED
  BY <1>2, <1>3, <1>4, <1>5 DEF Thread

LEMMA StepFollow ==
  ASSUME ~Window
  PROVE  FollowInv /\ [Next]_vars => FollowInv'
<1> SUFFICES ASSUME FollowInv, [Next]_vars PROVE FollowInv'
    OBVIOUS
<1>1. TypeOK' /\ IdleIsInactive'
  BY StepType DEF FollowInv
<1>2. CASE Agent
  BY <1>1, <1>2, AgentFollow DEF FollowInv
<1>3. CASE Thread
  BY <1>1, <1>3, ThreadFollow DEF FollowInv
<1>4. CASE Daemon
  <2>1. UNCHANGED <<file, watch, events, state>>
    BY <1>4, DaemonType DEF FollowInv
  <2> QED
    BY <1>1, <2>1 DEF FollowInv, BeforeWatch, RemovalIsLast, StateFollowsFile
<1>5. CASE UNCHANGED vars
  BY <1>1, <1>5 DEF vars, agent, FollowInv, BeforeWatch, RemovalIsLast, StateFollowsFile
<1> QED
  BY <1>2, <1>3, <1>4, <1>5 DEF Next

\* The watcher thread: once every file event is handled, an active session is the
\* one session.json names and a removed file means no session, however the agent's
\* truncation, write and removal interleave with the thread's reads, provided the
\* file it found at the start was left alone until the watch existed.
THEOREM WatcherCorrect ==
  ASSUME ~Window
  PROVE  Spec => []WatcherInv
<1>1. FollowInv => WatcherInv
  BY DEF FollowInv, WatcherInv
<1>2. FollowInv /\ [Next]_vars => FollowInv'
  BY StepFollow
<1>3. Init /\ [][Next]_vars => []WatcherInv
  BY InitFollow, <1>1, <1>2, PTL
<1> QED
  BY <1>3, PTL DEF Spec
=============================================================================
