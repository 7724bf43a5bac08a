----------------------------- MODULE AgentProofs -----------------------------
(***************************************************************************)
(* Proofs about the agent: Session, its main loop and session manager;     *)
(* SessionCounter, the ordinals in session labels; and EsHealth, the       *)
(* delivery health tracker.                                                *)
(*                                                                         *)
(* The loop, for any games, processes and numbers of ticks, starts and     *)
(* faults.  The inductive invariant adds to the properties what the main   *)
(* loop keeps true between them: a stopped agent that was not killed has   *)
(* removed session.json; without a game nothing is inherited from one; and *)
(* every counter is within the ticks counted so far, where a tick that has *)
(* polled still has its sample to add.  That every tick is summarised is a *)
(* sum over the summaries written, by a recursive function: Summed is      *)
(* unfolded by induction over the natural numbers in the form UpTo (a set  *)
(* that holds 0 and successors holds an interval), and the invariant says  *)
(* that summaries and accumulators together hold the ticks played.         *)
(*                                                                         *)
(* The counter, for any number of agents: no inode ever holds, and no      *)
(* agent ever computes, an ordinal above the number of sessions started.   *)
(* The argument counts the calls that have started and not read yet: each  *)
(* may add one to the largest ordinal, so the two together stay within the *)
(* starts.  For one agent: the ordinals are distinct and the file counts   *)
(* them all.  (The lock is on an inode that the rename replaces, so two    *)
(* agents can both hold one; the hypothesis that there is one agent is     *)
(* needed.)                                                                *)
(*                                                                         *)
(* The tracker, for any number of tasks, any repeat interval and any       *)
(* clock.  Three facts are added to its properties to make them inductive: *)
(* last_spoke is the second of the last failure line decided; the failures *)
(* kept silent lie within Repeat seconds of that line, before the last     *)
(* step of the clock or after it; and a line decided with none outstanding *)
(* is either printed or the only kind that waits to be.                    *)
(***************************************************************************)
EXTENDS Session, SessionCounter, EsHealth, SequenceTheorems, FiniteSetTheorems,
        WellFoundedInduction, NaturalsInduction, TLAPS

\* The ticks whose samples were collected.
Done == IF pc = "polled" THEN ticks - 1 ELSE ticks

\* No counter is ahead of the ticks.
WithinTicks ==
    /\ sessionTick <= ticks
    /\ \A g \in Games : counter[g] <= ticks
    /\ \A g \in Games \cup {None} : acc[g] <= Done /\ played[g] <= Done
    /\ pc = "polled" => ticks >= 1

\* A file that outlives the agent is the mark of a kill.
FileGone == pc = "down" /\ ~stale => file = None

\* Without a game there is nobody to inherit from.
IdleIsClean == pc # "down" /\ current = None => ~switched

\* The accumulators hold ticks of the current game and of idle time only.
AccPure ==
    pc # "down" /\ ~switched => \A g \in Games : acc[g] > 0 => GameOf(current) = g

\* A label and how it came about.
Labels == [game : Games, day : Nat, n : Nat]
Issues == [label : Labels, how : {"saved", "lost", "wiped"}]

\* Nothing since the i-th label has set the counters back.
Unwiped(i) == \A k \in (i + 1)..Len(issued) : issued[k].how # "wiped"

\* A label of today whose counter was saved is counted in session-counters.json,
\* unless the file was read as empty since.
CountedAt(i) ==
    \/ issued[i].label.day < day
    \/ issued[i].label.day = day /\ issued[i].label.n <= counter[issued[i].label.game]
LabelsCounted ==
    /\ issued \in Seq(Issues)
    /\ \A i \in DOMAIN issued : issued[i].how # "lost" /\ Unwiped(i) => CountedAt(i)

\* A summary as the agent writes it.
Summaries ==
    [game : Games \cup {None}, acc : [Games \cup {None} -> 0..MaxTicks],
     label : {Unnamed} \cup [game : Games, day : 1..MaxDays, n : 1..MaxTicks],
     overlay : SUBSET Games, switched : BOOLEAN]

\* The summaries of this run, each of one game or of a game that replaced another.
SummariesPure ==
    /\ summaries \in Seq(Summaries)
    /\ \A i \in DOMAIN summaries : summaries[i].switched \/ Pure(summaries[i])

USE SessionAssumptions

-----------------------------------------------------------------------------
(* The cases of a tick *)

\* A tick that sees game t begin, with or without another before it.
Begins(t) ==
    /\ Started(t)
    /\ \/ pinned = None /\ WriteFile(t)
          /\ \/ current = None /\ Labelled(t)
             \/ current # None /\ UNCHANGED <<counter, day, label, issued>>
       \/ /\ pinned # None /\ current = None
          /\ UNCHANGED <<file, counter, day, label, issued, stale, faults>>

\* A tick that sees the game end.
Finishes ==
    /\ current # None /\ Ended(current)
    /\ UNCHANGED <<counter, day, label, issued>>
    /\ \/ pinned = None /\ file' = None /\ stale' = FALSE
       \/ pinned # None /\ UNCHANGED <<file, stale>>

LEMMA PollCases ==
  ASSUME TypeOK, Poll
  PROVE  /\ pc = "wait" /\ pc' = "polled" /\ ticks < MaxTicks /\ ticks' = ticks + 1
         /\ UNCHANGED <<proc, pinned, manual, played, runs>>
         /\ Unchanged \/ Finishes \/ \E t \in Target : Begins(t)
<1>1. /\ pc = "wait" /\ pc' = "polled" /\ ticks < MaxTicks /\ ticks' = ticks + 1
      /\ UNCHANGED <<proc, pinned, manual, played, runs>>
  BY DEF Poll
<1>2. CASE pinned = None /\ Detect
  <2>1. CASE current = proc /\ Unchanged
    BY <1>1, <2>1
  <2>2. CASE current = None /\ proc # None /\ Labelled(proc) /\ WriteFile(proc) /\ Started(proc)
    <3>1. proc \in Target
      BY <2>2 DEF TypeOK, Targets
    <3> QED
      BY <1>1, <1>2, <2>2, <3>1 DEF Begins
  <2>3. CASE /\ current # None /\ proc = None /\ file' = None /\ Ended(current)
             /\ stale' = FALSE /\ UNCHANGED <<counter, day, label, issued>>
    BY <1>1, <1>2, <2>3 DEF Finishes
  <2>4. CASE /\ current # None /\ proc # None /\ current # proc /\ WriteFile(proc)
             /\ Started(proc) /\ UNCHANGED <<counter, day, label, issued>>
    <3>1. proc \in Target
      BY <2>4 DEF TypeOK, Targets
    <3> QED
      BY <1>1, <1>2, <2>4, <3>1 DEF Begins
  <2> QED
    BY <1>1, <1>2, <2>1, <2>2, <2>3, <2>4 DEF Detect, daily
<1>3. CASE pinned = None /\ Unchanged
  BY <1>1, <1>3
<1>4. CASE pinned # None /\ DetectPinned
  <2>1. pinned \in Target
    BY <1>4 DEF TypeOK, Targets
  <2> QED
    BY <1>1, <1>4, <2>1 DEF DetectPinned, Begins, Finishes, daily
<1> QED
  BY <1>1, <1>2, <1>3, <1>4 DEF Poll

-----------------------------------------------------------------------------
(* The shape of the state *)

ShapeInv == TypeOK /\ WithinTicks

LEMMA Constants ==
  /\ Zero \in [Games \cup {None} -> 0..MaxTicks] /\ \A g \in Games \cup {None} : Zero[g] = 0
  /\ Unnamed.game = None
  /\ None \in Targets
BY DEF Zero, Unnamed, Targets

LEMMA GameOfType ==
  /\ \A t \in Targets : GameOf(t) \in Games \cup {None}
  /\ \A t \in Target : GameOf(t) = t.game /\ t.game \in Games /\ t # None
  /\ GameOf(None) = None
BY DEF GameOf, Targets, Target

LEMMA InitShape == Init => ShapeInv
<1> SUFFICES ASSUME Init PROVE ShapeInv
    OBVIOUS
<1>1. TypeOK
  <2>1. /\ proc \in Targets /\ file \in Targets /\ pinned \in Targets
        /\ current \in Targets /\ known \in Targets /\ pc \in {"down", "wait", "polled"}
    BY Constants DEF Init
  <2>2. manual \in BOOLEAN /\ stale \in BOOLEAN /\ switched \in BOOLEAN
    BY DEF Init
  <2>3. /\ label \in {Unnamed} \cup [game : Games, day : 1..MaxDays, n : 1..MaxTicks]
        /\ counter \in [Games -> 0..MaxTicks] /\ day \in 1..MaxDays /\ overlay \subseteq Games
        /\ sessionTick \in 0..MaxTicks /\ ticks \in 0..MaxTicks
        /\ runs \in 0..MaxRuns /\ faults \in 0..MaxFaults
    BY DEF Init
  <2>4. /\ acc \in [Games \cup {None} -> 0..MaxTicks]
        /\ played \in [Games \cup {None} -> 0..MaxTicks]
    BY Constants DEF Init
  <2> QED
    BY <2>1, <2>2, <2>3, <2>4 DEF TypeOK
<1>2. WithinTicks
  BY Constants DEF Init, WithinTicks, Done
<1> QED
  BY <1>1, <1>2 DEF ShapeInv

\* A label given to game g, and what it does to the counters.
Issued(g, how) ==
    /\ label'.n \in {1, counter[g] + 1}
    /\ label' = [game |-> g, day |-> day', n |-> label'.n]
    /\ issued' = Append(issued, [label |-> label', how |-> how])
    /\ \/ /\ how = "saved" /\ day' = day /\ label'.n = counter[g] + 1
          /\ counter' = [counter EXCEPT ![g] = counter[g] + 1]
       \/ how = "lost" /\ (UNCHANGED <<counter, day>> \/ NewDay)
       \/ /\ how = "wiped" /\ day' = day /\ label'.n = 1
          /\ counter' = [h \in Games |-> IF h = g THEN 1 ELSE 0]

LEMMA LabelledCases ==
  ASSUME NEW t \in Target, Labelled(t)
  PROVE  UNCHANGED <<counter, day, label, issued>> \/ \E how : Issued(t.game, how)
<1>1. ASSUME NEW n, NEW how, Named(t.game, n, how)
      PROVE  /\ label'.n = n /\ label' = [game |-> t.game, day |-> day', n |-> label'.n]
             /\ issued' = Append(issued, [label |-> label', how |-> how])
  BY <1>1 DEF Named
<1>2. CASE Counted(t.game)
  <2>1. Issued(t.game, "saved")
    BY <1>1, <1>2 DEF Counted, Number, Issued
  <2> QED
    BY <2>1
<1>3. CASE Miscounted(t.game)
  <2>1. CASE /\ UNCHANGED daily \/ NewDay
             /\ \E n \in {1, Number(t.game)} : Named(t.game, n, "lost")
    <3>1. Issued(t.game, "lost")
      BY <1>1, <2>1 DEF Number, Issued, daily
    <3> QED
      BY <3>1
  <2>2. CASE /\ counter' = [h \in Games |-> IF h = t.game THEN 1 ELSE 0] /\ UNCHANGED day
             /\ Named(t.game, 1, "wiped")
    <3>1. Issued(t.game, "wiped")
      BY <1>1, <2>2 DEF Issued
    <3> QED
      BY <3>1
  <2> QED
    BY <1>3, <2>1, <2>2 DEF Miscounted
<1> QED
  BY <1>2, <1>3 DEF Labelled, daily

\* What any tick does to the counters that TypeOK bounds.
LEMMA PollShape ==
  ASSUME ShapeInv, Poll
  PROVE  ShapeInv'
<1>0. TypeOK /\ WithinTicks
  BY DEF ShapeInv
<1>1. /\ pc = "wait" /\ pc' = "polled" /\ ticks < MaxTicks /\ ticks' = ticks + 1
      /\ UNCHANGED <<proc, pinned, manual, played, runs>>
      /\ Unchanged \/ Finishes \/ \E t \in Target : Begins(t)
  BY <1>0, PollCases
<1>2. ticks \in Nat /\ ticks' \in 0..MaxTicks
  BY <1>0, <1>1 DEF TypeOK
<1>3. sessionTick' \in {0, sessionTick + 1} /\ acc' \in {acc, Zero} /\ faults' \in 0..MaxFaults
      /\ current' \in Targets /\ known' \in Targets /\ file' \in Targets
  BY <1>0, <1>1, Constants DEF Unchanged, Finishes, Ended, WriteSummary, Begins, Started,
                    WriteFile, TypeOK, Targets
<1>4. stale' \in BOOLEAN /\ switched' \in BOOLEAN
  BY <1>0, <1>1 DEF Unchanged, Finishes, Ended, Begins, Started, WriteFile, TypeOK
<1>5. overlay' \subseteq Games
  BY <1>0, <1>1, GameOfType DEF Unchanged, Finishes, Ended, Begins, Started, TypeOK
<1>6. \/ UNCHANGED <<counter, day, label>>
      \/ \E g \in Games : \E how : Issued(g, how)
  BY <1>0, <1>1, GameOfType, LabelledCases DEF Unchanged, Finishes, Begins, daily
<1>7. /\ counter' \in [Games -> 0..MaxTicks] /\ day' \in 1..MaxDays
      /\ \A g \in Games : counter'[g] <= ticks'
      /\ label' \in {Unnamed} \cup [game : Games, day : 1..MaxDays, n : 1..MaxTicks]
  <2>1. \A g \in Games : counter[g] \in Nat /\ counter[g] <= ticks /\ counter[g] + 1 \in 1..MaxTicks
    BY <1>0, <1>1, <1>2 DEF TypeOK, WithinTicks
  <2>2. CASE UNCHANGED <<counter, day, label>>
    BY <1>0, <1>1, <1>2, <2>1, <2>2 DEF TypeOK
  <2>3. ASSUME NEW g \in Games, NEW how, Issued(g, how)
        PROVE  /\ counter' \in [Games -> 0..MaxTicks] /\ day' \in 1..MaxDays
               /\ \A h \in Games : counter'[h] <= ticks'
               /\ label' \in [game : Games, day : 1..MaxDays, n : 1..MaxTicks]
    <3>1. counter' \in [Games -> 0..MaxTicks] /\ \A h \in Games : counter'[h] <= ticks'
      <4>1. CASE counter' = [counter EXCEPT ![g] = counter[g] + 1]
        BY <1>0, <1>1, <1>2, <2>1, <4>1 DEF TypeOK
      <4>2. CASE counter' = counter
        BY <1>0, <1>1, <1>2, <2>1, <4>2 DEF TypeOK
      <4>3. CASE counter' = [h \in Games |-> 0]
        BY <1>0, <1>1, <1>2, <4>3
      <4>4. CASE counter' = [h \in Games |-> IF h = g THEN 1 ELSE 0]
        BY <1>0, <1>1, <1>2, <2>1, <4>4
      <4> QED
        BY <2>3, <4>1, <4>2, <4>3, <4>4 DEF Issued, NewDay
    <3>2. day' \in 1..MaxDays
      BY <1>0, <2>3 DEF Issued, NewDay, TypeOK
    <3>3. label' \in [game : Games, day : 1..MaxDays, n : 1..MaxTicks]
      BY <1>1, <1>2, <2>1, <2>3, <3>2 DEF Issued
    <3> QED
      BY <3>1, <3>2, <3>3
  <2> QED
    BY <1>6, <2>2, <2>3
<1>8. sessionTick' \in 0..MaxTicks /\ sessionTick' <= ticks'
  BY <1>0, <1>1, <1>2, <1>3 DEF TypeOK, WithinTicks
<1>9. acc' \in [Games \cup {None} -> 0..MaxTicks]
  BY <1>0, <1>3, Constants DEF TypeOK
<1>10. \A g \in Games \cup {None} : acc'[g] <= ticks /\ played'[g] <= ticks
  BY <1>0, <1>1, <1>2, <1>3, Constants DEF TypeOK, WithinTicks, Done
<1>11. WithinTicks'
  BY <1>1, <1>2, <1>7, <1>8, <1>10 DEF WithinTicks, Done
<1>12. TypeOK'
  BY <1>0, <1>1, <1>2, <1>3, <1>4, <1>5, <1>7, <1>8, <1>9 DEF TypeOK
<1> QED
  BY <1>11, <1>12 DEF ShapeInv

LEMMA CollectShape ==
  ASSUME ShapeInv, Collect
  PROVE  ShapeInv'
<1>0. TypeOK /\ WithinTicks
  BY DEF ShapeInv
<1>1. /\ pc = "polled" /\ pc' = "wait"
      /\ UNCHANGED <<proc, file, counter, day, pinned, manual, current, label, overlay, known,
                     sessionTick, stale, switched, ticks, runs, faults>>
  BY DEF Collect, daily, manager, bounds
<1>2. PICK g \in Games \cup {None} :
         acc' = [acc EXCEPT ![g] = acc[g] + 1] /\ played' = [played EXCEPT ![g] = played[g] + 1]
  BY <1>0, GameOfType DEF Collect, TypeOK
<1>3. ticks \in 1..MaxTicks /\ \A h \in Games \cup {None} :
         acc[h] \in Nat /\ acc[h] <= ticks - 1 /\ played[h] \in Nat /\ played[h] <= ticks - 1
  BY <1>0, <1>1 DEF TypeOK, WithinTicks, Done
<1>4. acc[g] + 1 \in 0..MaxTicks /\ played[g] + 1 \in 0..MaxTicks
      /\ acc[g] + 1 <= ticks /\ played[g] + 1 <= ticks
  BY <1>3
<1>5. /\ acc' \in [Games \cup {None} -> 0..MaxTicks]
      /\ played' \in [Games \cup {None} -> 0..MaxTicks]
  BY <1>0, <1>2, <1>4 DEF TypeOK
<1>6. \A h \in Games \cup {None} : acc'[h] <= ticks /\ played'[h] <= ticks
  BY <1>0, <1>2, <1>3, <1>4 DEF TypeOK
<1>7. WithinTicks'
  BY <1>0, <1>1, <1>6 DEF WithinTicks, Done
<1>8. TypeOK'
  BY <1>0, <1>1, <1>5 DEF TypeOK
<1> QED
  BY <1>7, <1>8 DEF ShapeInv

LEMMA StartShape ==
  ASSUME ShapeInv, Start
  PROVE  ShapeInv'
<1>0. TypeOK /\ WithinTicks
  BY DEF ShapeInv
<1>1. /\ pc' = "wait" /\ runs' \in 0..MaxRuns /\ pinned' \in Targets
      /\ label' = Unnamed /\ current' = None /\ known' = None /\ overlay' = {}
      /\ acc' = Zero /\ sessionTick' = 0 /\ played' = Zero
      /\ UNCHANGED <<proc, file, counter, day, stale, ticks, faults>>
  BY <1>0, Constants, SMTT(30) DEF Start, daily, TypeOK
<1>2. manual' \in BOOLEAN /\ switched' \in BOOLEAN
  BY DEF Start
<1>3. TypeOK'
  BY <1>0, <1>1, <1>2, Constants DEF TypeOK
<1>4. WithinTicks'
  BY <1>0, <1>1, Constants DEF TypeOK, WithinTicks, Done
<1> QED
  BY <1>3, <1>4 DEF ShapeInv

LEMMA StopShape ==
  ASSUME ShapeInv, Shutdown \/ Kill
  PROVE  ShapeInv'
<1>0. TypeOK /\ WithinTicks
  BY DEF ShapeInv
<1>1. /\ pc' = "down" /\ file' \in Targets /\ faults' \in 0..MaxFaults /\ played' \in {played, Zero}
      /\ UNCHANGED <<proc, counter, day, pinned, manual, current, label, overlay, known, acc,
                     sessionTick, switched, ticks, runs>>
  BY <1>0, Constants DEF Shutdown, Kill, WriteSummary, TypeOK, daily, manager, loop, bounds
<1>2. stale' \in BOOLEAN
  BY <1>0 DEF Shutdown, Kill, TypeOK
<1>3. TypeOK'
  BY <1>0, <1>1, <1>2, Constants DEF TypeOK
<1>4. \A g \in Games \cup {None} : acc[g] \in Nat /\ played[g] \in Nat
      /\ acc[g] <= ticks /\ played[g] <= ticks /\ ticks \in Nat
  BY <1>0 DEF TypeOK, WithinTicks, Done
<1>5. WithinTicks'
  BY <1>0, <1>1, <1>4, Constants DEF WithinTicks, Done
<1> QED
  BY <1>3, <1>5 DEF ShapeInv

LEMMA DesktopShape ==
  ASSUME Launch \/ Quit \/ UNCHANGED vars
  PROVE  /\ UNCHANGED <<file, counter, day, pc, pinned, manual, current, label, overlay, known, acc,
                        sessionTick, summaries, played, issued, stale, switched, ticks, runs,
                        faults>>
         /\ proc \in Targets => proc' \in Targets
BY DEF Launch, Quit, vars, daily, manager, loop, history, bounds, Targets

LEMMA StepShape == ShapeInv /\ [Next]_vars => ShapeInv'
<1> SUFFICES ASSUME ShapeInv, [Next]_vars PROVE ShapeInv'
    OBVIOUS
<1>1. CASE Launch \/ Quit \/ UNCHANGED vars
  BY <1>1, DesktopShape DEF ShapeInv, TypeOK, WithinTicks, Done
<1>2. CASE Midnight
  <2>1. /\ counter' = [g \in Games |-> 0] /\ day' = day + 1 /\ day < MaxDays
        /\ UNCHANGED <<proc, file, pc, pinned, manual, current, label, overlay, known, acc,
                       sessionTick, played, stale, switched, ticks, runs, faults>>
    BY <1>2 DEF Midnight, NewDay, manager, loop, history, bounds
  <2>2. TypeOK'
    BY <2>1 DEF ShapeInv, TypeOK
  <2>3. WithinTicks'
    BY <2>1 DEF ShapeInv, TypeOK, WithinTicks, Done
  <2> QED
    BY <2>2, <2>3 DEF ShapeInv
<1> QED
  BY <1>1, <1>2, PollShape, CollectShape, StartShape, StopShape DEF Next

-----------------------------------------------------------------------------
(* The label, the overlay and the file *)

GameInv ==
    LabelNamesGame /\ OverlayClean /\ FileNamesGame /\ FileGone /\ IdleIsClean

LEMMA InitGame == Init => GameInv
BY DEF Init, GameInv, LabelNamesGame, OverlayClean, FileNamesGame, FileGone, IdleIsClean

LEMMA PollGame ==
  ASSUME ShapeInv, GameInv, Poll
  PROVE  GameInv'
<1>0. TypeOK /\ LabelNamesGame /\ OverlayClean /\ FileNamesGame /\ FileGone /\ IdleIsClean
  BY DEF ShapeInv, GameInv
<1>1. pc = "wait" /\ pc' = "polled" /\ UNCHANGED <<pinned, manual>>
  BY <1>0, PollCases
<1>2. CASE Unchanged
  <2>1. UNCHANGED <<file, current, label, overlay, stale, switched, faults>>
    BY <1>2 DEF Unchanged
  <2> QED
    BY <1>0, <1>1, <2>1 DEF GameInv, LabelNamesGame, OverlayClean, FileNamesGame, FileGone,
                            IdleIsClean
<1>3. CASE Finishes
  <2>1. current' = None /\ switched' = FALSE /\ overlay' = {}
    BY <1>3 DEF Finishes, Ended
  <2>2. pinned = None => file' = None
    BY <1>3 DEF Finishes
  <2> QED
    BY <1>1, <2>1, <2>2 DEF GameInv, LabelNamesGame, OverlayClean, FileNamesGame, FileGone,
                            IdleIsClean
<1>4. ASSUME NEW t \in Target, Begins(t) PROVE GameInv'
  <2>1. current' = t /\ switched' = (current # None) /\ GameOf(t) = t.game /\ t # None
        /\ t.game \in Games
    BY <1>4, GameOfType DEF Begins, Started
  <2>2. PICK maps \in SUBSET {t.game} :
           overlay' = (IF t.game \in Profiled THEN {t.game} ELSE overlay) \cup maps
    BY <1>4 DEF Begins, Started
  <2>3. current = None => overlay = {}
    <3> HAVE current = None
    <3>1. ~switched /\ overlay \subseteq {None} /\ overlay \subseteq Games
      BY <1>0, <1>1, GameOfType DEF IdleIsClean, OverlayClean, TypeOK
    <3> QED
      BY <3>1
  <2>4. OverlayClean'
    BY <2>1, <2>2, <2>3 DEF OverlayClean
  <2>5. LabelNamesGame'
    <3>1. pinned = None /\ current = None /\ ~manual => label'.game = t.game
      BY <1>4 DEF Begins, Labelled, Counted, Miscounted, Named
    <3>2. ~switched' /\ ~manual' /\ pinned' = None => current = None /\ ~manual /\ pinned = None
      BY <1>1, <2>1
    <3> QED
      BY <2>1, <3>1, <3>2 DEF LabelNamesGame
  <2>6. FileNamesGame'
    BY <1>0, <1>1, <1>4, <2>1 DEF FileNamesGame, Begins, WriteFile, TypeOK
  <2> QED
    BY <1>1, <2>1, <2>4, <2>5, <2>6 DEF GameInv, FileGone, IdleIsClean
<1> QED
  BY <1>0, <1>2, <1>3, <1>4, PollCases

LEMMA StepGame == ShapeInv /\ GameInv /\ [Next]_vars => GameInv'
<1> SUFFICES ASSUME ShapeInv, GameInv, [Next]_vars PROVE GameInv'
    OBVIOUS
<1>0. TypeOK /\ LabelNamesGame /\ OverlayClean /\ FileNamesGame /\ FileGone /\ IdleIsClean
  BY DEF ShapeInv, GameInv
<1>1. CASE Launch \/ Quit \/ UNCHANGED vars
  BY <1>0, <1>1, DesktopShape DEF GameInv, LabelNamesGame, OverlayClean, FileNamesGame,
                                  FileGone, IdleIsClean
<1>5. CASE Midnight
  BY <1>0, <1>5 DEF Midnight, manager, loop, history, bounds, GameInv, LabelNamesGame,
                    OverlayClean, FileNamesGame, FileGone, IdleIsClean
<1>2. CASE Start
  BY <1>0, <1>2 DEF Start, GameInv, LabelNamesGame, OverlayClean, FileNamesGame, FileGone,
                    IdleIsClean
<1>3. CASE Collect
  BY <1>0, <1>3 DEF Collect, manager, bounds, GameInv, LabelNamesGame, OverlayClean,
                    FileNamesGame, FileGone, IdleIsClean
<1>4. CASE Shutdown \/ Kill
  <2>1. pc' = "down" /\ (~stale' => file' = None)
    BY <1>0, <1>4 DEF Shutdown, Kill, TypeOK
  <2> QED
    BY <2>1 DEF GameInv, LabelNamesGame, OverlayClean, FileNamesGame, FileGone, IdleIsClean
<1> QED
  BY <1>1, <1>2, <1>3, <1>4, <1>5, PollGame DEF Next

\* SessionManager and the main loop: at every moment of a run the generated label,
\* the overlay of settings and session.json are those of the game detected, over
\* restarts, kills and failed writes, with the exceptions the properties name; and
\* no counter runs ahead of the ticks.
THEOREM SessionCorrect == Spec => []SessionInv
<1>1. ShapeInv /\ GameInv => SessionInv
  BY DEF ShapeInv, GameInv, SessionInv
<1> QED
  BY InitShape, StepShape, InitGame, StepGame, <1>1, PTL DEF Spec
-----------------------------------------------------------------------------
(* The labels *)

LEMMA InitLabels == Init => LabelsCounted /\ LabelsDistinct
BY DEF Init, LabelsCounted, LabelsDistinct

LEMMA StepLabels ==
  ASSUME ShapeInv, LabelsCounted, LabelsDistinct, [Next]_vars
  PROVE  LabelsCounted' /\ LabelsDistinct'
<1>0. /\ TypeOK /\ issued \in Seq(Issues) /\ Len(issued) \in Nat
      /\ \A i \in DOMAIN issued : issued[i] \in Issues /\ i \in 1..Len(issued)
      /\ \A i \in DOMAIN issued : issued[i].how # "lost" /\ Unwiped(i) => CountedAt(i)
  BY DEF ShapeInv, LabelsCounted
<1>a. /\ day \in Nat /\ \A h \in Games : counter[h] \in Nat
      /\ \A i \in DOMAIN issued : issued[i].label.game \in Games /\ issued[i].label.day \in Nat
                                /\ issued[i].label.n \in Nat
  <2>1. day \in Nat /\ \A h \in Games : counter[h] \in Nat
    BY <1>0 DEF TypeOK
  <2>2. ASSUME NEW x \in Issues
        PROVE  x.label.game \in Games /\ x.label.day \in Nat /\ x.label.n \in Nat
    BY DEF Issues, Labels
  <2> QED
    BY <1>0, <2>1, <2>2
<1>1. \/ UNCHANGED <<counter, day, issued>>
      \/ NewDay /\ issued' = issued
      \/ \E g \in Games : \E how : Issued(g, how)
  <2>1. CASE Poll
    <3>1. Unchanged \/ Finishes \/ \E t \in Target : Begins(t)
      BY <1>0, <2>1, PollCases
    <3> QED
      BY <3>1, GameOfType, LabelledCases DEF Unchanged, Finishes, Begins, daily
  <2>2. CASE Launch \/ Quit \/ UNCHANGED vars
    BY <2>2, DesktopShape
  <2>3. CASE Start \/ Collect \/ Shutdown \/ Kill
    BY <2>3 DEF Start, Collect, Shutdown, Kill, daily
  <2>4. CASE Midnight
    BY <2>4 DEF Midnight, history
  <2> QED
    BY <2>1, <2>2, <2>3, <2>4 DEF Next
<1>2. CASE UNCHANGED <<counter, day, issued>>
  BY <1>2 DEF LabelsCounted, LabelsDistinct, Unwiped, CountedAt
<1>3. CASE NewDay /\ issued' = issued
  <2>1. \A i \in DOMAIN issued : CountedAt(i) => issued[i].label.day < day'
    BY <1>3, <1>a DEF CountedAt, NewDay
  <2>2. LabelsCounted'
    BY <1>0, <1>3, <2>1 DEF LabelsCounted, Unwiped, CountedAt
  <2> QED
    BY <1>3, <2>2 DEF LabelsDistinct
<1>4. ASSUME NEW g \in Games, NEW how, Issued(g, how)
      PROVE  LabelsCounted' /\ LabelsDistinct'
  <2>0. PICK L \in Nat : L = Len(issued)
    BY <1>0
  <2> DEFINE new == [label |-> label', how |-> how]
  <2>1. issued' = Append(issued, new)
    BY <1>4 DEF Issued
  <2>2. day' \in Nat /\ day' >= day
    BY <1>4, <1>a DEF Issued, NewDay
  <2>3. /\ label'.game = g /\ label'.day = day' /\ label'.n \in {1, counter[g] + 1}
        /\ label' \in Labels
    BY <1>4, <1>a, <2>2 DEF Issued, Labels
  <2>4. new \in Issues /\ new.label = label' /\ new.how = how
    BY <1>4, <2>3 DEF Issued, Issues
  <2> HIDE DEF new
  <2>5. /\ issued' \in Seq(Issues) /\ Len(issued') = L + 1
        /\ issued'[L + 1] = new
        /\ \A i \in 1..L : issued'[i] = issued[i] /\ i \in DOMAIN issued
        /\ DOMAIN issued' = 1..(L + 1)
    BY <1>0, <2>0, <2>1, <2>4
  <2>6. \A i \in 1..L : Unwiped(i)' => Unwiped(i) /\ how # "wiped"
    <3> SUFFICES ASSUME NEW i \in 1..L, Unwiped(i)' PROVE Unwiped(i) /\ how # "wiped"
      OBVIOUS
    <3>1. \A k \in (i + 1)..(L + 1) : issued'[k].how # "wiped"
      BY <2>5 DEF Unwiped
    <3>2. issued'[L + 1].how # "wiped"
      BY <1>0, <3>1
    <3>3. \A k \in (i + 1)..L : issued[k].how # "wiped"
      BY <1>0, <2>5, <3>1
    <3> QED
      BY <2>0, <2>4, <2>5, <3>2, <3>3 DEF Unwiped
  <2>7. \A i \in 1..L : issued[i].how # "lost" /\ Unwiped(i)' => CountedAt(i)
    BY <1>0, <2>5, <2>6
  <2>8. \A i \in 1..L : how # "wiped" /\ CountedAt(i) => CountedAt(i)'
    <3> SUFFICES ASSUME NEW i \in 1..L, how # "wiped", CountedAt(i) PROVE CountedAt(i)'
      OBVIOUS
    <3>1. i \in DOMAIN issued /\ issued'[i] = issued[i]
      BY <2>5
    <3>2. CASE NewDay
      BY <1>a, <3>1, <3>2 DEF CountedAt, NewDay
    <3>3. CASE day' = day /\ \A h \in Games : counter'[h] >= counter[h] /\ counter'[h] \in Nat
      BY <1>a, <3>1, <3>3 DEF CountedAt
    <3>4. CASE counter' = [counter EXCEPT ![g] = counter[g] + 1] /\ day' = day
      <4>1. counter \in [Games -> Nat]
        BY <1>0 DEF TypeOK
      <4> QED
        BY <1>a, <3>3, <3>4, <4>1
    <3> QED
      BY <1>4, <1>a, <3>2, <3>3, <3>4 DEF Issued
  <2>9. how # "lost" => CountedAt(L + 1)'
    <3>1. how = "saved" => counter'[g] = label'.n
      BY <1>0, <1>4 DEF Issued, TypeOK
    <3>2. how = "wiped" => counter'[g] = label'.n
      BY <1>4 DEF Issued
    <3>3. how # "lost" => counter'[g] = label'.n /\ label'.n \in Nat
      BY <1>4, <1>a, <2>3, <3>1, <3>2 DEF Issued
    <3>4. issued'[L + 1].label = label'
      BY <2>4, <2>5
    <3> QED
      BY <2>2, <2>3, <3>3, <3>4 DEF CountedAt
  <2>10. LabelsCounted'
    <3>1. \A i \in DOMAIN issued' : issued'[i].how # "lost" /\ Unwiped(i)' => CountedAt(i)'
      <4> SUFFICES ASSUME NEW i \in 1..(L + 1), issued'[i].how # "lost", Unwiped(i)' PROVE CountedAt(i)'
        BY <2>5
      <4>1. CASE i = L + 1
        <5>1. how # "lost"
          BY <2>4, <2>5, <4>1
        <5>2. CountedAt(L + 1)'
          BY <2>9, <5>1
        <5> QED
          BY <4>1, <5>2
      <4>2. CASE i \in 1..L
        BY <2>5, <2>6, <2>7, <2>8, <4>2
      <4> QED
        BY <1>0, <4>1, <4>2
    <3> QED
      BY <2>5, <3>1 DEF LabelsCounted
  <2>11. LabelsDistinct'
    <3> SUFFICES ASSUME NEW i \in 1..(L + 1), NEW j \in 1..(L + 1), i < j,
                        issued'[i].label = issued'[j].label,
                        issued'[i].how # "lost", issued'[j].how # "lost"
                 PROVE  \E k \in (i + 1)..j : issued'[k].how = "wiped"
      BY <2>5 DEF LabelsDistinct
    <3>1. CASE j \in 1..L
      <4>1. i \in 1..L /\ issued'[i] = issued[i] /\ issued'[j] = issued[j]
            /\ i \in DOMAIN issued /\ j \in DOMAIN issued
        BY <1>0, <2>5, <3>1
      <4>2. PICK k \in (i + 1)..j : issued[k].how = "wiped"
        BY <4>1 DEF LabelsDistinct
      <4>3. k \in 1..L
        BY <1>0, <3>1, <4>1
      <4> QED
        BY <2>5, <4>2, <4>3
    <3>2. CASE j = L + 1
      <4>1. i \in 1..L /\ issued'[i] = issued[i] /\ i \in DOMAIN issued
        BY <1>0, <2>5, <3>2
      <4>2. CASE Unwiped(i) /\ how # "wiped"
        <5>1. CountedAt(i)
          BY <1>0, <4>1, <4>2
        <5>2. how = "saved" /\ label'.n = counter[g] + 1 /\ day' = day
          BY <1>4, <2>4, <2>5, <3>2, <4>2 DEF Issued
        <5>3. issued[i].label = label'
          BY <2>4, <2>5, <3>2, <4>1
        <5> QED
          BY <1>a, <2>3, <4>1, <5>1, <5>2, <5>3 DEF CountedAt
      <4>3. CASE how = "wiped"
        BY <1>0, <2>4, <2>5, <3>2, <4>1, <4>3
      <4>4. CASE ~Unwiped(i)
        <5>1. PICK k \in (i + 1)..L : issued[k].how = "wiped"
          BY <2>0, <4>4 DEF Unwiped
        <5>2. k \in 1..L /\ k \in (i + 1)..j
          BY <1>0, <3>2, <4>1
        <5> QED
          BY <2>5, <5>1, <5>2
      <4> QED
        BY <4>2, <4>3, <4>4
    <3> QED
      BY <1>0, <3>1, <3>2
  <2> QED
    BY <2>10, <2>11
<1> QED
  BY <1>1, <1>2, <1>3, <1>4

\* increment_session_counter and the label of a first detection: over any number of
\* restarts and kills of the agent, and whatever calls fail, two sessions share a
\* label only when the call of one of the two failed or fell on midnight, or when
\* session-counters.json was read as empty after the first of them.  A label's number
\* was saved before it was used, and only an unreadable file sets it back.
THEOREM LabelsUnique == Spec => []LabelsDistinct
<1>1. Init => ShapeInv /\ LabelsCounted /\ LabelsDistinct
  BY InitShape, InitLabels
<1>2. ShapeInv /\ LabelsCounted /\ LabelsDistinct /\ [Next]_vars
        => ShapeInv' /\ LabelsCounted' /\ LabelsDistinct'
  BY StepShape, StepLabels
<1> QED
  BY <1>1, <1>2, PTL DEF Spec

-----------------------------------------------------------------------------
(* The summaries *)

PureInv == AccPure /\ SummariesPure

LEMMA InitPure == Init => PureInv
BY Constants DEF Init, PureInv, AccPure, SummariesPure

\* A summary is pure when the accumulators are and it is of the current game, or
\* there is none.
LEMMA SummaryIsPure ==
  ASSUME TypeOK, AccPure, pc # "down", NEW t \in Targets, current # None => t = current
  PROVE  Summary(t) \in Summaries /\ (Summary(t).switched \/ Pure(Summary(t)))
<1>1. GameOf(t) \in Games \cup {None}
  BY GameOfType
<1>2. switched \in BOOLEAN
  BY DEF TypeOK
<1>3. Summary(t) \in Summaries
  BY <1>1, <1>2 DEF Summary, Summaries, TypeOK
<1>4. Summary(t).switched = switched /\ Summary(t).acc = acc /\ Summary(t).game = GameOf(t)
  BY DEF Summary
<1>5. ASSUME ~switched, NEW g \in Games, acc[g] > 0 PROVE GameOf(t) = g
  <2>1. GameOf(current) = g
    BY <1>5 DEF AccPure
  <2>2. current # None
    BY <2>1, GameOfType
  <2> QED
    BY <2>1, <2>2
<1>6. switched \/ Pure(Summary(t))
  BY <1>4, <1>5 DEF Pure
<1> QED
  BY <1>3, <1>4, <1>6

LEMMA SummaryAdded ==
  ASSUME TypeOK, PureInv, pc # "down", NEW t \in Targets, current # None => t = current,
         WriteSummary(t)
  PROVE  SummariesPure'
<1> DEFINE new == Summary(t)
<1>1. new \in Summaries /\ (new.switched \/ Pure(new))
  BY SummaryIsPure DEF PureInv
<1>2. summaries' = Append(summaries, new) \/ summaries' = summaries
  BY DEF WriteSummary
<1>3. summaries \in Seq(Summaries)
      /\ \A i \in DOMAIN summaries : summaries[i].switched \/ Pure(summaries[i])
  BY DEF PureInv, SummariesPure
<1> HIDE DEF new
<1>4. CASE summaries' = Append(summaries, new)
  <2>1. /\ summaries' \in Seq(Summaries)
        /\ \A i \in DOMAIN summaries' :
               \/ i \in DOMAIN summaries /\ summaries'[i] = summaries[i]
               \/ summaries'[i] = new
    BY <1>1, <1>3, <1>4
  <2> QED
    BY <1>1, <1>3, <2>1 DEF SummariesPure
<1>5. CASE summaries' = summaries
  BY <1>3, <1>5 DEF SummariesPure
<1> QED
  BY <1>2, <1>4, <1>5

LEMMA StepPure == ShapeInv /\ GameInv /\ PureInv /\ [Next]_vars => PureInv'
<1> SUFFICES ASSUME ShapeInv, GameInv, PureInv, [Next]_vars PROVE PureInv'
    OBVIOUS
<1>0. TypeOK /\ AccPure /\ SummariesPure
  BY DEF ShapeInv, PureInv
<1>1. CASE Launch \/ Quit \/ UNCHANGED vars
  BY <1>0, <1>1, DesktopShape DEF PureInv, AccPure, SummariesPure
<1>7. CASE Midnight
  BY <1>0, <1>7 DEF Midnight, manager, loop, history, bounds, PureInv, AccPure, SummariesPure
<1>2. CASE Start
  <2>1. acc' = Zero /\ summaries' = <<>>
    BY <1>2 DEF Start
  <2> QED
    BY <2>1, Constants DEF PureInv, AccPure, SummariesPure
<1>3. CASE Collect
  <2>1. pc # "down" /\ pc' # "down" /\ UNCHANGED <<current, switched, summaries>>
        /\ acc' = [acc EXCEPT ![GameOf(current)] = acc[GameOf(current)] + 1]
    BY <1>3 DEF Collect, manager
  <2>2. \A g \in Games : g # GameOf(current) => acc'[g] = acc[g]
    BY <1>0, <2>1 DEF TypeOK
  <2> QED
    BY <1>0, <2>1, <2>2 DEF PureInv, AccPure, SummariesPure
<1>4. CASE Shutdown
  <2>1. pc # "down" /\ pc' = "down" /\ (WriteSummary(Subject) \/ UNCHANGED summaries)
    BY <1>4 DEF Shutdown
  <2>2. Subject \in Targets /\ (current # None => Subject = current)
    BY <1>0 DEF Subject, TypeOK
  <2>3. SummariesPure'
    BY <1>0, <2>1, <2>2, SummaryAdded DEF SummariesPure, PureInv
  <2> QED
    BY <2>1, <2>3 DEF PureInv, AccPure
<1>5. CASE Kill
  BY <1>5 DEF Kill, PureInv, AccPure, SummariesPure
<1>6. CASE Poll
  <2>1. pc = "wait" /\ (Unchanged \/ Finishes \/ \E t \in Target : Begins(t))
    BY <1>0, <1>6, PollCases
  <2>2. CASE Unchanged
    BY <1>0, <2>1, <2>2 DEF Unchanged, PureInv, AccPure, SummariesPure
  <2>3. CASE Finishes
    <3>1. acc' = Zero /\ WriteSummary(current) /\ current \in Targets
      BY <1>0, <2>3 DEF Finishes, Ended, TypeOK
    <3>2. SummariesPure'
      BY <1>0, <2>1, <3>1, SummaryAdded DEF PureInv
    <3> QED
      BY <3>1, <3>2, Constants DEF PureInv, AccPure
  <2>4. ASSUME NEW t \in Target, Begins(t) PROVE PureInv'
    <3>1. switched' = (current # None) /\ UNCHANGED <<acc, summaries>> /\ current' = t
      BY <2>4 DEF Begins, Started
    <3>2. AccPure'
      <4>1. CASE current # None
        BY <3>1, <4>1 DEF AccPure
      <4>2. CASE current = None
        <5>1. ~switched
          BY <1>0, <2>1, <4>2 DEF GameInv, IdleIsClean
        <5> QED
          BY <1>0, <2>1, <3>1, <4>2, <5>1, GameOfType DEF AccPure
      <4> QED
        BY <4>1, <4>2
    <3> QED
      BY <1>0, <3>1, <3>2 DEF PureInv, SummariesPure
  <2> QED
    BY <2>1, <2>2, <2>3, <2>4
<1> QED
  BY <1>1, <1>2, <1>3, <1>4, <1>5, <1>6, <1>7 DEF Next

\* GameEnded, the shutdown path and the reset of the accumulators: over any play of
\* games, restarts, kills and failed writes, a summary adds up ticks of its own game
\* and of idle time only, unless its game replaced another within one scan.
THEOREM SummariesOfOneGame == Spec => []SummaryPure
<1>1. SummariesPure => SummaryPure
  <2> SUFFICES ASSUME SummariesPure, NEW s \in Range(summaries)
               PROVE  s.switched \/ Pure(s)
    BY DEF SummaryPure
  <2>1. PICK i \in DOMAIN summaries : s = summaries[i]
    BY DEF Range
  <2> QED
    BY <2>1 DEF SummariesPure
<1>2. Init => ShapeInv /\ GameInv /\ PureInv
  BY InitShape, InitGame, InitPure
<1>3. ShapeInv /\ GameInv /\ PureInv /\ [Next]_vars => ShapeInv' /\ GameInv' /\ PureInv'
  BY StepShape, StepGame, StepPure
<1>4. PureInv => SummariesPure
  BY DEF PureInv
<1> QED
  BY <1>1, <1>2, <1>3, <1>4, PTL DEF Spec

-----------------------------------------------------------------------------
(* Every tick in a summary *)

\* A set of numbers that is not empty has a least element.
LEMMA Least ==
  ASSUME NEW T, T \subseteq Nat, T # {}
  PROVE  \E m \in T : \A k \in T : m <= k
<1>1. \E x \in T : \A y \in T : ~(<<y, x>> \in OpToRel(<, Nat))
  BY NatLessThanWellFounded, WFMin
<1>2. PICK x \in T : \A y \in T : ~(<<y, x>> \in OpToRel(<, Nat))
  BY <1>1
<1>3. ASSUME NEW y \in T PROVE x <= y
  <2>1. SUFFICES ASSUME y < x PROVE FALSE
    OBVIOUS
  <2>2. <<y, x>> \in Nat \X Nat /\ <<y, x>>[1] = y /\ <<y, x>>[2] = x
    OBVIOUS
  <2>3. <<y, x>> \in OpToRel(<, Nat)
    BY <2>1, <2>2 DEF OpToRel
  <2> QED
    BY <1>2, <2>3
<1> QED
  BY <1>3

\* Induction over the natural numbers up to a bound, for a set.
LEMMA UpTo ==
  ASSUME NEW N \in Nat, NEW S, 0 \in S, \A k \in 0..(N - 1) : k \in S => k + 1 \in S
  PROVE  0..N \subseteq S
<1> DEFINE T == {k \in 0..N : k \notin S}
<1> SUFFICES ASSUME T # {} PROVE FALSE
    OBVIOUS
<1>1. T \subseteq Nat
  OBVIOUS
<1>2. PICK m \in T : \A k \in T : m <= k
  BY <1>1, Least
<1>3. m \in 0..N /\ m \notin S /\ m # 0
  BY <1>2
<1>4. m - 1 \in 0..(N - 1) /\ m - 1 \in S
  BY <1>2, <1>3
<1> QED
  BY <1>3, <1>4

\* What upto[i] of Summed is, as equations.
LEMMA SummedUnfolds ==
  ASSUME NEW rows, Len(rows) \in Nat, NEW g
  PROVE  \E L : /\ Summed(rows, g) = L[Len(rows)] /\ L[0] = 0
                /\ \A i \in 1..Len(rows) : L[i] = L[i - 1] + rows[i].acc[g]
<1> DEFINE N == Len(rows)
           Step(i, v) == v + rows[i].acc[g]
           Is(f, k) == f = [i \in 0..k |-> IF i = 0 THEN 0 ELSE Step(i, f[i - 1])]
           L == CHOOSE f : Is(f, N)
           T == {k \in 0..N : \E f : Is(f, k)}
<1>1. Summed(rows, g) = L[N]
  BY DEF Summed
<1> HIDE DEF N, Step
<1>0. N \in Nat
  BY DEF N
<1>2. 0 \in T
  <2>1. Is([i \in 0..0 |-> 0], 0)
    OBVIOUS
  <2> HIDE DEF Is
  <2>2. \E f : Is(f, 0)
    BY <2>1
  <2> QED
    BY <1>0, <2>2
<1>3. ASSUME NEW k \in 0..(N - 1), k \in T PROVE k + 1 \in T
  <2>1. PICK f : Is(f, k)
    BY <1>3
  <2> DEFINE h == [i \in 0..(k + 1) |-> IF i = k + 1 THEN Step(k + 1, f[k]) ELSE f[i]]
  <2>2. \A i \in 0..(k + 1) : h[i] = IF i = 0 THEN 0 ELSE Step(i, h[i - 1])
    BY <1>0, <2>1
  <2>3. Is(h, k + 1)
    BY <1>0, <2>2
  <2> HIDE DEF Is, h
  <2>4. \E e : Is(e, k + 1)
    BY <2>3
  <2> QED
    BY <1>0, <2>4
<1> HIDE DEF T
<1>4. 0..N \subseteq T
  BY <1>0, <1>2, <1>3, UpTo
<1>5. Is(L, N)
  <2> HIDE DEF Is
  <2>1. \E f : Is(f, N)
    BY <1>0, <1>4 DEF T
  <2> QED
    BY <2>1
<1> HIDE DEF L
<1>6. L[0] = 0 /\ \A i \in 1..N : L[i] = Step(i, L[i - 1])
  BY <1>0, <1>5
<1> QED
  BY <1>1, <1>6 DEF N, Step

LEMMA SummedEmpty ==
  ASSUME NEW rows, Len(rows) = 0, NEW g
  PROVE  Summed(rows, g) = 0
BY SummedUnfolds

\* One more summary adds its own ticks.
LEMMA SummedAppend ==
  ASSUME NEW R, NEW rows \in Seq(R), NEW s \in R, NEW g
  PROVE  Summed(Append(rows, s), g) = Summed(rows, g) + s.acc[g]
<1> DEFINE N == Len(rows)
           more == Append(rows, s)
<1>0. /\ N \in Nat /\ Len(more) = N + 1 /\ more[N + 1] = s
      /\ \A i \in 1..N : more[i] = rows[i]
  OBVIOUS
<1> HIDE DEF more
<1>1. PICK L : /\ Summed(rows, g) = L[N] /\ L[0] = 0
               /\ \A i \in 1..N : L[i] = L[i - 1] + rows[i].acc[g]
  BY <1>0, SummedUnfolds
<1>2. PICK M : /\ Summed(more, g) = M[Len(more)] /\ M[0] = 0
               /\ \A i \in 1..Len(more) : M[i] = M[i - 1] + more[i].acc[g]
  <2>1. Len(more) \in Nat
    BY <1>0
  <2> QED
    BY <2>1, SummedUnfolds
<1> HIDE DEF N
<1> DEFINE T == {k \in 0..N : M[k] = L[k]}
<1>3. 0 \in T
  BY <1>0, <1>1, <1>2
<1>4. ASSUME NEW k \in 0..(N - 1), k \in T PROVE k + 1 \in T
  <2>1. k + 1 \in 1..N /\ k + 1 \in 1..(N + 1) /\ (k + 1) - 1 = k
    BY <1>0
  <2>2. L[k + 1] = L[k] + rows[k + 1].acc[g]
    BY <1>1, <2>1
  <2>3. M[k + 1] = M[k] + more[k + 1].acc[g]
    BY <1>0, <1>2, <2>1
  <2>4. M[k + 1] = L[k + 1]
    BY <1>0, <1>4, <2>1, <2>2, <2>3
  <2> QED
    BY <2>1, <2>4
<1>5. N \in T
  <2> HIDE DEF T
  <2> QED
    BY <1>0, <1>3, <1>4, UpTo
<1>6. M[N + 1] = M[N] + s.acc[g]
  <2>1. N + 1 \in 1..(N + 1) /\ (N + 1) - 1 = N
    BY <1>0
  <2> QED
    BY <1>0, <1>2, <2>1
<1>7. Summed(more, g) = M[N + 1] /\ M[N] = L[N]
  BY <1>0, <1>2, <1>5
<1> QED
  BY <1>1, <1>6, <1>7 DEF more

\* The ticks of a game are in the summaries and, while the agent runs, in the
\* accumulators; the tick counter at zero means that these are empty.
Accounted ==
    faults = 0 => \A g \in Games :
        /\ Summed(summaries, g) \in Nat
        /\ pc = "down" => Summed(summaries, g) = played[g]
        /\ pc # "down" => Summed(summaries, g) + acc[g] = played[g]

ZeroIsEmpty ==
    pc # "down" /\ sessionTick = 0 => current = None /\ \A g \in Games : acc[g] = 0

CountInv == Accounted /\ ZeroIsEmpty

LEMMA InitCount == Init => CountInv
<1> SUFFICES ASSUME Init PROVE CountInv
  OBVIOUS
<1>1. Len(summaries) = 0
  BY DEF Init
<1>2. \A g \in Games : Summed(summaries, g) = 0 /\ played[g] = 0
  BY <1>1, SummedEmpty, Constants DEF Init
<1> QED
  BY <1>2 DEF Init, CountInv, Accounted, ZeroIsEmpty

\* A summary written takes the ticks of the accumulators over.
LEMMA CountWritten ==
  ASSUME TypeOK, SummariesPure, Accounted, pc # "down", NEW t \in Targets,
         WriteSummary(t), Summary(t) \in Summaries, faults' = 0, NEW g \in Games
  PROVE  Summed(summaries', g) = played[g] /\ Summed(summaries', g) \in Nat
<1>1. faults = 0 /\ summaries' = Append(summaries, Summary(t))
  BY DEF WriteSummary, TypeOK
<1>2. Summary(t).acc = acc
  BY DEF Summary
<1> DEFINE s == Summary(t)
<1> HIDE DEF s
<1>3. Summed(Append(summaries, s), g) = Summed(summaries, g) + s.acc[g]
  <2>1. summaries \in Seq(Summaries) /\ s \in Summaries
    BY DEF SummariesPure, s
  <2> QED
    BY <2>1, SummedAppend
<1>4. Summed(summaries, g) \in Nat /\ Summed(summaries, g) + acc[g] = played[g] /\ acc[g] \in Nat
  BY <1>1 DEF Accounted, TypeOK
<1> QED
  BY <1>1, <1>2, <1>3, <1>4 DEF s

LEMMA StepCount == ShapeInv /\ GameInv /\ PureInv /\ CountInv /\ [Next]_vars => CountInv'
<1> SUFFICES ASSUME ShapeInv, GameInv, PureInv, CountInv, [Next]_vars PROVE CountInv'
  OBVIOUS
<1>0. TypeOK /\ AccPure /\ SummariesPure /\ Accounted /\ ZeroIsEmpty
  BY DEF ShapeInv, PureInv, CountInv
<1>a. \A g \in Games : acc[g] \in Nat /\ played[g] \in Nat /\ g # None
  BY <1>0 DEF TypeOK
<1>1. CASE Launch \/ Quit \/ UNCHANGED vars
  BY <1>0, <1>1, DesktopShape DEF CountInv, Accounted, ZeroIsEmpty
<1>7. CASE Midnight
  BY <1>0, <1>7 DEF Midnight, manager, loop, history, bounds, CountInv, Accounted, ZeroIsEmpty
<1>2. CASE Start
  <2>1. acc' = Zero /\ summaries' = <<>> /\ played' = Zero /\ current' = None
    BY <1>2 DEF Start
  <2>2. Len(summaries') = 0
    BY <2>1
  <2>3. \A g \in Games : Summed(summaries', g) = 0
    BY <2>2, SummedEmpty
  <2> QED
    BY <2>1, <2>3, Constants DEF CountInv, Accounted, ZeroIsEmpty
<1>3. CASE Collect
  <2>1. /\ pc # "down" /\ pc' # "down" /\ UNCHANGED <<current, summaries, sessionTick, faults>>
        /\ acc' = [acc EXCEPT ![GameOf(current)] = acc[GameOf(current)] + 1]
        /\ played' = [played EXCEPT ![GameOf(current)] = played[GameOf(current)] + 1]
    BY <1>3 DEF Collect, manager, bounds
  <2>2. \A g \in Games : \/ acc'[g] = acc[g] /\ played'[g] = played[g] /\ g # GameOf(current)
                         \/ acc'[g] = acc[g] + 1 /\ played'[g] = played[g] + 1 /\ g = GameOf(current)
    BY <1>0, <2>1 DEF TypeOK
  <2>3. Accounted'
    BY <1>0, <1>a, <2>1, <2>2 DEF Accounted
  <2>4. ZeroIsEmpty'
    BY <1>0, <1>a, <2>1, <2>2, GameOfType DEF ZeroIsEmpty
  <2> QED
    BY <2>3, <2>4 DEF CountInv
<1>4. CASE Shutdown
  <2>1. /\ pc # "down" /\ pc' = "down" /\ UNCHANGED <<played, acc>>
        /\ \/ WriteSummary(Subject)
           \/ sessionTick = 0 /\ UNCHANGED <<summaries, faults>>
    BY <1>4 DEF Shutdown, loop
  <2>2. Subject \in Targets /\ (current # None => Subject = current)
    BY <1>0 DEF Subject, TypeOK
  <2>3. CASE WriteSummary(Subject)
    <3>1. Summary(Subject) \in Summaries
      BY <1>0, <2>1, <2>2, SummaryIsPure
    <3>2. faults' = 0 => \A g \in Games : Summed(summaries', g) = played[g] /\ Summed(summaries', g) \in Nat
      BY <1>0, <2>1, <2>2, <2>3, <3>1, CountWritten
    <3> QED
      BY <2>1, <3>2 DEF CountInv, Accounted, ZeroIsEmpty
  <2>4. CASE sessionTick = 0 /\ UNCHANGED <<summaries, faults>>
    BY <1>0, <1>a, <2>1, <2>4 DEF CountInv, Accounted, ZeroIsEmpty
  <2> QED
    BY <2>1, <2>3, <2>4
<1>5. CASE Kill
  <2>1. summaries' = <<>> /\ played' = Zero /\ pc' = "down"
    BY <1>5 DEF Kill
  <2>2. Len(summaries') = 0
    BY <2>1
  <2>3. \A g \in Games : Summed(summaries', g) = 0
    BY <2>2, SummedEmpty
  <2> QED
    BY <2>1, <2>3, Constants DEF CountInv, Accounted, ZeroIsEmpty
<1>6. CASE Poll
  <2>1. /\ pc = "wait" /\ pc' = "polled" /\ UNCHANGED played
        /\ Unchanged \/ Finishes \/ \E t \in Target : Begins(t)
    BY <1>0, <1>6, PollCases
  <2>2. CASE Unchanged
    <3>1. UNCHANGED <<acc, summaries, faults, current>> /\ sessionTick' = sessionTick + 1
      BY <2>2 DEF Unchanged
    <3> QED
      BY <1>0, <2>1, <3>1 DEF CountInv, Accounted, ZeroIsEmpty, TypeOK
  <2>3. CASE Finishes
    <3>1. acc' = Zero /\ WriteSummary(current) /\ current \in Targets /\ current' = None
      BY <1>0, <2>3 DEF Finishes, Ended, TypeOK
    <3>2. Summary(current) \in Summaries
      BY <1>0, <2>1, <3>1, SummaryIsPure
    <3>3. faults' = 0 => \A g \in Games : Summed(summaries', g) = played[g] /\ Summed(summaries', g) \in Nat
      BY <1>0, <2>1, <3>1, <3>2, CountWritten
    <3>4. \A g \in Games : acc'[g] = 0
      BY <3>1, Constants
    <3> QED
      BY <1>a, <2>1, <3>1, <3>3, <3>4 DEF CountInv, Accounted, ZeroIsEmpty
  <2>4. ASSUME NEW t \in Target, Begins(t) PROVE CountInv'
    <3>1. UNCHANGED <<acc, summaries>> /\ sessionTick' = sessionTick + 1
      BY <2>4 DEF Begins, Started
    <3>2. faults' = 0 => faults = 0
      BY <1>0, <2>4 DEF Begins, WriteFile, TypeOK
    <3> QED
      BY <1>0, <2>1, <3>1, <3>2 DEF CountInv, Accounted, ZeroIsEmpty, TypeOK
  <2> QED
    BY <2>1, <2>2, <2>3, <2>4
<1> QED
  BY <1>1, <1>2, <1>3, <1>4, <1>5, <1>6, <1>7 DEF Next

\* GameEnded and the shutdown path, over any play of games, restarts and kills: once
\* the agent has stopped, the summaries of the run hold each tick of each game once,
\* and each in a summary of that game unless it replaced another within one scan; a
\* summary that could not be written is the only way to lose them.
THEOREM TicksAllSummarised == Spec => []TicksSummarisedOnce
<1>1. CountInv => TicksSummarised
  BY DEF CountInv, Accounted, TicksSummarised
<1>2. Init => ShapeInv /\ GameInv /\ PureInv /\ CountInv
  BY InitShape, InitGame, InitPure, InitCount
<1>3. ShapeInv /\ GameInv /\ PureInv /\ CountInv /\ [Next]_vars
        => ShapeInv' /\ GameInv' /\ PureInv' /\ CountInv'
  BY StepShape, StepGame, StepPure, StepCount
<1>4. Spec => []TicksSummarised
  BY <1>1, <1>2, <1>3, PTL DEF Spec
<1> QED
  BY <1>4, SummariesOfOneGame, PTL DEF TicksSummarisedOnce

HIDE SessionAssumptions

-----------------------------------------------------------------------------
(* The session counter *)

USE SessionCounterAssumptions

\* The calls that have started and have not read the counters.
Unread == {b \in Agents : step[b] \in {"opened", "locked"}}

\* An ordinal that could still be reached by the calls in Unread is within the starts.
Affordable(v) == v + Cardinality(Unread) <= starts

\* A call that is past the open has an inode, and past the read a positive ordinal.
CallShape ==
    \A b \in Agents :
        /\ step[b] # "idle" => fd[b] \in Inodes
        /\ step[b] \in {"read", "tmp", "written", "renamed"} => ordinal[b] >= 1

OrdinalsAffordable ==
    /\ \A i \in Inodes : Affordable(content[i])
    /\ \A b \in Agents : Affordable(ordinal[b])

OrdinalsInv == CounterTypeOK /\ CallShape /\ OrdinalsAffordable

-----------------------------------------------------------------------------
(* Counting the calls *)

LEMMA UnreadFinite ==
  IsFiniteSet(Unread) /\ Cardinality(Unread) \in Nat
BY FS_Subset, FS_CardinalityType DEF Unread

\* A call that opens the file is one more.
LEMMA UnreadGrows ==
  ASSUME CounterTypeOK, NEW a \in Agents, step[a] = "idle", step' = [step EXCEPT ![a] = "opened"]
  PROVE  Cardinality(Unread') = Cardinality(Unread) + 1
<1>1. Unread' = Unread \cup {a} /\ a \notin Unread
  BY DEF Unread, CounterTypeOK
<1> QED
  BY <1>1, UnreadFinite, FS_AddElement

\* A call that reads the counters, gives up or is killed is one less if it was in
\* Unread; any step of a call past the read leaves the number as it is.
LEMMA UnreadShrinks ==
  ASSUME CounterTypeOK, NEW a \in Agents,
         NEW q \in {"idle", "read", "tmp", "written", "renamed"}, step' = [step EXCEPT ![a] = q]
  PROVE  /\ Cardinality(Unread') \in Nat
         /\ Cardinality(Unread') = IF a \in Unread THEN Cardinality(Unread) - 1
                                   ELSE Cardinality(Unread)
<1>1. Unread' = Unread \ {a}
  BY DEF Unread, CounterTypeOK
<1>2. IsFiniteSet(Unread') /\ Cardinality(Unread') =
          IF a \in Unread THEN Cardinality(Unread) - 1 ELSE Cardinality(Unread)
  BY <1>1, UnreadFinite, FS_RemoveElement
<1> QED
  BY <1>2, FS_CardinalityType

\* A call that ends leaves no more calls in Unread than there were.
LEMMA UnreadEnds ==
  ASSUME CounterTypeOK, NEW a \in Agents, step' = [step EXCEPT ![a] = "idle"]
  PROVE  Cardinality(Unread') <= Cardinality(Unread) /\ Cardinality(Unread') \in Nat
<1>1. /\ Cardinality(Unread') \in Nat
      /\ Cardinality(Unread') = IF a \in Unread THEN Cardinality(Unread) - 1
                                ELSE Cardinality(Unread)
  BY UnreadShrinks
<1> QED
  BY <1>1, UnreadFinite

\* While a call is in Unread, a session was started.
LEMMA UnreadStarted ==
  ASSUME OrdinalsInv, NEW a \in Agents
  PROVE  /\ Cardinality(Unread) <= starts
         /\ step[a] \in {"opened", "locked"} => Cardinality(Unread) >= 1
<1>1. Cardinality(Unread) <= starts
  BY UnreadFinite DEF OrdinalsInv, OrdinalsAffordable, Affordable, CounterTypeOK
<1>2. ASSUME a \in Unread PROVE Cardinality(Unread) >= 1
  <2>1. Unread # {}
    BY <1>2
  <2> QED
    BY <2>1, UnreadFinite, FS_EmptySet
<1> QED
  BY <1>1, <1>2 DEF Unread

-----------------------------------------------------------------------------
(* Ordinals stay within the starts, for any number of agents *)

LEMMA InitOrdinals ==
  ASSUME CounterInit
  PROVE  OrdinalsInv
<1>1. Unread = {}
  BY DEF CounterInit, Unread
<1>2. Cardinality(Unread) = 0
  BY <1>1, FS_EmptySet
<1>3. CounterTypeOK /\ CallShape
  BY DEF CounterInit, CounterTypeOK, CallShape
<1>4. OrdinalsAffordable
  BY <1>2 DEF CounterInit, OrdinalsAffordable, Affordable
<1> QED
  BY <1>3, <1>4 DEF OrdinalsInv

\* A step that adds no ordinal above the ones there were, and starts no call.
LEMMA ShapeKept ==
  ASSUME OrdinalsInv, CounterTypeOK', CallShape', starts' >= starts,
         Cardinality(Unread') <= Cardinality(Unread), Cardinality(Unread') \in Nat,
         \A i \in Inodes : content'[i] = content[i] \/ Affordable(content'[i])
                           \/ content'[i] = 0,
         \A b \in Agents : ordinal'[b] = ordinal[b], Agents # {}
  PROVE  OrdinalsInv'
<1>1. PICK a \in Agents : TRUE
  OBVIOUS
<1>2. Cardinality(Unread) \in Nat /\ Cardinality(Unread) <= starts
  BY <1>1, UnreadFinite, UnreadStarted
<1>3. starts \in Nat /\ starts' \in Nat
  BY DEF OrdinalsInv, CounterTypeOK
<1>4. ASSUME NEW i \in Inodes PROVE content'[i] + Cardinality(Unread') <= starts'
  <2>1. content[i] \in Nat /\ content'[i] \in Nat
    BY DEF OrdinalsInv, CounterTypeOK
  <2> QED
    BY <1>2, <1>3, <2>1 DEF OrdinalsInv, OrdinalsAffordable, Affordable
<1>5. ASSUME NEW b \in Agents PROVE ordinal'[b] + Cardinality(Unread') <= starts'
  <2>1. ordinal[b] \in Nat /\ ordinal'[b] = ordinal[b]
    BY DEF OrdinalsInv, CounterTypeOK
  <2> QED
    BY <1>2, <1>3, <2>1 DEF OrdinalsInv, OrdinalsAffordable, Affordable
<1> QED
  BY <1>4, <1>5 DEF OrdinalsInv, OrdinalsAffordable, Affordable

LEMMA OpenShape ==
  ASSUME OrdinalsInv, NEW a \in Agents, Open(a)
  PROVE  OrdinalsInv'
<1>1. /\ step[a] = "idle" /\ step' = [step EXCEPT ![a] = "opened"]
      /\ starts < MaxStarts /\ starts' = starts + 1
      /\ \E i \in Inodes : /\ path' = i /\ fd' = [fd EXCEPT ![a] = i]
                           /\ content' = content \/ content' = [content EXCEPT ![i] = 0]
      /\ UNCHANGED <<tmp, holder, out, ordinal, crashes, failed, returned>>
  BY DEF Open, Goes, Unused, Holding, OrdinalsInv, CounterTypeOK
<1>2. CounterTypeOK' /\ CallShape'
  <2>1. PICK i \in Inodes : /\ path' = i /\ fd' = [fd EXCEPT ![a] = i]
                            /\ content' = content \/ content' = [content EXCEPT ![i] = 0]
    BY <1>1
  <2>2. content' \in [Inodes -> 0..MaxStarts]
    BY <2>1 DEF OrdinalsInv, CounterTypeOK
  <2>3. fd' \in [Agents -> Inodes \cup {NoInode}] /\ \A b \in Agents : fd'[b] = IF b = a THEN i ELSE fd[b]
    BY <2>1 DEF OrdinalsInv, CounterTypeOK
  <2>4. starts' \in 0..MaxStarts /\ ordinal' \in [Agents -> 0..starts']
    BY <1>1 DEF OrdinalsInv, CounterTypeOK
  <2>5. CounterTypeOK'
    BY <1>1, <2>1, <2>2, <2>3, <2>4 DEF OrdinalsInv, CounterTypeOK
  <2>6. CallShape'
    BY <1>1, <2>3 DEF OrdinalsInv, CounterTypeOK, CallShape
  <2> QED
    BY <2>5, <2>6
<1>3. Cardinality(Unread') = Cardinality(Unread) + 1 /\ Cardinality(Unread) \in Nat
  BY <1>1, UnreadGrows, UnreadFinite DEF OrdinalsInv
<1>4. Cardinality(Unread) <= starts
  BY UnreadStarted
<1>5. \A i \in Inodes : content'[i] \in Nat /\ (content'[i] = content[i] \/ content'[i] = 0)
  <2>1. content \in [Inodes -> 0..MaxStarts]
    BY DEF OrdinalsInv, CounterTypeOK
  <2> QED
    BY <1>1, <2>1
<1>6. starts \in Nat /\ \A b \in Agents : ordinal[b] \in Nat
  BY DEF OrdinalsInv, CounterTypeOK
<1>7. OrdinalsAffordable'
  BY <1>1, <1>3, <1>4, <1>5, <1>6 DEF OrdinalsInv, OrdinalsAffordable, Affordable
<1> QED
  BY <1>2, <1>7 DEF OrdinalsInv

LEMMA ReadShape ==
  ASSUME OrdinalsInv, NEW a \in Agents, Read(a)
  PROVE  OrdinalsInv'
<1>1. /\ step[a] = "locked" /\ step' = [step EXCEPT ![a] = "read"]
      /\ ordinal' = [ordinal EXCEPT ![a] = content[fd[a]] + 1]
      /\ UNCHANGED <<path, tmp, content, holder, fd, out, starts, crashes, failed, returned>>
  BY DEF Read, Goes, disk, counterBounds
<1>2. fd[a] \in Inodes /\ content[fd[a]] \in Nat /\ starts \in Nat
  BY <1>1 DEF OrdinalsInv, CallShape, CounterTypeOK
<1>3. Cardinality(Unread') = Cardinality(Unread) - 1 /\ Cardinality(Unread) \in Nat
      /\ Cardinality(Unread) >= 1
  BY <1>1, UnreadShrinks, UnreadFinite, UnreadStarted DEF OrdinalsInv, Unread
<1>4. content[fd[a]] + Cardinality(Unread) <= starts
  BY <1>2 DEF OrdinalsInv, OrdinalsAffordable, Affordable
<1>5. CounterTypeOK' /\ CallShape'
  <2>1. content[fd[a]] + 1 \in 0..starts
    BY <1>2, <1>3, <1>4
  <2>2. ordinal' \in [Agents -> 0..starts]
    BY <1>1, <2>1 DEF OrdinalsInv, CounterTypeOK
  <2>3. CounterTypeOK'
    BY <1>1, <2>2 DEF OrdinalsInv, CounterTypeOK
  <2>4. CallShape'
    BY <1>1, <1>2 DEF OrdinalsInv, CounterTypeOK, CallShape
  <2> QED
    BY <2>3, <2>4
<1>6. \A i \in Inodes : content[i] \in Nat
  BY DEF OrdinalsInv, CounterTypeOK
<1>7. \A b \in Agents : ordinal[b] \in Nat /\ ordinal'[b] = IF b = a THEN content[fd[a]] + 1 ELSE ordinal[b]
  BY <1>1 DEF OrdinalsInv, CounterTypeOK
<1>8. OrdinalsAffordable'
  BY <1>1, <1>2, <1>3, <1>4, <1>6, <1>7 DEF OrdinalsInv, OrdinalsAffordable, Affordable
<1> QED
  BY <1>5, <1>8 DEF OrdinalsInv

\* The steps of a call that has read, and its end, when the history does not change.
LEMMA LaterShape ==
  ASSUME OrdinalsInv, NEW a \in Agents, 
         \/ Lock(a) \/ OpenTmp(a) \/ WriteTmp(a) \/ Rename(a) \/ SaveFails(a) \/ Crash(a)
  PROVE  OrdinalsInv'
<1>0. CounterTypeOK /\ CallShape /\ OrdinalsAffordable
  BY DEF OrdinalsInv
<1>1. CASE Lock(a)
  <2>1. /\ step[a] = "opened" /\ step' = [step EXCEPT ![a] = "locked"]
        /\ holder' = [holder EXCEPT ![fd[a]] = a]
        /\ UNCHANGED <<path, tmp, content, fd, out, ordinal, starts, crashes, failed, returned>>
    BY <1>1 DEF Lock, Goes, disk, counterBounds
  <2>2. CounterTypeOK' /\ CallShape'
    BY <1>0, <2>1 DEF CounterTypeOK, CallShape
  <2>3. Unread' = Unread
    BY <1>0, <2>1 DEF CounterTypeOK, Unread
  <2> QED
    BY <1>0, <2>1, <2>2, <2>3 DEF OrdinalsInv, OrdinalsAffordable, Affordable
<1>2. CASE OpenTmp(a)
  <2>1. /\ step[a] = "read" /\ step' = [step EXCEPT ![a] = "tmp"]
        /\ \E i \in Inodes : tmp' = i /\ content' = [content EXCEPT ![i] = 0]
                             /\ out' = [out EXCEPT ![a] = i]
        /\ UNCHANGED <<path, holder, fd, ordinal, starts, crashes, failed, returned>>
    BY <1>0, <1>2 DEF OpenTmp, Goes, Holding, Unused, CounterTypeOK, counterBounds
  <2>2. CounterTypeOK' /\ CallShape'
    BY <1>0, <2>1 DEF CounterTypeOK, CallShape
  <2>3. \A i \in Inodes : content'[i] = content[i] \/ content'[i] = 0
    BY <1>0, <2>1 DEF CounterTypeOK
  <2>4. Cardinality(Unread') = Cardinality(Unread) /\ Cardinality(Unread') \in Nat
    BY <1>0, <2>1, UnreadShrinks DEF Unread
  <2> QED
    BY <1>0, <2>1, <2>2, <2>3, <2>4, ShapeKept DEF CounterTypeOK
<1>3. CASE WriteTmp(a)
  <2>1. /\ step[a] = "tmp" /\ step' = [step EXCEPT ![a] = "written"]
        /\ content' = [content EXCEPT ![out[a]] = ordinal[a]]
        /\ UNCHANGED <<path, tmp, holder, fd, out, ordinal, starts, crashes, failed, returned>>
    BY <1>3 DEF WriteTmp, Goes, Holding, counterBounds
  <2>2. ordinal[a] \in 0..starts /\ starts \in 0..MaxStarts /\ ordinal[a] \in 0..MaxStarts
    BY <1>0 DEF CounterTypeOK
  <2>3. content' \in [Inodes -> 0..MaxStarts]
    BY <1>0, <2>1, <2>2 DEF CounterTypeOK
  <2>4. CounterTypeOK' /\ CallShape'
    BY <1>0, <2>1, <2>3 DEF CounterTypeOK, CallShape
  <2>5. \A i \in Inodes : content'[i] = content[i] \/ content'[i] = ordinal[a]
    BY <1>0, <2>1 DEF CounterTypeOK
  <2>6. Affordable(ordinal[a])
    BY <1>0 DEF OrdinalsAffordable
  <2>7. Cardinality(Unread') = Cardinality(Unread) /\ Cardinality(Unread') \in Nat
    BY <1>0, <2>1, UnreadShrinks DEF Unread
  <2> QED
    BY <1>0, <2>1, <2>4, <2>5, <2>6, <2>7, ShapeKept DEF CounterTypeOK
<1>4. CASE Rename(a) \/ SaveFails(a)
  <2>1. /\ step[a] \in {"read", "tmp", "written"} /\ step' = [step EXCEPT ![a] = "renamed"]
        /\ path' \in Inodes \cup {NoInode} /\ tmp' \in Inodes \cup {NoInode}
        /\ failed' \in 0..MaxFailed
        /\ UNCHANGED <<content, holder, fd, out, ordinal, starts, crashes, returned>>
    BY <1>0, <1>4 DEF Rename, SaveFails, Goes, counterBounds, disk, CounterTypeOK
  <2>2. CounterTypeOK' /\ CallShape'
    BY <1>0, <2>1 DEF CounterTypeOK, CallShape
  <2>3. Cardinality(Unread') = Cardinality(Unread) /\ Cardinality(Unread') \in Nat
    BY <1>0, <2>1, UnreadShrinks DEF Unread
  <2> QED
    BY <1>0, <2>1, <2>2, <2>3, ShapeKept DEF CounterTypeOK
<1>5. CASE Crash(a)
  <2>1. /\ step' = [step EXCEPT ![a] = "idle"] /\ crashes' \in 0..MaxCrashes
        /\ holder' = [i \in Inodes |-> IF holder[i] = a THEN NoInode ELSE holder[i]]
        /\ fd' = [fd EXCEPT ![a] = NoInode] /\ out' = [out EXCEPT ![a] = NoInode]
        /\ UNCHANGED <<path, tmp, content, ordinal, starts, failed, returned>>
    BY <1>0, <1>5 DEF Crash, Released, Goes, disk, CounterTypeOK
  <2>2. CounterTypeOK' /\ CallShape'
    BY <1>0, <2>1 DEF CounterTypeOK, CallShape
  <2>3. Cardinality(Unread') <= Cardinality(Unread) /\ Cardinality(Unread') \in Nat
    BY <1>0, <2>1, UnreadEnds
  <2> QED
    BY <1>0, <2>1, <2>2, <2>3, ShapeKept DEF CounterTypeOK
<1> QED
  BY <1>1, <1>2, <1>3, <1>4, <1>5

\* The two ways a call returns an ordinal.
LEMMA ReturnShape ==
  ASSUME OrdinalsInv, NEW a \in Agents, Return(a) \/ GiveUp(a)
  PROVE  OrdinalsInv'
<1>0. CounterTypeOK /\ CallShape /\ OrdinalsAffordable
  BY DEF OrdinalsInv
<1>1. /\ step' = [step EXCEPT ![a] = "idle"] 
      /\ holder' = [i \in Inodes |-> IF holder[i] = a THEN NoInode ELSE holder[i]]
      /\ fd' = [fd EXCEPT ![a] = NoInode] /\ out' = [out EXCEPT ![a] = NoInode]
      /\ starts' \in 0..MaxStarts /\ starts' >= starts /\ failed' \in 0..MaxFailed
      /\ UNCHANGED <<path, tmp, content, ordinal, crashes>>
  BY <1>0, SMTT(30) DEF Return, GiveUp, Released, Goes, disk, counterBounds, CounterTypeOK
<1>2. \E k \in 1..MaxStarts : returned' = [returned EXCEPT ![k] = @ + 1]
  <2>1. CASE Return(a)
    <3>1. ordinal[a] \in 1..MaxStarts
      BY <1>0, <2>1 DEF Return, CounterTypeOK, CallShape
    <3> QED
      BY <2>1, <3>1 DEF Return
  <2>2. CASE GiveUp(a)
    <3>1. 1 \in 1..MaxStarts
      BY <1>0, <2>2, UnreadStarted, UnreadFinite DEF GiveUp, CounterTypeOK
    <3>2. returned' = [returned EXCEPT ![1] = @ + 1]
      BY <2>2 DEF GiveUp
    <3> WITNESS 1 \in 1..MaxStarts
    <3> QED
      BY <3>2
  <2> QED
    BY <2>1, <2>2
<1>3. returned' \in [1..MaxStarts -> Nat]
  BY <1>0, <1>2 DEF CounterTypeOK
<1>4. ordinal' \in [Agents -> 0..starts']
  BY <1>0, <1>1 DEF CounterTypeOK
<1>5. CounterTypeOK'
  BY <1>0, <1>1, <1>3, <1>4 DEF CounterTypeOK
<1>6. CallShape'
  BY <1>0, <1>1 DEF CounterTypeOK, CallShape
<1>7. Cardinality(Unread') <= Cardinality(Unread) /\ Cardinality(Unread') \in Nat
  BY <1>0, <1>1, UnreadEnds
<1> QED
  BY <1>0, <1>1, <1>5, <1>6, <1>7, ShapeKept DEF CounterTypeOK

LEMMA StepOrdinals ==
  ASSUME OrdinalsInv, [CounterNext]_counterVars
  PROVE  OrdinalsInv'
<1>1. CASE UNCHANGED counterVars
  BY <1>1 DEF counterVars, disk, counterBounds, OrdinalsInv, CounterTypeOK, CallShape, OrdinalsAffordable,
              Affordable, Unread
<1> QED
  BY <1>1, OpenShape, ReadShape, LaterShape, ReturnShape DEF CounterNext

LEMMA AlwaysOrdinals ==
  CounterSpec => []OrdinalsInv
<1>1. CounterInit => OrdinalsInv
  BY InitOrdinals
<1>2. OrdinalsInv /\ [CounterNext]_counterVars => OrdinalsInv'
  BY StepOrdinals
<1> QED
  BY <1>1, <1>2, PTL DEF CounterSpec

\* increment_counter_at: however many agents share the file, are killed or fail to
\* write it, no ordinal in it or computed from it exceeds the sessions started.
THEOREM OrdinalsWithinStarts ==
  CounterSpec => []CounterTypeOK
<1>1. CounterSpec => []OrdinalsInv
  BY AlwaysOrdinals
<1> QED
  BY <1>1, PTL DEF OrdinalsInv

-----------------------------------------------------------------------------
(* Distinct ordinals, for one agent *)

SingleAgent == \A a, b \in Agents : a = b

\* How far the files are when a call is at a given step.
CallProgress ==
    \A a \in Agents :
        /\ step[a] \in {"opened", "locked", "read", "tmp", "written"}
              => path # NoInode /\ fd[a] = path
        /\ step[a] \in {"read", "tmp", "written"} => ordinal[a] = content[path] + 1
        /\ step[a] \in {"tmp", "written"} => tmp # NoInode /\ out[a] = tmp
        /\ step[a] = "written" => content[tmp] = ordinal[a]

\* A call that is about to return has its ordinal in the file and is the first to.
RenamedIsNew ==
    failed = 0 => \A a \in Agents :
        step[a] = "renamed" => /\ path # NoInode /\ content[path] = ordinal[a]
                               /\ returned[ordinal[a]] = 0

NamesDiffer == tmp # NoInode => tmp # path

OneInv ==
    CallProgress /\ RenamedIsNew /\ NamesDiffer /\ OrdinalsUnique /\ FileCountsAll

LEMMA InitOne == CounterInit => OneInv
BY DEF CounterInit, OneInv, CallProgress, RenamedIsNew, NamesDiffer, OrdinalsUnique, FileCountsAll

LEMMA OpenOne ==
  ASSUME SingleAgent, OrdinalsInv, OneInv, NEW a \in Agents, Open(a)
  PROVE  OneInv'
<1>0. CounterTypeOK /\ CallProgress /\ RenamedIsNew /\ NamesDiffer /\ OrdinalsUnique /\ FileCountsAll
  BY DEF OrdinalsInv, OneInv
<1>1. /\ step[a] = "idle" /\ step' = [step EXCEPT ![a] = "opened"]
      /\ \E i \in Inodes : 
            /\ path' = i /\ fd' = [fd EXCEPT ![a] = i]
            /\ \/ content' = content /\ path = i
               \/ path = NoInode /\ i # tmp /\ content' = [content EXCEPT ![i] = 0]
      /\ UNCHANGED <<tmp, ordinal, failed, returned>>
  BY <1>0 DEF Open, Goes, Unused, Holding, CounterTypeOK
<1>2. step'[a] = "opened" /\ \A b \in Agents : b = a
  BY <1>0, <1>1 DEF CounterTypeOK, SingleAgent
<1>3. CallProgress' /\ RenamedIsNew' /\ NamesDiffer'
  BY <1>0, <1>1, <1>2 DEF CallProgress, RenamedIsNew, NamesDiffer, CounterTypeOK
<1>4. OrdinalsUnique'
  BY <1>0, <1>1 DEF OrdinalsUnique
<1>5. FileCountsAll'
  BY <1>0, <1>1 DEF FileCountsAll
<1> QED
  BY <1>3, <1>4, <1>5 DEF OneInv

LEMMA TmpOne ==
  ASSUME SingleAgent, OrdinalsInv, OneInv, NEW a \in Agents, OpenTmp(a) \/ WriteTmp(a)
  PROVE  OneInv'
<1>0. CounterTypeOK /\ CallProgress /\ RenamedIsNew /\ NamesDiffer /\ OrdinalsUnique /\ FileCountsAll
  BY DEF OrdinalsInv, OneInv
<1>1. PICK q \in {"tmp", "written"} :
      /\ step[a] \in {"read", "tmp"} /\ step' = [step EXCEPT ![a] = q]
      /\ \E v \in Nat, i \in Inodes : 
            /\ tmp' = i /\ i # path /\ out'[a] = i /\ content' = [content EXCEPT ![i] = v]
            /\ q = "written" => v = ordinal[a]
      /\ UNCHANGED <<path, fd, ordinal, failed, returned>>
  <2>1. CASE OpenTmp(a)
    BY <1>0, <2>1 DEF OpenTmp, Goes, Holding, Unused, CounterTypeOK, NamesDiffer, counterBounds
  <2>2. CASE WriteTmp(a)
    <3>1. /\ step[a] = "tmp" /\ step' = [step EXCEPT ![a] = "written"]
          /\ content' = [content EXCEPT ![out[a]] = ordinal[a]]
          /\ UNCHANGED <<path, tmp, fd, out, ordinal, failed, returned>>
      BY <2>2 DEF WriteTmp, Goes, Holding, counterBounds
    <3>2. tmp \in Inodes /\ tmp # path /\ out[a] = tmp /\ ordinal[a] \in Nat
      BY <1>0, <3>1 DEF CounterTypeOK, NamesDiffer, CallProgress
    <3> QED
      BY <3>1, <3>2
  <2> QED
    BY <2>1, <2>2
<1>2. step'[a] = q /\ (\A b \in Agents : b = a) /\ path \in Inodes /\ fd[a] = path
      /\ content'[path] = content[path] /\ ordinal[a] = content[path] + 1 /\ NamesDiffer'
  BY <1>0, <1>1 DEF CounterTypeOK, SingleAgent, CallProgress, NamesDiffer
<1>3. q = "written" => content'[tmp'] = ordinal[a]
  BY <1>0, <1>1 DEF CounterTypeOK
<1>4. CallProgress' /\ RenamedIsNew'
  BY <1>0, <1>1, <1>2, <1>3 DEF CallProgress, RenamedIsNew, CounterTypeOK
<1>5. OrdinalsUnique' /\ FileCountsAll'
  BY <1>0, <1>1, <1>2 DEF OrdinalsUnique, FileCountsAll
<1> QED
  BY <1>2, <1>4, <1>5 DEF OneInv

LEMMA RenameOne ==
  ASSUME SingleAgent, OrdinalsInv, OneInv, NEW a \in Agents, Rename(a)
  PROVE  OneInv'
<1>0. CounterTypeOK /\ CallProgress /\ RenamedIsNew /\ NamesDiffer /\ OrdinalsUnique /\ FileCountsAll
  BY DEF OrdinalsInv, OneInv
<1>1. /\ step[a] = "written" /\ step' = [step EXCEPT ![a] = "renamed"]
      /\ path' = tmp /\ tmp' = NoInode
      /\ UNCHANGED <<content, ordinal, failed, returned>>
  BY <1>0 DEF Rename, Goes, CallProgress, counterBounds
<1>2. step'[a] = "renamed" /\ (\A b \in Agents : b = a) /\ path \in Inodes /\ tmp \in Inodes
      /\ content[tmp] = ordinal[a] /\ ordinal[a] = content[path] + 1 /\ content[path] \in Nat
  BY <1>0, <1>1 DEF CounterTypeOK, SingleAgent, CallProgress
<1>3. OrdinalsInv'
  BY LaterShape
<1>4. ordinal[a] \in 1..MaxStarts
  BY <1>1, <1>2, <1>3 DEF OrdinalsInv, CallShape, CounterTypeOK
<1>5. failed = 0 => returned[ordinal[a]] = 0
  BY <1>0, <1>2, <1>4 DEF FileCountsAll, CounterTypeOK
<1>6. CallProgress' /\ RenamedIsNew' /\ NamesDiffer'
  BY <1>0, <1>1, <1>2, <1>5 DEF CallProgress, RenamedIsNew, NamesDiffer, CounterTypeOK
<1>7. OrdinalsUnique' /\ FileCountsAll'
  BY <1>0, <1>1, <1>2 DEF OrdinalsUnique, FileCountsAll
<1> QED
  BY <1>6, <1>7 DEF OneInv

LEMMA ReturnOne ==
  ASSUME SingleAgent, OrdinalsInv, OneInv, NEW a \in Agents, Return(a)
  PROVE  OneInv'
<1>0. CounterTypeOK /\ CallProgress /\ RenamedIsNew /\ NamesDiffer /\ OrdinalsUnique /\ FileCountsAll
  BY DEF OrdinalsInv, OneInv
<1>1. /\ step[a] = "renamed" /\ step' = [step EXCEPT ![a] = "idle"]
      /\ returned' = [returned EXCEPT ![ordinal[a]] = @ + 1]
      /\ UNCHANGED <<path, tmp, content, ordinal, failed>>
  BY DEF Return, Released, Goes, disk, counterBounds
<1>2. step'[a] = "idle" /\ (\A b \in Agents : b = a)
  BY <1>0, <1>1 DEF CounterTypeOK, SingleAgent
<1>3. CallProgress' /\ RenamedIsNew' /\ NamesDiffer'
  BY <1>0, <1>1, <1>2 DEF CallProgress, RenamedIsNew, NamesDiffer, CounterTypeOK
<1>4. OrdinalsUnique'
  BY <1>0, <1>1 DEF OrdinalsUnique, RenamedIsNew, CounterTypeOK
<1>5. FileCountsAll'
  BY <1>0, <1>1 DEF FileCountsAll, RenamedIsNew, CounterTypeOK
<1> QED
  BY <1>3, <1>4, <1>5 DEF OneInv

LEMMA OtherOne ==
  ASSUME SingleAgent, OrdinalsInv, OneInv, NEW a \in Agents,
         Lock(a) \/ Read(a) \/ GiveUp(a) \/ SaveFails(a) \/ Crash(a)
  PROVE  OneInv'
<1>0. CounterTypeOK /\ CallProgress /\ RenamedIsNew /\ NamesDiffer /\ OrdinalsUnique /\ FileCountsAll
  BY DEF OrdinalsInv, OneInv
<1>a. \A b \in Agents : b = a
  BY DEF SingleAgent
<1>1. CASE Lock(a)
  <2>1. /\ step[a] = "opened" /\ step' = [step EXCEPT ![a] = "locked"] /\ step'[a] = "locked"
        /\ UNCHANGED <<path, tmp, content, fd, out, ordinal, failed, returned>>
    BY <1>0, <1>1 DEF Lock, Goes, disk, counterBounds, CounterTypeOK
  <2> QED
    BY <1>0, <1>a, <2>1 DEF OneInv, CallProgress, RenamedIsNew, NamesDiffer,
                            OrdinalsUnique, FileCountsAll
<1>2. CASE Read(a)
  <2>1. /\ step[a] = "locked" /\ step'[a] = "read" /\ ordinal'[a] = content[fd[a]] + 1
        /\ UNCHANGED <<path, tmp, content, fd, out, failed, returned>>
    BY <1>0, <1>2 DEF Read, Goes, disk, counterBounds, CounterTypeOK
  <2> QED
    BY <1>0, <1>a, <2>1 DEF OneInv, CallProgress, RenamedIsNew, NamesDiffer,
                            OrdinalsUnique, FileCountsAll
<1>3. CASE GiveUp(a) \/ SaveFails(a)
  <2>1. /\ step'[a] \in {"idle", "renamed"} /\ failed' # 0
        /\ UNCHANGED <<path, tmp, content>>
    BY <1>0, <1>3 DEF GiveUp, SaveFails, Released, Goes, disk, CounterTypeOK
  <2> QED
    BY <1>0, <1>a, <2>1 DEF OneInv, CallProgress, RenamedIsNew, NamesDiffer,
                            OrdinalsUnique, FileCountsAll
<1>4. CASE Crash(a)
  <2>1. step'[a] = "idle" /\ UNCHANGED <<path, tmp, content, ordinal, failed, returned>>
    BY <1>0, <1>4 DEF Crash, Released, Goes, disk, CounterTypeOK
  <2> QED
    BY <1>0, <1>a, <2>1 DEF OneInv, CallProgress, RenamedIsNew, NamesDiffer,
                            OrdinalsUnique, FileCountsAll
<1> QED
  BY <1>1, <1>2, <1>3, <1>4

LEMMA StepOne ==
  ASSUME SingleAgent
  PROVE  OrdinalsInv /\ OneInv /\ [CounterNext]_counterVars => OneInv'
<1> SUFFICES ASSUME OrdinalsInv, OneInv, [CounterNext]_counterVars PROVE OneInv'
    OBVIOUS
<1>1. CASE UNCHANGED counterVars
  BY <1>1 DEF counterVars, disk, counterBounds, OneInv, CallProgress, RenamedIsNew, NamesDiffer,
              OrdinalsUnique, FileCountsAll
<1> QED
  BY <1>1, OpenOne, TmpOne, RenameOne, ReturnOne, OtherOne DEF CounterNext

\* increment_counter_at, with one agent on the state directory: whenever it is
\* killed, no ordinal is returned twice and the file counts every ordinal returned,
\* as long as no file operation fails; and the ordinals never exceed the starts.
THEOREM CounterCorrect ==
  ASSUME SingleAgent
  PROVE  CounterSpec => []CounterInv
<1>1. OneInv /\ OrdinalsInv => CounterInv
  BY DEF OneInv, OrdinalsInv, CounterInv
<1>2. OrdinalsInv /\ OneInv /\ [CounterNext]_counterVars => OneInv'
  BY StepOne
<1>3. CounterInit => OneInv
  BY InitOne
<1>4. CounterSpec => []OrdinalsInv
  BY AlwaysOrdinals
<1> QED
  BY <1>1, <1>2, <1>3, <1>4, PTL DEF CounterSpec

HIDE SessionCounterAssumptions

-----------------------------------------------------------------------------
(* The delivery health tracker *)

\* record_failure sets last_spoke_unix to the second of the line it decides.
SaidIsLastSpoke == last_spoke = IF said = Never THEN Never ELSE said.at

\* A task reads the clock before the tracker sees its failure, never after.
ReadsArePast == \A t \in Tasks : now[t].step <= steps

\* The failures without a line since the last line.
SilentNearLine ==
    \A s \in silent : /\ last_spoke # Never /\ s.step <= steps
                      /\ s.at >= last_spoke /\ s.at < last_spoke + Repeat

\* A line that was decided while no other was outstanding and announced an outage
\* was printed, or will be, with no recovery line to follow it.
LineOnItsWay ==
    ~crossed /\ outage = "announced" =>
        /\ \A t \in Tasks : task[t] # "recovered"
        /\ line = "failing" \/ \E t \in Tasks : task[t] = "failing"

TrackerInv ==
    /\ EsHealthTypeOK /\ SaidIsLastSpoke /\ ReadsArePast /\ SilentNearLine
    /\ RecoveryAnswersFailure /\ LineOnItsWay

-----------------------------------------------------------------------------
(* The tracker: its clock *)

\* now_unix_secs never returns a second outside the clock's range.
LEMMA NowType ==
  ASSUME EsHealthTypeOK
  PROVE  Now \in Second /\ Now.step = steps
BY EsHealthAssumptions DEF EsHealthTypeOK, Now, Second

-----------------------------------------------------------------------------
(* The tracker: its invariant *)

LEMMA InitTracker ==
  ASSUME EsHealthInit
  PROVE  TrackerInv
<1> USE EsHealthAssumptions
<1>1. Now = [at |-> 0, step |-> 0] /\ Now \in Second
  BY DEF EsHealthInit, Now, Second
<1>2. Never # 0 /\ Never # Now
  BY <1>1 DEF Second
<1>3. EsHealthTypeOK
  <2>1. clock \in -1..MaxClock /\ steps \in 0..MaxSteps
    BY DEF EsHealthInit
  <2>2. /\ outage \in {"none", "quiet", "announced"} /\ line \in {"none", "failing",
          "recovered"}
        /\ last_spoke \in 0..MaxClock \cup {Never} /\ said \in Second \cup {Never}
        /\ recoveries \in Nat
    BY <1>1 DEF EsHealthInit, Preflight
  <2>3. /\ task \in [Tasks -> {"shipping", "failed", "failing", "recovered"}]
        /\ now \in [Tasks -> Second] /\ silent \subseteq Second /\ crossed \in BOOLEAN
    BY <1>1 DEF EsHealthInit
  <2> QED
    BY <2>1, <2>2, <2>3 DEF EsHealthTypeOK
<1>4. SaidIsLastSpoke
  BY <1>1, <1>2 DEF EsHealthInit, Preflight, SaidIsLastSpoke
<1>5. ReadsArePast /\ SilentNearLine /\ RecoveryAnswersFailure /\ LineOnItsWay
  BY <1>1 DEF EsHealthInit, Preflight, ReadsArePast, SilentNearLine, RecoveryAnswersFailure,
              LineOnItsWay
<1> QED
  BY <1>3, <1>4, <1>5 DEF TrackerInv

\* A failure that is not due lies within Repeat seconds of the last line.
LEMMA NotDueIsNear ==
  ASSUME EsHealthTypeOK, NEW t \in Second, ~Due(t.at)
  PROVE  last_spoke # Never /\ t.at >= last_spoke /\ t.at < last_spoke + Repeat
BY EsHealthAssumptions DEF EsHealthTypeOK, Due, Second

LEMMA NoteFailureTracker ==
  ASSUME TrackerInv, NEW t \in Tasks, NoteFailure(t)
  PROVE  TrackerInv'
<1> USE EsHealthAssumptions
<1> DEFINE f == now[t]
<1>1. f \in Second /\ f.step <= steps /\ f # Never /\ f.at \in 0..MaxClock /\ f.at # Never
  BY DEF TrackerInv, EsHealthTypeOK, ReadsArePast, Second
<1>2. RecordFailure(f) /\ Decides(t, Due(f.at)) /\ UNCHANGED <<clock, steps, now,
        line>>
      /\ task' = [task EXCEPT ![t] = IF Due(f.at) THEN "failing" ELSE "shipping"]
  BY DEF NoteFailure, time
<1>3. CASE Due(f.at)
  <2>1. /\ last_spoke' = f.at /\ outage' = "announced" /\ said' = f
        /\ recoveries' = 0 /\ silent' = {}
        /\ task' = [task EXCEPT ![t] = "failing"]
        /\ crossed' = \E u \in Tasks \ {t} : task[u] \in {"failing", "recovered"}
    BY <1>2, <1>3 DEF RecordFailure, Decides
  <2> HIDE DEF f
  <2>2. EsHealthTypeOK'
    BY <1>1, <1>2, <2>1 DEF TrackerInv, EsHealthTypeOK
  <2>3. SaidIsLastSpoke' /\ ReadsArePast' /\ SilentNearLine' /\ RecoveryAnswersFailure'
    BY <1>1, <1>2, <2>1 DEF TrackerInv, SaidIsLastSpoke, ReadsArePast, SilentNearLine,
                            RecoveryAnswersFailure
  <2>4. LineOnItsWay'
    BY <1>2, <2>1 DEF TrackerInv, EsHealthTypeOK, LineOnItsWay
  <2> QED
    BY <2>2, <2>3, <2>4 DEF TrackerInv
<1>4. CASE ~Due(f.at)
  <2>1. /\ UNCHANGED <<last_spoke, said, recoveries, crossed>>
        /\ outage' = IF outage = "none" THEN "quiet" ELSE outage
        /\ silent' = silent \cup {f}
        /\ task' = [task EXCEPT ![t] = "shipping"]
    BY <1>2, <1>4 DEF RecordFailure, Decides
  <2>2. last_spoke # Never /\ f.at >= last_spoke /\ f.at < last_spoke + Repeat
    BY <1>1, <1>4, NotDueIsNear DEF TrackerInv
  <2>a. task[t] = "failed"
    BY DEF NoteFailure
  <2> HIDE DEF f
  <2>3. EsHealthTypeOK'
    BY <1>1, <1>2, <2>1 DEF TrackerInv, EsHealthTypeOK
  <2>4. SaidIsLastSpoke' /\ ReadsArePast' /\ SilentNearLine' /\ RecoveryAnswersFailure'
    BY <1>1, <1>2, <2>1, <2>2 DEF TrackerInv, SaidIsLastSpoke, ReadsArePast, SilentNearLine,
                                  RecoveryAnswersFailure
  <2>5. LineOnItsWay'
    BY <1>2, <2>1, <2>a DEF TrackerInv, EsHealthTypeOK, LineOnItsWay
  <2> QED
    BY <2>3, <2>4, <2>5 DEF TrackerInv
<1> QED
  BY <1>3, <1>4

LEMMA NoteSuccessTracker ==
  ASSUME TrackerInv, NEW t \in Tasks, NoteSuccess(t)
  PROVE  TrackerInv'
<1>1. /\ outage' = "none" /\ UNCHANGED <<clock, steps, now, line, last_spoke, said, silent>>
      /\ recoveries' = IF outage = "announced" THEN recoveries + 1 ELSE recoveries
      /\ task' = [task EXCEPT ![t] = IF outage = "announced" THEN "recovered" ELSE "shipping"]
      /\ crossed' \in BOOLEAN
  BY DEF NoteSuccess, RecordSuccess, Decides, time, TrackerInv, EsHealthTypeOK
<1>2. EsHealthTypeOK'
  BY <1>1 DEF TrackerInv, EsHealthTypeOK
<1>3. SaidIsLastSpoke' /\ ReadsArePast' /\ SilentNearLine' /\ LineOnItsWay'
  BY <1>1 DEF TrackerInv, SaidIsLastSpoke, ReadsArePast, SilentNearLine, LineOnItsWay
<1>4. RecoveryAnswersFailure'
  BY <1>1 DEF TrackerInv, RecoveryAnswersFailure
<1> QED
  BY <1>2, <1>3, <1>4 DEF TrackerInv

LEMMA StepTracker ==
  ASSUME TrackerInv, [EsHealthNext]_healthVars
  PROVE  TrackerInv'
<1> USE EsHealthAssumptions
<1>1. CASE Tick
  <2>1. EsHealthTypeOK'
    BY <1>1 DEF Tick, TrackerInv, EsHealthTypeOK, tracker, decided
  <2> QED
    BY <1>1, <2>1 DEF Tick, TrackerInv, tracker, decided, SaidIsLastSpoke,
            ReadsArePast,
                      SilentNearLine, RecoveryAnswersFailure, LineOnItsWay
<1>2. CASE StepBack
  <2>1. EsHealthTypeOK'
    BY <1>2 DEF StepBack, TrackerInv, EsHealthTypeOK, tracker, decided
  <2>2. ReadsArePast'
    BY <1>2 DEF StepBack, TrackerInv, EsHealthTypeOK, ReadsArePast, Second
  <2>3. SilentNearLine'
    BY <1>2 DEF StepBack, TrackerInv, EsHealthTypeOK, SilentNearLine, tracker, decided,
            Second
  <2> QED
    BY <1>2, <2>1, <2>2, <2>3 DEF StepBack, TrackerInv, tracker, decided,
            SaidIsLastSpoke,
                                  RecoveryAnswersFailure, LineOnItsWay
<1>3. ASSUME NEW t \in Tasks, Fails(t)
      PROVE  TrackerInv'
  <2>1. /\ UNCHANGED <<clock, steps, outage, last_spoke, line, said, recoveries, silent,
          crossed>>
        /\ task[t] = "shipping" /\ task' = [task EXCEPT ![t] = "failed"]
        /\ now' = [now EXCEPT ![t] = Now]
    BY <1>3 DEF Fails, time, tracker, decided
  <2>2. EsHealthTypeOK'
    BY <2>1, NowType DEF TrackerInv, EsHealthTypeOK
  <2>3. ReadsArePast'
    BY <2>1, NowType DEF TrackerInv, EsHealthTypeOK, ReadsArePast
  <2>4. LineOnItsWay'
    BY <2>1 DEF TrackerInv, EsHealthTypeOK, LineOnItsWay
  <2> QED
    BY <2>1, <2>2, <2>3, <2>4 DEF TrackerInv, SaidIsLastSpoke, SilentNearLine,
                                  RecoveryAnswersFailure
<1>4. ASSUME NEW t \in Tasks, Say(t)
      PROVE  TrackerInv'
  <2>1. /\ UNCHANGED <<clock, steps, outage, last_spoke, now, said, recoveries, silent,
          crossed>>
        /\ task[t] \in {"failing", "recovered"} /\ task' = [task EXCEPT ![t] = "shipping"]
        /\ line' = task[t]
    BY <1>4 DEF Say, time, tracker, decided
  <2>2. EsHealthTypeOK'
    BY <2>1 DEF TrackerInv, EsHealthTypeOK
  <2>3. LineOnItsWay'
    BY <2>1 DEF TrackerInv, EsHealthTypeOK, LineOnItsWay
  <2> QED
    BY <2>1, <2>2, <2>3 DEF TrackerInv, SaidIsLastSpoke, ReadsArePast, SilentNearLine,
                            RecoveryAnswersFailure
<1>5. CASE UNCHANGED healthVars
  BY <1>5 DEF healthVars, time, tracker, decided, TrackerInv, EsHealthTypeOK,
          SaidIsLastSpoke, ReadsArePast,
              SilentNearLine, RecoveryAnswersFailure, LineOnItsWay
<1> QED
  BY <1>1, <1>2, <1>3, <1>4, <1>5, NoteFailureTracker, NoteSuccessTracker DEF EsHealthNext

LEMMA AlwaysTracker ==
  EsHealthSpec => []TrackerInv
<1>1. EsHealthInit => TrackerInv
  BY InitTracker
<1>2. TrackerInv /\ [EsHealthNext]_healthVars => TrackerInv'
  BY StepTracker
<1> QED
  BY <1>1, <1>2, PTL DEF EsHealthSpec

-----------------------------------------------------------------------------
(* The theorems about the tracker *)

\* EsDeliveryHealth: at every moment the tracker has its shape, each failure line
\* is answered by exactly one recovery line, and the operator's last line tells the
\* truth about an announced outage unless two printing tasks crossed.
THEOREM TrackerCorrect ==
  EsHealthSpec => []EsHealthInv
<1>1. TrackerInv => LastLineTrue
  BY DEF TrackerInv, LineOnItsWay, LastLineTrue, Settled
<1>2. TrackerInv => EsHealthInv
  BY <1>1 DEF TrackerInv, EsHealthInv
<1>3. EsHealthSpec => []TrackerInv
  BY AlwaysTracker
<1> QED
  BY <1>2, <1>3, PTL

\* record_failure: two failure lines decided after the same step of the clock are
\* Repeat seconds apart, or the second one's task read the clock first.
THEOREM FailureLinesSpaced ==
  EsHealthSpec => RateLimited
<1> DEFINE Spaced == said' # said /\ said # Never /\ said.step = said'.step
                       => said'.at - said.at >= Repeat \/ said'.at < said.at
<1>1. TrackerInv /\ [EsHealthNext]_healthVars => [Spaced]_healthVars
  <2> SUFFICES ASSUME TrackerInv, [EsHealthNext]_healthVars, said' # said, said # Never
               PROVE  said'.at - said.at >= Repeat \/ said'.at < said.at
      OBVIOUS
  <2>1. PICK t \in Tasks : NoteFailure(t)
    BY DEF EsHealthNext, Tick, StepBack, Fails, NoteSuccess, RecordSuccess, Say,
            decided, healthVars
  <2>2. Due(now[t].at) /\ said' = now[t]
    BY <2>1 DEF NoteFailure, RecordFailure
  <2>3. last_spoke = said.at /\ last_spoke # Never
    BY EsHealthAssumptions DEF TrackerInv, SaidIsLastSpoke, EsHealthTypeOK, Second
  <2> QED
    BY <2>2, <2>3 DEF Due
<1>2. EsHealthSpec => []TrackerInv
  BY AlwaysTracker
<1> QED
  BY <1>1, <1>2, PTL DEF EsHealthSpec, RateLimited

\* The failures without a line are at most Repeat seconds of each step of the clock.
LEMMA SilentBounded ==
  ASSUME TrackerInv
  PROVE  NeverSilenced
<1> USE EsHealthAssumptions
<1>0. Repeat \in Nat /\ steps \in Nat /\ Repeat * (steps + 1) \in Nat
  BY DEF TrackerInv, EsHealthTypeOK
<1>a. Cardinality(silent) = Cardinality(silent)
  BY DEF Cardinality, Cardinality, IsFiniteSet, IsFiniteSet
<1>1. CASE silent = {}
  BY <1>0, <1>a, <1>1, FS_EmptySet DEF NeverSilenced
<1>2. CASE silent # {}
  <2>1. last_spoke \in 0..MaxClock
    BY <1>2 DEF TrackerInv, SilentNearLine, EsHealthTypeOK
  <2> DEFINE near == last_spoke..(last_spoke + Repeat - 1)
             place == [s \in silent |-> <<s.at, s.step>>]
  <2>2. /\ IsFiniteSet(near) /\ Cardinality(near) = Repeat
        /\ IsFiniteSet(0..steps) /\ Cardinality(0..steps) = steps + 1
    <3>1. last_spoke + Repeat - 1 \in Int /\ last_spoke \in Int /\ ~(last_spoke > last_spoke + Repeat - 1)
      BY <1>0, <2>1
    <3> DEFINE b == last_spoke + Repeat - 1
    <3>2. IsFiniteSet(last_spoke..b) /\ Cardinality(last_spoke..b) = b - last_spoke + 1
      <4>1. b \in Int /\ last_spoke \in Int /\ ~(last_spoke > b)
        BY <3>1
      <4> HIDE DEF b
      <4> QED
        BY <4>1, FS_Interval
    <3>3. IsFiniteSet(0..steps) /\ Cardinality(0..steps) = steps + 1
      <4> DEFINE z == 0
      <4>1. z \in Int /\ steps \in Int /\ ~(z > steps)
        BY <1>0
      <4> HIDE DEF z
      <4>2. IsFiniteSet(z..steps) /\ Cardinality(z..steps) = steps - z + 1
        BY <4>1, FS_Interval
      <4> QED
        BY <1>0, <4>2 DEF z
    <3>4. b - last_spoke + 1 = Repeat
      BY <1>0, <2>1
    <3> QED
      BY <3>2, <3>3, <3>4
  <2>3. IsFiniteSet(near \X (0..steps)) /\ Cardinality(near \X (0..steps)) = Repeat * (steps + 1)
    <3> DEFINE all == 0..steps
    <3>1. /\ IsFiniteSet(near) /\ Cardinality(near) = Repeat
          /\ IsFiniteSet(all) /\ Cardinality(all) = steps + 1
      BY <2>2
    <3> HIDE DEF near, all
    <3>2. IsFiniteSet(near \X all) /\ Cardinality(near \X all) = Cardinality(near) * Cardinality(all)
      BY <3>1, FS_Product
    <3> QED
      BY <3>1, <3>2 DEF all
  <2>4. place \in Injection(silent, near \X (0..steps))
    <3>1. \A s \in silent : s.at \in near /\ s.step \in 0..steps
      BY <1>0, <2>1 DEF TrackerInv, SilentNearLine, EsHealthTypeOK, Second
    <3>2. \A s, u \in silent : s.at = u.at /\ s.step = u.step => s = u
      BY DEF TrackerInv, EsHealthTypeOK, Second
    <3> QED
      BY <3>1, <3>2 DEF Injection, IsInjective
  <2> QED
    BY <1>a, <2>3, <2>4, FS_Injection DEF NeverSilenced
<1> QED
  BY <1>1, <1>2

\* The backward-clock guard of record_failure: however far and however often the
\* clock steps back, an ongoing outage is not kept from the operator for longer
\* than Repeat seconds before and after each step.
THEOREM OutageNeverSilenced ==
  EsHealthSpec => []NeverSilenced
<1>1. TrackerInv => NeverSilenced
  BY SilentBounded
<1>2. EsHealthSpec => []TrackerInv
  BY AlwaysTracker
<1> QED
  BY <1>1, <1>2, PTL
=============================================================================
