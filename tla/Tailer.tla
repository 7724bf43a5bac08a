------------------------------- MODULE Tailer -------------------------------
(***************************************************************************)
(* The Steam Remote Play log tailer (src/src/remote_connections.rs) and    *)
(* the part of the main loop that ships its batches (src/src/main.rs).     *)
(*                                                                         *)
(* Steam appends lines to the log, rotates it, removes old files and may   *)
(* truncate it; every call of the tailer that looks at the log is a step,  *)
(* so Steam may act between a stat and the open that follows.  A batch is  *)
(* shipped to Elasticsearch under ids derived from where its lines are,    *)
(* and only then is the checkpoint made durable.                           *)
(*                                                                         *)
(* A line is an event or Junk (a line that yields no document).  Its text  *)
(* is one byte and its newline another, so a file with an unterminated     *)
(* line has an odd length.                                                 *)
(***************************************************************************)
EXTENDS Integers, Sequences, FiniteSets, Functions

CONSTANTS
    Inodes,        \* inode numbers of log files
    MaxLines,      \* how many lines Steam writes
    MaxGens,       \* how many log files Steam creates
    BatchLines,    \* MAX_BATCH_LINES
    Env,           \* what Steam may do besides writing and rotating
    Faults,        \* the calls of the agent that may fail
    MaxFaults, MaxCrashes,
    Junk, None

\* "race": rotate between a stat and the open that follows; "double": rotate
\* again before the tailer has reached the newest file; "torn": rotate with an
\* unterminated line; "remove": delete a rotated file; "truncate": truncate the
\* log and wait until the tailer has noticed.
EnvNames == {"race", "double", "torn", "remove", "truncate"}

ASSUME TailerAssumptions ==
    /\ MaxLines \in Nat /\ MaxGens \in Nat /\ BatchLines \in Nat \ {0}
    /\ Env \subseteq EnvNames /\ Faults \subseteq {"persist", "bulk"}
    /\ MaxFaults \in Nat /\ MaxCrashes \in Nat
    /\ Junk \notin Nat /\ None \notin Nat /\ Junk # None

Event == 1..MaxLines
Place == [ino : Inodes, off : Nat]
Token == [ino : Inodes, start : Nat, end : Nat]
Document == [ino : Inodes, off : Nat, event : Event]

ASSUME AbsentAssumption == None \notin Place /\ None \notin Token

VARIABLES
    gens,      \* the log files in the order of their creation
    written,   \* the lines Steam has begun
    pc,        \* where the main loop is
    state,     \* RemoteConnectionsTailer.state
    inflight,  \* RemoteConnectionsTailer.inflight
    current,   \* poll: the stat of the log path, its inode and length
    source,    \* poll: the file the batch is read from, and the inode it should have
    batch,     \* the envelopes handed to ship_documents
    disk,      \* stream-client-tail.json
    indexed,   \* Elasticsearch: the documents created, each with its id
    skipped,   \* events before the first checkpoint: there is no backfill
    gone,      \* events in files Steam removed or truncated
    faults, crashes

log == <<gens, written, gone>>
poll == <<current, source, batch>>
budget == <<faults, crashes>>
vars == <<log, pc, state, inflight, poll, disk, indexed, skipped, budget>>

-----------------------------------------------------------------------------
(* Log files *)

Length(f) == 2 * Len(f.lines) + (IF f.partial = None THEN 0 ELSE 1)
EventsIn(f) == (Range(f.lines) \cup {f.partial}) \ {Junk, None}

\* The file at the log path, the rotated files, and the file with an inode.
At(where) == {g \in DOMAIN gens : gens[g].at = where}
WithInode(i) == {g \in DOMAIN gens : gens[g].ino = i /\ gens[g].at # "gone"}

\* The complete lines a read from offset off finds: each with its offset, end
\* and event.  A read from the middle of a line finds its rest, which is Junk.
LinesFrom(f, off) ==
    [k \in 1..(Len(f.lines) - off \div 2) |->
        LET n == off \div 2 + k IN
        [off |-> IF k = 1 THEN off ELSE 2 * (n - 1), end |-> 2 * n,
         event |-> IF k = 1 /\ off % 2 = 1 THEN Junk ELSE f.lines[n]]]

-----------------------------------------------------------------------------
(* Steam *)

Polling == pc \in {"choose", "read"}

\* The tailer knows an offset the truncated log has not reached again.
Unnoticed(f) ==
    \E s \in {state, disk} \ {None} : s.ino = f.ino /\ s.off > Length(f)

StartLine ==
    /\ written < MaxLines
    /\ \E g \in At("log") : \E text \in {written + 1, Junk} :
         /\ gens[g].partial = None
         /\ ~Unnoticed(gens[g])
         /\ gens' = [gens EXCEPT ![g].partial = text]
    /\ written' = written + 1
    /\ UNCHANGED <<pc, state, inflight, poll, disk, indexed, skipped, gone, budget>>

EndLine ==
    /\ \E g \in At("log") :
         /\ gens[g].partial # None
         /\ gens' = [gens EXCEPT ![g].lines = Append(@, gens[g].partial), ![g].partial = None]
    /\ UNCHANGED <<written, pc, state, inflight, poll, disk, indexed, skipped, gone, budget>>

Create ==
    /\ At("log") = {}
    /\ Len(gens) < MaxGens
    /\ \E i \in Inodes \ {gens[g].ino : g \in DOMAIN gens} :
         gens' = Append(gens, [ino |-> i, lines |-> <<>>, partial |-> None, at |-> "log"])
    /\ UNCHANGED <<written, pc, state, inflight, poll, disk, indexed, skipped, gone, budget>>

\* Whether the tailer, running or restarted, would start from file g.
Reached(g) == \A s \in {state, disk} \ {None} : s.ino = gens[g].ino

Rotate ==
    /\ "race" \in Env \/ ~Polling
    /\ Len(gens) < MaxGens
    /\ \E g \in At("log") :
         /\ "torn" \in Env \/ gens[g].partial = None
         /\ "double" \in Env \/ Reached(g)
         /\ gens' = [gens EXCEPT ![g].at = "rotated"]
    /\ UNCHANGED <<written, pc, state, inflight, poll, disk, indexed, skipped, gone, budget>>

Remove ==
    /\ "remove" \in Env
    /\ \E g \in At("rotated") :
         /\ gens' = [gens EXCEPT ![g].at = "gone"]
         /\ gone' = gone \cup EventsIn(gens[g])
    /\ UNCHANGED <<written, pc, state, inflight, poll, disk, indexed, skipped, budget>>

Truncate ==
    /\ "truncate" \in Env
    /\ ~Polling /\ inflight = None
    /\ \E g \in At("log") :
         /\ gens' = [gens EXCEPT ![g].lines = <<>>, ![g].partial = None]
         /\ gone' = gone \cup EventsIn(gens[g])
    /\ UNCHANGED <<written, pc, state, inflight, poll, disk, indexed, skipped, budget>>

Steam == StartLine \/ EndLine \/ Create \/ Rotate \/ Remove \/ Truncate

-----------------------------------------------------------------------------
(* The tailer *)

Fault(f) == f \in Faults /\ faults < MaxFaults /\ faults' = faults + 1 /\ UNCHANGED crashes

\* persist: written beside the checkpoint, renamed over it, directory synced.
Persisted(s) == disk' = s /\ UNCHANGED budget
\* The failure may come before or after the rename.
NotPersisted(s) == Fault("persist") /\ disk' \in {disk, s}

\* A poll that fails, or finds nothing, ends the tailer's part of the tick.
EndPoll == pc' = "tick" /\ current' = None /\ source' = None /\ batch' = {}

\* The next tick of the main loop.
Tick ==
    /\ pc = "tick"
    /\ inflight = None
    /\ pc' = "stat"
    /\ UNCHANGED <<log, state, inflight, poll, disk, indexed, skipped, budget>>

\* poll, first part: the stat of the log path, the first checkpoint, truncation.
PollStat ==
    /\ pc = "stat"
    /\ \/ /\ At("log") = {}
          /\ EndPoll
          /\ UNCHANGED <<state, disk, skipped, budget>>
       \/ \E g \in At("log") :
            /\ state = None
            /\ state' = [ino |-> gens[g].ino, off |-> Length(gens[g])]
            /\ skipped' = skipped \cup UNION {EventsIn(gens[h]) : h \in 1..g}
            /\ Persisted(state') \/ NotPersisted(state')
            /\ EndPoll
       \/ \E g \in At("log") :
            /\ state # None
            /\ ~(state.ino = gens[g].ino /\ Length(gens[g]) < state.off)
            /\ current' = [ino |-> gens[g].ino, off |-> Length(gens[g])]
            /\ pc' = "choose"
            /\ UNCHANGED <<state, source, batch, disk, skipped, budget>>
       \/ \E g \in At("log") :
            /\ state # None
            /\ state.ino = gens[g].ino /\ Length(gens[g]) < state.off
            /\ state' = [state EXCEPT !.off = 0]
            /\ \/ /\ Persisted(state')
                  /\ current' = [ino |-> gens[g].ino, off |-> Length(gens[g])]
                  /\ pc' = "choose"
                  /\ UNCHANGED <<source, batch>>
               \/ NotPersisted(state') /\ EndPoll
            /\ UNCHANGED skipped
    /\ UNCHANGED <<log, inflight, indexed>>

\* Mutant: the checkpoint has to pass the end.
DrainedStrict(f) == Length(f) < state.off

\* Mutant: the old generation counts as drained as soon as it is rotated.
DrainedAtOnce(f) == TRUE

\* The old generation is fully drained: the checkpoint has reached its end.
Drained(f) == Length(f) <= state.off

Found == {g \in At("rotated") : gens[g].ino = state.ino}

\* poll, second part: the source of the batch, or the change of generation.
PollChoose ==
    /\ pc = "choose"
    /\ \/ /\ state.ino = current.ino
          /\ source' = [at |-> "log", ino |-> state.ino]
          /\ pc' = "read"
          /\ UNCHANGED <<state, current, batch, disk, budget>>
       \/ /\ state.ino # current.ino
          /\ \E g \in Found :
               /\ ~Drained(gens[g])
               /\ source' = [at |-> "rotated", ino |-> state.ino]
          /\ pc' = "read"
          /\ UNCHANGED <<state, current, batch, disk, budget>>
       \/ /\ state.ino # current.ino
          /\ \E g \in Found : Drained(gens[g])
          /\ state' = [ino |-> current.ino, off |-> 0]
          /\ \/ Persisted(state') /\ pc' = "stat" /\ current' = None /\ UNCHANGED <<source, batch>>
             \/ NotPersisted(state') /\ EndPoll
       \/ /\ state.ino # current.ino
          /\ Found = {}
          /\ state' = [ino |-> current.ino, off |-> 0]
          /\ \/ /\ Persisted(state')
                /\ source' = [at |-> "log", ino |-> current.ino]
                /\ pc' = "read"
                /\ UNCHANGED <<current, batch>>
             \/ NotPersisted(state') /\ EndPoll
    /\ UNCHANGED <<log, inflight, indexed, skipped>>

\* The file the source's path names now.
Opened == IF source.at = "log" THEN At("log") ELSE Found

\* Mutant: the id is made from the inode at the log path.
BatchOfCurrent(ls) ==
    [docs |-> {[ino |-> current.ino, off |-> l.off, event |-> l.event] :
                 l \in {m \in Range(ls) : m.event # Junk}},
     end |-> ls[Len(ls)].end]

\* The envelopes of the lines read, each with the id of its place, and the end.
BatchOf(ls) ==
    [docs |-> {[ino |-> source.ino, off |-> l.off, event |-> l.event] :
                 l \in {m \in Range(ls) : m.event # Junk}},
     end |-> ls[Len(ls)].end]

\* read_batch: at most BatchLines complete lines from the checkpoint on.
PollRead ==
    /\ pc = "read"
    /\ \/ /\ Opened = {}
          /\ EndPoll
          /\ UNCHANGED <<state, inflight, disk, budget>>
       \/ \E g \in Opened :
            LET ls == LinesFrom(gens[g], state.off)
                read == SubSeq(ls, 1, IF Len(ls) < BatchLines THEN Len(ls) ELSE BatchLines)
                b == BatchOf(read)
            IN
            \/ /\ read = <<>>
               /\ EndPoll
               /\ UNCHANGED <<state, inflight, disk, budget>>
            \/ /\ read # <<>> /\ b.docs # {}
               /\ batch' = b.docs
               /\ inflight' = [ino |-> source.ino, start |-> state.off, end |-> b.end]
               /\ pc' = "ship"
               /\ UNCHANGED <<state, current, source, disk, budget>>
            \/ /\ read # <<>> /\ b.docs = {}
               /\ \/ state' = [state EXCEPT !.off = b.end] /\ Persisted(state')
                  \/ NotPersisted([state EXCEPT !.off = b.end]) /\ UNCHANGED state
               /\ EndPoll
               /\ UNCHANGED inflight
    /\ UNCHANGED <<log, indexed, skipped>>

\* ship_documents: every document is created or exists already, or the bulk
\* request fails with any part of it applied and nack releases the batch.
Ship ==
    /\ pc = "ship"
    /\ \/ /\ indexed' = indexed \cup batch
          /\ pc' = "ack"
          /\ UNCHANGED <<inflight, poll, budget>>
       \/ /\ Fault("bulk")
          /\ \E applied \in SUBSET batch : indexed' = indexed \cup applied
          /\ inflight' = None
          /\ EndPoll
    /\ UNCHANGED <<log, state, disk, skipped>>

\* Mutant: the offset is taken from the wrong end, less the newline.
AckedBefore == [state EXCEPT !.off = inflight.start - 1]

\* The checkpoint an acknowledgement writes.
Acked == [state EXCEPT !.off = inflight.end]

\* Mutant: the old offset is not restored.
AckUnrestored ==
    /\ pc = "ack"
    /\ state' = Acked
    /\ \/ Persisted(Acked) /\ inflight' = None
       \/ NotPersisted(Acked) /\ UNCHANGED inflight
    /\ EndPoll
    /\ UNCHANGED <<log, indexed, skipped>>

\* ack_success: on a failure the old offset is restored and the batch stays
\* in flight; the main loop only warns.
Ack ==
    /\ pc = "ack"
    /\ \/ /\ state' = Acked
          /\ Persisted(Acked)
          /\ inflight' = None
       \/ /\ NotPersisted(Acked)
          /\ UNCHANGED <<state, inflight>>
    /\ EndPoll
    /\ UNCHANGED <<log, indexed, skipped>>

Crash ==
    /\ pc # "down"
    /\ crashes < MaxCrashes
    /\ crashes' = crashes + 1
    /\ pc' = "down"
    /\ state' = None /\ inflight' = None
    /\ current' = None /\ source' = None /\ batch' = {}
    /\ UNCHANGED <<log, disk, indexed, skipped, faults>>

\* with_paths_and_key reads the checkpoint.
Start ==
    /\ pc = "down"
    /\ pc' = "tick"
    /\ state' = disk
    /\ UNCHANGED <<log, inflight, poll, disk, indexed, skipped, budget>>

-----------------------------------------------------------------------------

Init ==
    /\ gens = <<>> /\ written = 0 /\ gone = {}
    /\ pc = "down"
    /\ state = None /\ inflight = None
    /\ current = None /\ source = None /\ batch = {}
    /\ disk = None
    /\ indexed = {} /\ skipped = {}
    /\ faults = 0 /\ crashes = 0

Working == Start \/ Tick \/ PollStat \/ PollChoose \/ PollRead \/ Ship \/ Ack

Next == Steam \/ Working \/ Crash

Spec == Init /\ [][Next]_vars

\* The agent runs on and is restarted, and a rotated log is created again; the
\* failures are bounded, so Elasticsearch accepts a batch in the end.
FairSpec == Spec /\ WF_vars(Working) /\ WF_vars(Create)

-----------------------------------------------------------------------------
(* Properties *)

\* The shape of the log directory, of the tailer's fields and of the documents.
TypeOK ==
    /\ \A g \in DOMAIN gens :
         /\ gens[g].ino \in Inodes
         /\ gens[g].lines \in Seq(Event \cup {Junk})
         /\ gens[g].partial \in Event \cup {Junk, None}
         /\ gens[g].at \in {"log", "rotated", "gone"}
    /\ written \in 0..MaxLines
    /\ pc \in {"down", "tick", "stat", "choose", "read", "ship", "ack"}
    /\ {state, current, disk} \subseteq Place \cup {None}
    /\ source \in [at : {"log", "rotated"}, ino : Inodes] \cup {None}
    /\ inflight \in Token \cup {None}
    /\ batch \subseteq Document /\ indexed \subseteq Document
    /\ skipped \subseteq Event /\ gone \subseteq Event
    /\ faults \in Nat /\ crashes \in Nat

Delivered == {d.event : d \in indexed} \cup skipped \cup gone

\* The events a restart from the checkpoint would not read again.
Behind ==
    {e \in Event : \E h \in DOMAIN gens : \E n \in DOMAIN gens[h].lines :
        /\ gens[h].lines[n] = e
        /\ \E g \in DOMAIN gens : gens[g].ino = disk.ino /\ (h < g \/ (h = g /\ 2 * n <= disk.off))}

\* ack_success and poll: the durable checkpoint never passes an event that
\* Elasticsearch has not acknowledged, unless Steam destroyed it first.
CheckpointAcked == disk # None => Behind \subseteq Delivered

\* line_identity: a replay after a failed bulk, a lost acknowledgement or a crash
\* creates no second document for an event.
NoDuplicate == \A d, e \in indexed : d.event = e.event => d = e

\* ack_success: the batch in flight begins at the in-memory checkpoint, so its
\* acknowledgement is never refused.
InflightMatches == inflight # None => inflight.ino = state.ino /\ inflight.start = state.off

Complete == UNION {Range(gens[g].lines) : g \in DOMAIN gens} \ {Junk}

\* ack_success failed to write the checkpoint of a shipped batch: the batch stays
\* in flight and every later poll of this process returns nothing.
Wedged == pc = "tick" /\ inflight # None

\* poll, nack and the main loop: every complete event line is delivered, over
\* rotations, failed bulk requests and crashes, unless an acknowledgement whose
\* checkpoint could not be written has wedged the tailer.
EventuallyDelivered == \A e \in Event : (e \in Complete) ~> (e \in Delivered \/ Wedged)

\* What holds of the tailer at every moment, replays and crashes included: the shape
\* of its state, a batch in flight that its checkpoint will accept, and one identity
\* per delivered event.
TailerInv == TypeOK /\ InflightMatches /\ NoDuplicate
=============================================================================
