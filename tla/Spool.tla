------------------------------- MODULE Spool -------------------------------
(***************************************************************************)
(* The NDJSON spool of the agent (src/src/shipper.rs, SpoolWriter).        *)
(*                                                                         *)
(* One agent process holds the directory lock.  It appends records to one  *)
(* active file per dataset, publishes an active file by padding it,        *)
(* reserving a fresh name and renaming, and at start-up recovers what an   *)
(* earlier process left behind.  Every system call is a step, so a crash   *)
(* (SIGKILL, power cut after write-back) may fall between any two, and the *)
(* calls named in Faults may fail.                                         *)
(*                                                                         *)
(* A file is its set of terminated lines (the newest one apart, because    *)
(* padding rewrites it), its unterminated tail and its size.  A line is    *)
(* the sequence of record texts on it: it parses as JSON exactly when it   *)
(* holds one whole record; Torn is the prefix of a record.  A record and   *)
(* its newline are one byte each.                                          *)
(***************************************************************************)
EXTENDS Integers, Sequences, FiniteSets, Functions

CONSTANTS
    Slugs,          \* dataset slugs, one active file each
    Records,        \* documents; each is offered to write_docs at most once
    SlugOf,         \* the dataset of a document
    MaxFileBytes,   \* spool_max_file_bytes, 0 switches size rotation off
    AgeRotation,    \* whether spool_max_file_age_secs is non-zero
    MinPublished,   \* MIN_PUBLISHED_SPOOL_BYTES
    Millis,         \* values the wall clock may show
    MaxSeq,         \* stands for u32::MAX
    Faults,         \* the calls that may fail
    MaxFaults,      \* how many failures a behaviour contains, and how many clean-ups
                    \* whose own failure the code ignores
    MaxCrashes,     \* how many crashes a behaviour contains
    NL, Torn, None, NoFile

FaultNames == {"sweep", "stage", "reserve", "rename", "dispose", "open",
               "write", "newline", "torn", "flush", "pad", "reopen", "unlink"}

ASSUME SpoolAssumptions ==
    /\ SlugOf \in [Records -> Slugs]
    /\ MaxFileBytes \in Nat /\ MinPublished \in Nat \ {0}
    /\ AgeRotation \in BOOLEAN
    /\ MaxSeq \in Nat \ {0} /\ MaxFaults \in Nat /\ MaxCrashes \in Nat
    /\ Faults \subseteq FaultNames
    /\ NL \notin Records /\ Torn \notin Records /\ NL # Torn

Fragment == Records \cup {Torn}
Line == Seq(Fragment)
File == [rest : SUBSET Line, last : Line, tail : Line, size : Nat]
Buffer == Seq(Records \cup {NL})
Name == [slug : Slugs, ms : Millis, seq : 1..MaxSeq, ext : {"ndjson", "quarantine"}]

\* NoFile and None are outside the sets they complete.
ASSUME AbsentAssumptions == NoFile \notin File /\ None \notin Name

EmptyFile == [rest |-> {}, last |-> <<>>, tail |-> <<>>, size |-> 0]

VARIABLES
    tmp,        \* rigsignal-<slug>.ndjson.tmp, per slug
    files,      \* the finals and the quarantine files, by name
    stage,      \* the recovery staging file
    pc,         \* where the agent is
    why,        \* the operation under way
    slug,       \* the dataset it is at
    queue,      \* the datasets it has left
    todo, batch,\* write_docs: the documents left, and all of them
    target,     \* the final's name under reservation
    aside,      \* the quarantine name under reservation
    open,       \* the keys of SpoolWriter.spools
    buf,        \* the BufWriter's bytes not yet written to the active file
    bytes,      \* DatasetSpool.current_file_bytes
    seq,        \* SpoolWriter.next_seq
    offered,    \* records handed to write_docs
    accepted,   \* records of the batches write_docs returned Ok for
    pruned,     \* records in quarantine files that retention deleted
    interrupted,\* recovery stopped between publication and disposal
    faults, crashes,
    left        \* clean-ups after a failure that failed too, which the code ignores

work == <<why, slug, queue, todo, batch>>
job == <<work, target, aside>>
disk == <<tmp, files, stage>>
spools == <<open, buf, bytes>>
history == <<offered, accepted, pruned, interrupted>>
budget == <<faults, crashes, left>>
vars == <<disk, pc, job, spools, seq, history, budget>>

-----------------------------------------------------------------------------
(* Files *)

Lines(f) == f.rest \cup ({f.last} \ {<<>>})
Texts(l) == Range(l) \ {Torn}
RecordsOf(f) == UNION {Texts(l) : l \in Lines(f) \cup {f.tail}}
Valid(l) == Len(l) = 1 /\ l[1] # Torn

\* One write to a file.
Put(f, t) ==
    IF t = NL
      THEN [rest |-> f.rest \cup ({f.last} \ {<<>>}), last |-> f.tail, tail |-> <<>>, size |-> f.size + 1]
      ELSE [rest |-> f.rest, last |-> f.last, tail |-> Append(f.tail, t), size |-> f.size + 1]

\* pad_spool_final: the newline is cut off, then spaces and a newline follow.
Cut(f) == [rest |-> f.rest, last |-> <<>>, tail |-> f.last, size |-> f.size - 1]
Padded(f) == [rest |-> f.rest, last |-> f.tail, tail |-> <<>>, size |-> MinPublished]

Sized(f, n) == [rest |-> f.rest, last |-> f.last, tail |-> f.tail, size |-> n]

\* Mutant: the unterminated tail is staged like a line.
StageOfWithTail(f) ==
    [rest |-> {l \in Lines(f) : Valid(l)} \cup ({f.tail} \ {<<>>}), last |-> <<>>,
     tail |-> <<>>, size |-> MinPublished]

\* What recovery stages: the lines that parse, padded to the floor.
StageOf(f) == [rest |-> {l \in Lines(f) : Valid(l)}, last |-> <<>>, tail |-> <<>>,
               size |-> MinPublished]
\* Mutant: every source is taken for clean.
NeverDamaged(f) == FALSE

\* malformed or partial: the source must be kept.
Damaged(f) == f.tail # <<>> \/ \E l \in Lines(f) : ~Valid(l)

Finals == {n \in DOMAIN files : n.ext = "ndjson"}
Quarantines == {n \in DOMAIN files : n.ext = "quarantine"}

\* Mutant: nothing is removed.
RemoveNothing(S) == files
Without(S) == Restrict(files, DOMAIN files \ S)
With(n, f) == [m \in DOMAIN files \cup {n} |-> IF m = n THEN f ELSE files[m]]

\* Mutant: the name is taken whether it exists or not.
AnyNames(d, ext) ==
    {[slug |-> d, ms |-> ms, seq |-> seq, ext |-> ext] : ms \in Millis}

\* Mutant: the search starts one below next_seq.
NamesFromBelow(d, ext) ==
    {n \in {[slug |-> d, ms |-> ms, seq |-> seq - 1, ext |-> ext] : ms \in Millis} :
        n \notin DOMAIN files}

\* The name create_new settles on: the first free sequence number from seq on.
FreeNames(d, ext) ==
    {n \in {[slug |-> d, ms |-> ms, seq |-> k, ext |-> ext] : ms \in Millis, k \in seq..MaxSeq} :
        /\ n \notin DOMAIN files
        /\ \A j \in seq..(n.seq - 1) : [n EXCEPT !.seq = j] \in DOMAIN files}

NextSeq(k) == IF k = MaxSeq THEN MaxSeq ELSE k + 1

-----------------------------------------------------------------------------
(* The process *)

\* A new operation on these documents and these datasets.
NewJob(w, docs, slugs) ==
    /\ why' = w /\ slug' = None /\ queue' = slugs
    /\ todo' = docs /\ batch' = docs
    /\ target' = None /\ aside' = None
NoJob == NewJob("none", {}, {})

\* The operation turns to the next dataset of its queue.
Take(s) ==
    /\ slug' = s /\ queue' = queue \ {s}
    /\ target' = None /\ aside' = None
    /\ UNCHANGED <<why, todo, batch>>

Fails(f) == f \in Faults /\ faults < MaxFaults /\ faults' = faults + 1 /\ UNCHANGED crashes
Fault(f) == Fails(f) /\ UNCHANGED left

\* let _ = remove_file_if_exists(...): a removal that failed is not reported.
Ignored(failed) ==
    IF failed THEN "unlink" \in Faults /\ left < MaxFaults /\ left' = left + 1
              ELSE UNCHANGED left

\* The reserved names S are given up; gone are the files that could be removed.
Discard(S) ==
    \E gone \in SUBSET S :
        /\ files' = Without(gone)
        /\ Ignored(~(S \cap DOMAIN files \subseteq gone))

TornTmp(T) == [s \in Slugs |-> IF s \in T THEN Put(tmp[s], Torn) ELSE tmp[s]]

\* The process is gone: the lock is released and the memory is lost.
Gone ==
    /\ pc' = "down"
    /\ NoJob
    /\ open' = {}
    /\ buf' = [s \in Slugs |-> <<>>]
    /\ bytes' = [s \in Slugs |-> 0]
    /\ seq' = 1

\* A crash loses the buffers; a record that was being written may be torn.
Crash ==
    /\ pc # "down"
    /\ crashes < MaxCrashes
    /\ crashes' = crashes + 1
    /\ \E T \in SUBSET {s \in Slugs : buf[s] # <<>> /\ buf[s][1] # NL} : tmp' = TornTmp(T)
    /\ interrupted' = (interrupted \/ pc = "dispose")
    /\ Gone
    /\ UNCHANGED <<files, stage, offered, accepted, pruned, faults, left>>

\* SpoolWriter::new takes the lock; recovery runs before anything is opened.
Start ==
    /\ pc = "down"
    /\ pc' = "sweep"
    /\ UNCHANGED <<disk, job, spools, seq, history, budget>>

-----------------------------------------------------------------------------
(* Recovery *)

\* SpoolWriter::new returned an error: the agent exits.
GiveUp ==
    /\ Gone
    /\ UNCHANGED <<offered, accepted, pruned>>

\* cleanup_stages: the stage and the reserved names S are given up.
Abandon(S) ==
    \E gone \in SUBSET S, kept \in {NoFile, stage} :
        /\ files' = Without(gone)
        /\ stage' = kept
        /\ Ignored(~(S \cap DOMAIN files \subseteq gone) \/ kept # NoFile)

\* Mutant: recovery finds nothing.
StrandedNone == {}

\* The files recovery visits: every active file, whoever left it.
Stranded == {s \in Slugs : tmp[s] # NoFile}

\* The first pass of recover_stranded_files removes orphaned staging files.
Sweep ==
    /\ pc = "sweep"
    /\ \/ /\ stage' = NoFile
          /\ pc' = "scan"
          /\ NewJob("recover", {}, Stranded)
          /\ UNCHANGED <<tmp, files, spools, seq, history, budget>>
       \/ /\ Fault("sweep")
          /\ GiveUp
          /\ UNCHANGED <<disk, interrupted>>

\* The next stranded file is read; its valid lines are staged.
RecoverRead ==
    /\ pc = "scan"
    /\ \E s \in queue :
         LET staged == StageOf(tmp[s]) IN
         \/ /\ Lines(tmp[s]) = {} /\ tmp[s].tail = <<>>
            /\ Take(s)
            /\ UNCHANGED <<disk, pc, spools, seq, history, budget>>
         \/ /\ Lines(tmp[s]) # {} \/ tmp[s].tail # <<>>
            /\ stage' = IF staged.rest = {} THEN NoFile ELSE staged
            /\ Take(s)
            /\ pc' = "reserve"
            /\ UNCHANGED <<tmp, files, spools, seq, history, budget>>
         \/ /\ staged.rest # {}
            /\ Fault("stage")
            /\ \E part \in SUBSET staged.rest : stage' = [staged EXCEPT !.rest = part]
            /\ GiveUp
            /\ UNCHANGED <<tmp, files, interrupted>>

\* RecoveryPublisher::reserve: a damaged source gets a quarantine name first.
RecoverReserve ==
    /\ pc = "reserve"
    /\ \/ /\ Damaged(tmp[slug])
          /\ \E n \in FreeNames(slug, "quarantine") :
               /\ files' = With(n, EmptyFile)
               /\ aside' = n /\ UNCHANGED <<work, target>>
               /\ seq' = NextSeq(n.seq)
          /\ pc' = "claim"
          /\ UNCHANGED <<tmp, stage, spools, history, budget>>
       \/ /\ ~Damaged(tmp[slug])
          /\ pc' = "claim"
          /\ UNCHANGED <<disk, job, spools, seq, history, budget>>
       \/ /\ Damaged(tmp[slug])
          /\ Fails("reserve")
          /\ Abandon({})
          /\ GiveUp
          /\ UNCHANGED <<tmp, interrupted>>

\* RecoveryPublisher::publish, first half: the final's name is reserved.
RecoverClaim ==
    /\ pc = "claim"
    /\ \/ /\ stage = NoFile
          /\ pc' = "dispose"
          /\ UNCHANGED <<disk, job, spools, seq, history, budget>>
       \/ /\ stage # NoFile
          /\ \E n \in FreeNames(slug, "ndjson") :
               /\ files' = With(n, EmptyFile)
               /\ target' = n /\ UNCHANGED <<work, aside>>
               /\ seq' = n.seq
          /\ pc' = "publish"
          /\ UNCHANGED <<tmp, stage, spools, history, budget>>
       \/ /\ stage # NoFile
          /\ Fails("reserve")
          /\ Abandon({aside})
          /\ GiveUp
          /\ UNCHANGED <<tmp, interrupted>>

\* RecoveryPublisher::publish, second half: the stage is renamed over the name.
RecoverPublish ==
    /\ pc = "publish"
    /\ \/ /\ files' = With(target, stage)
          /\ stage' = NoFile
          /\ target' = None /\ UNCHANGED <<work, aside>>
          /\ seq' = NextSeq(target.seq)
          /\ pc' = "dispose"
          /\ UNCHANGED <<tmp, spools, history, budget>>
       \/ /\ Fails("rename")
          /\ Abandon({target, aside})
          /\ GiveUp
          /\ UNCHANGED <<tmp, interrupted>>

\* The source goes to quarantine, or is removed when every line was published.
RecoverDispose ==
    /\ pc = "dispose"
    /\ \/ /\ files' = IF aside = None THEN files ELSE With(aside, tmp[slug])
          /\ tmp' = [tmp EXCEPT ![slug] = NoFile]
          /\ aside' = None /\ UNCHANGED <<work, target>>
          /\ pc' = "scan"
          /\ UNCHANGED <<stage, spools, seq, history, budget>>
       \/ /\ Fails("dispose")
          /\ Discard({aside})
          /\ interrupted' = TRUE
          /\ GiveUp
          /\ UNCHANGED <<tmp, stage>>

RecoverDone ==
    /\ pc = "scan"
    /\ queue = {}
    /\ pc' = "idle"
    /\ NoJob
    /\ UNCHANGED <<disk, spools, seq, history, budget>>

-----------------------------------------------------------------------------
(* write_docs *)

BeginBatch ==
    /\ pc = "idle"
    /\ \E docs \in SUBSET (Records \ offered) :
         /\ docs # {}
         /\ offered' = offered \cup docs
         /\ NewJob("batch", docs, {})
    /\ pc' = "group"
    /\ UNCHANGED <<disk, spools, seq, accepted, pruned, interrupted, budget>>

\* An error leaves write_docs: the rest of the batch is dropped.
Abort == pc' = "idle" /\ NoJob

\* DatasetSpool::new creates the active file or truncates it.
OpenFresh(s) ==
    /\ tmp' = [tmp EXCEPT ![s] = EmptyFile]
    /\ open' = open \cup {s}
    /\ buf' = [buf EXCEPT ![s] = <<>>]
    /\ bytes' = [bytes EXCEPT ![s] = 0]

\* The next group of the batch: ensure_spool.
EnsureSpool ==
    /\ pc = "group"
    /\ \E s \in {SlugOf[r] : r \in todo} :
         \/ /\ IF s \in open THEN UNCHANGED <<tmp, spools>> ELSE OpenFresh(s)
            /\ slug' = s /\ UNCHANGED <<why, queue, todo, batch, target, aside>>
            /\ pc' = "doc"
            /\ UNCHANGED budget
         \/ /\ s \notin open
            /\ Fault("open")
            /\ Abort
            /\ UNCHANGED <<tmp, spools>>
    /\ UNCHANGED <<files, stage, seq, history>>

Pending == {r \in todo : SlugOf[r] = slug}

\* One document: its text and its newline go to the BufWriter.
WriteDoc ==
    /\ pc = "doc"
    /\ \E r \in Pending :
         \/ /\ buf' = [buf EXCEPT ![slug] = @ \o <<r, NL>>]
            /\ bytes' = [bytes EXCEPT ![slug] = @ + 2]
            /\ todo' = todo \ {r} /\ UNCHANGED <<why, slug, queue, batch, target, aside>>
            /\ pc' = "check"
            /\ UNCHANGED <<tmp, budget>>
         \/ /\ Fault("write")
            /\ Abort
            /\ UNCHANGED <<tmp, buf, bytes>>
         \/ /\ Fault("newline")
            /\ buf' = [buf EXCEPT ![slug] = Append(@, r)]
            /\ Abort
            /\ UNCHANGED <<tmp, bytes>>
         \/ /\ Fault("torn")
            /\ buf[slug] = <<>>
            /\ tmp' = [tmp EXCEPT ![slug] = Put(@, Torn)]
            /\ Abort
            /\ UNCHANGED <<buf, bytes>>
    /\ UNCHANGED <<files, stage, open, seq, history>>

\* BufWriter writes what it holds, one write at a time.
Drain(s) ==
    /\ buf[s] # <<>>
    /\ tmp' = [tmp EXCEPT ![s] = Put(@, Head(buf[s]))]
    /\ buf' = [buf EXCEPT ![s] = Tail(@)]
    /\ UNCHANGED <<files, stage, pc, job, open, bytes, seq, history, budget>>

\* The BufWriter is full in the middle of a batch.
Spill == pc = "doc" /\ Drain(slug)

\* rotate_if_needed after each document.
RotateIfNeeded ==
    /\ pc = "check"
    /\ \/ /\ AgeRotation \/ (MaxFileBytes > 0 /\ bytes[slug] > MaxFileBytes)
          /\ open' = open \ {slug}
          /\ pc' = "rotFlush"
       \/ /\ ~(MaxFileBytes > 0 /\ bytes[slug] > MaxFileBytes)
          /\ pc' = "doc"
          /\ UNCHANGED open
    /\ UNCHANGED <<disk, job, buf, bytes, seq, history, budget>>

\* The flush that ends a group.
FlushGroup ==
    /\ pc = "doc"
    /\ Pending = {}
    /\ \/ /\ buf[slug] = <<>>
          /\ pc' = "group"
          /\ UNCHANGED <<job, budget>>
       \/ /\ buf[slug] # <<>>
          /\ Fault("flush")
          /\ Abort
    /\ UNCHANGED <<disk, spools, seq, history>>

EndBatch ==
    /\ pc = "group"
    /\ todo = {}
    /\ accepted' = accepted \cup batch
    /\ Abort
    /\ UNCHANGED <<disk, spools, seq, offered, pruned, interrupted, budget>>

-----------------------------------------------------------------------------
(* close_publish_and_replace; its spool has left the map *)

\* The caller's next step: the batch goes on, the other slugs follow.
Continue ==
    /\ pc' = IF why = "batch" THEN "doc" ELSE "queue"
    /\ target' = None /\ UNCHANGED <<work, aside>>

\* The caller on an error: only finalize_all goes on with the other slugs.
Failed ==
    IF why = "final"
      THEN pc' = "queue" /\ target' = None /\ UNCHANGED <<work, aside>>
      ELSE Abort

\* After a failure the closed file is re-opened for append; if that fails too
\* the slug has no writer any more.  spent: the failures counted so far.
Reopen(n, spent) ==
    /\ bytes' = [bytes EXCEPT ![slug] = n]
    /\ Failed
    /\ UNCHANGED <<buf, crashes>>
    /\ \/ /\ open' = open \cup {slug}
          /\ faults' = spent
       \/ /\ "reopen" \in Faults /\ spent < MaxFaults
          /\ UNCHANGED open
          /\ faults' = spent + 1

RotateFlush ==
    /\ pc = "rotFlush"
    /\ \/ Drain(slug)
       \/ /\ buf[slug] = <<>>
          /\ pc' = "rotPad"
          /\ UNCHANGED <<disk, job, spools, seq, history, budget>>
       \/ /\ buf[slug] # <<>>
          /\ Fault("flush")
          /\ open' = open \cup {slug}
          /\ Failed
          /\ UNCHANGED <<disk, buf, bytes, seq, history>>

\* An empty file is removed; a small one loses its newline to the padding.
RotatePad ==
    /\ pc = "rotPad"
    /\ LET f == tmp[slug] IN
       \/ /\ bytes[slug] = 0
          /\ tmp' = [tmp EXCEPT ![slug] = NoFile]
          /\ pc' = "rotReplace"
          /\ UNCHANGED <<job, spools, budget>>
       \/ /\ bytes[slug] = 0
          /\ Fault("dispose")
          /\ Failed
          /\ UNCHANGED <<tmp, spools>>
       \/ /\ bytes[slug] > 0 /\ f.size >= MinPublished
          /\ pc' = "rotReserve"
          /\ UNCHANGED <<tmp, job, spools, budget>>
       \/ /\ bytes[slug] > 0 /\ f.size \in 1..(MinPublished - 1) /\ f.tail = <<>>
          /\ tmp' = [tmp EXCEPT ![slug] = Cut(f)]
          /\ pc' = "rotCut"
          /\ UNCHANGED <<job, spools, budget>>
       \/ /\ bytes[slug] > 0 /\ f.size < MinPublished /\ (f.size = 0 \/ f.tail # <<>>)
          /\ Reopen(bytes[slug], faults)
          /\ UNCHANGED <<tmp, left>>
    /\ UNCHANGED <<files, stage, seq, history>>

\* The spaces and the newline are written, or the disk is full half-way.
RotatePadFinish ==
    /\ pc = "rotCut"
    /\ \/ /\ tmp' = [tmp EXCEPT ![slug] = Padded(@)]
          /\ pc' = "rotReserve"
          /\ UNCHANGED <<job, spools, budget>>
       \/ /\ "pad" \in Faults /\ faults < MaxFaults
          /\ \E n \in tmp[slug].size..(MinPublished - 1) :
               tmp' = [tmp EXCEPT ![slug] = Sized(@, n)]
          /\ Reopen(bytes[slug], faults + 1)
          /\ UNCHANGED left
    /\ UNCHANGED <<files, stage, seq, history>>

\* publish_closed_file_at, first half.
RotateReserve ==
    /\ pc = "rotReserve"
    /\ \/ /\ \E n \in FreeNames(slug, "ndjson") :
               /\ files' = With(n, EmptyFile)
               /\ target' = n /\ UNCHANGED <<work, aside>>
               /\ seq' = n.seq
          /\ pc' = "rotRename"
          /\ UNCHANGED <<spools, budget>>
       \/ /\ "reserve" \in Faults /\ faults < MaxFaults
          /\ Reopen(tmp[slug].size, faults + 1)
          /\ UNCHANGED <<files, seq, left>>
    /\ UNCHANGED <<tmp, stage, history>>

\* Mutant: the active file is copied, not moved.
MovedCopy == tmp

\* The active file is gone from its old name.
Moved == [tmp EXCEPT ![slug] = NoFile]

\* publish_closed_file_at, second half.
RotateRename ==
    /\ pc = "rotRename"
    /\ \/ /\ files' = With(target, tmp[slug])
          /\ tmp' = Moved
          /\ seq' = NextSeq(target.seq)
          /\ pc' = "rotReplace"
          /\ UNCHANGED <<job, spools, budget>>
       \/ /\ "rename" \in Faults /\ faults < MaxFaults
          /\ Discard({target})
          /\ Reopen(tmp[slug].size, faults + 1)
          /\ UNCHANGED <<tmp, seq>>
    /\ UNCHANGED <<stage, history>>

\* rotate opens a new active file; finalize_all does not.
RotateReplace ==
    /\ pc = "rotReplace"
    /\ \/ /\ IF why = "final" THEN UNCHANGED <<tmp, spools>> ELSE OpenFresh(slug)
          /\ Continue
          /\ UNCHANGED budget
       \/ /\ why # "final"
          /\ Fault("open")
          /\ Failed
          /\ UNCHANGED <<tmp, spools>>
    /\ UNCHANGED <<files, stage, seq, history>>

-----------------------------------------------------------------------------
(* rotate_stale_files and finalize_all *)

\* Quarantine files past the retention go first, then the stale active files.
RotateStale ==
    /\ pc = "idle"
    /\ \E old \in SUBSET Quarantines, stale \in SUBSET {s \in open : bytes[s] > 0} :
         /\ AgeRotation \/ stale = {}
         /\ old # {} \/ stale # {}
         /\ files' = Without(old)
         /\ pruned' = pruned \cup UNION {RecordsOf(files[n]) : n \in old}
         /\ NewJob("stale", {}, stale)
    /\ pc' = "queue"
    /\ UNCHANGED <<tmp, stage, spools, seq, offered, accepted, interrupted, budget>>

FinalizeAll ==
    /\ pc = "idle"
    /\ NewJob("final", {}, open)
    /\ pc' = "queue"
    /\ UNCHANGED <<disk, spools, seq, history, budget>>

\* rotate and finalize_all take the spool out of the map before they close it.
TakeNext ==
    /\ pc = "queue"
    /\ \/ /\ \E s \in queue :
               /\ open' = open \ {s}
               /\ Take(s)
          /\ pc' = "rotFlush"
       \/ /\ queue = {}
          /\ pc' = IF why = "final" THEN "exit" ELSE "idle"
          /\ NoJob
          /\ UNCHANGED open
    /\ UNCHANGED <<disk, buf, bytes, seq, history, budget>>

\* The process ends; dropping a BufWriter tries to write what it still holds.
Exit ==
    /\ pc = "exit"
    /\ \/ \E s \in open : Drain(s)
       \/ /\ \A s \in open : buf[s] = <<>>
          /\ Gone
          /\ UNCHANGED <<disk, history, budget>>

-----------------------------------------------------------------------------

Init ==
    /\ tmp = [s \in Slugs |-> NoFile]
    /\ files = <<>>
    /\ stage = NoFile
    /\ pc = "down"
    /\ why = "none" /\ slug = None /\ queue = {} /\ todo = {} /\ batch = {}
    /\ target = None /\ aside = None
    /\ open = {}
    /\ buf = [s \in Slugs |-> <<>>]
    /\ bytes = [s \in Slugs |-> 0]
    /\ seq = 1
    /\ offered = {} /\ accepted = {} /\ pruned = {}
    /\ interrupted = FALSE
    /\ faults = 0 /\ crashes = 0 /\ left = 0

Recovery == \/ Sweep \/ RecoverRead \/ RecoverReserve \/ RecoverClaim
            \/ RecoverPublish \/ RecoverDispose \/ RecoverDone
Batch == EnsureSpool \/ WriteDoc \/ Spill \/ RotateIfNeeded \/ FlushGroup \/ EndBatch
Rotation == \/ RotateFlush \/ RotatePad \/ RotatePadFinish \/ RotateReserve
            \/ RotateRename \/ RotateReplace \/ TakeNext
Working == Recovery \/ Batch \/ Rotation \/ Exit

Next == Crash \/ Start \/ Working \/ BeginBatch \/ RotateStale \/ FinalizeAll

Spec == Init /\ [][Next]_vars

\* The tick that finds every non-empty active file past its age.
StaleTick == RotateStale /\ queue' = {s \in open : bytes[s] > 0}

\* The process works on, the unit restarts it (Restart=on-failure) and the tick
\* keeps calling rotate_stale_files; nothing makes a crash or a failure happen.
FairSpec == Spec /\ WF_vars(Start) /\ WF_vars(Working) /\ WF_vars(StaleTick)

-----------------------------------------------------------------------------
(* Properties *)

PCs == {"down", "sweep", "scan", "reserve", "claim", "publish", "dispose", "idle",
        "group", "doc", "check", "queue", "exit",
        "rotFlush", "rotPad", "rotCut", "rotReserve", "rotRename", "rotReplace"}

TmpOK == tmp \in [Slugs -> File \cup {NoFile}]
FilesOK == DOMAIN files \subseteq Name /\ \A n \in DOMAIN files : files[n] \in File
StageOK == stage \in File \cup {NoFile}
JobOK ==
    /\ pc \in PCs
    /\ why \in {"none", "recover", "batch", "stale", "final"}
    /\ slug \in Slugs \cup {None} /\ queue \subseteq Slugs
    /\ todo \subseteq Records /\ batch \subseteq Records
    /\ target \in Name \cup {None} /\ aside \in Name \cup {None}
SpoolsOK ==
    /\ open \subseteq Slugs
    /\ buf \in [Slugs -> Buffer]
    /\ bytes \in [Slugs -> Nat]
    /\ seq \in 1..MaxSeq
HistoryOK ==
    /\ offered \subseteq Records /\ accepted \subseteq Records /\ pruned \subseteq Records
    /\ interrupted \in BOOLEAN
    /\ faults \in Nat /\ crashes \in Nat /\ left \in Nat

\* The shape of the state: the directory, SpoolWriter's fields and the operation
\* under way, what has been offered and accepted.
TypeOK == TmpOK /\ FilesOK /\ StageOK /\ JobOK /\ SpoolsOK /\ HistoryOK

InTmp == UNION {RecordsOf(tmp[s]) : s \in {t \in Slugs : tmp[t] # NoFile}}
InFiles(N) == UNION {RecordsOf(files[n]) : n \in N}

\* No record of a batch that write_docs accepted ever leaves the directory, other
\* than by retention deleting a quarantine file: whatever fails, and wherever the
\* process dies in rotation, publication or recovery, its text is in an active
\* file, in a final or in a quarantine file.
NoLoss == accepted \subseteq InTmp \cup InFiles(DOMAIN files) \cup pruned

\* prune_retained_quarantines and the name reservation: the producer never deletes,
\* empties or rewrites a final that holds records.
FinalsKept ==
    [][\A n \in Finals : files[n] # EmptyFile =>
          n \in DOMAIN files' /\ files'[n] = files[n]]_vars

\* pad_spool_final and recovery: every line of every final parses as one JSON record.
FinalsWhole == \A n \in Finals : files[n].tail = <<>> /\ \A l \in Lines(files[n]) : Valid(l)

\* recover_stranded_file: a record is in two finals only after recovery stopped
\* between publishing the final and disposing of its source.
NoDuplicate ==
    ~interrupted => \A m, n \in Finals : m # n => RecordsOf(files[m]) \cap RecordsOf(files[n]) = {}

\* publish: an empty final is a name under reservation, or what is left of one by a
\* crash, or by a rename that failed and whose clean-up failed too.  Failed renames
\* alone, however many, leave none.
FewReservations ==
    Cardinality({n \in Finals : files[n] = EmptyFile})
        <= crashes + left + (IF pc \in {"publish", "rotRename"} THEN 1 ELSE 0)

\* rotate_stale_files and start-up recovery: with age rotation on, an accepted
\* record does not stay in its active file: it is published, or set aside when a
\* crash damaged the file it was in.
Published ==
    \A r \in Records : (r \in accepted) ~> (r \in InFiles(DOMAIN files) \cup pruned)
=============================================================================
