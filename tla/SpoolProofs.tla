---------------------------- MODULE SpoolProofs ----------------------------
(***************************************************************************)
(* Proofs about Spool for any datasets, records, clock, faults and crashes. *)
(*                                                                         *)
(*   1. ShapeInvariant and TypeCorrect: the shape of the state, on which   *)
(*      everything else builds; FinalsNeverTouched follows from it.        *)
(*   2. ReservationsCleared: empty finals are few.                         *)
(*   3. FinalsParse: the lines of finals parse, unless a write is torn.    *)
(*   4. NothingLost: no accepted record is lost.  NoLoss alone is not      *)
(*      inductive: a write may truncate an active file, a rotation may     *)
(*      remove it and recovery may delete a source, so KeptInv says which  *)
(*      records can be where at each of these points.                      *)
(*   5. RecordsPublishedOnce: no record is in two finals.                  *)
(***************************************************************************)
EXTENDS Spool, FiniteSetTheorems, TLAPS

Starting == {"sweep", "scan", "reserve", "claim", "publish", "dispose"}
Recovering == {"reserve", "claim", "publish", "dispose"}
Closing == {"rotFlush", "rotPad", "rotCut", "rotReserve", "rotRename"}
Rotating == Closing \cup {"rotReplace"}

\* A dataset with a writer, or with buffered bytes, has an active file.
Attached == \A s \in Slugs : buf[s] # <<>> \/ s \in open => tmp[s] # NoFile

\* What each point of the program relies on.
Control ==
    /\ pc \in Starting \cup {"down"} => open = {} /\ \A s \in Slugs : buf[s] = <<>>
    /\ pc \in {"doc", "check"} => slug \in open
    /\ pc \in Rotating => slug \in Slugs \ open
    /\ pc \in Closing \cup Recovering => slug \in Slugs /\ tmp[slug] # NoFile
    /\ pc \in Rotating \ {"rotFlush"} => buf[slug] = <<>>
    /\ why = "batch" => queue = {}
    /\ pc = "scan" => \A s \in queue : tmp[s] # NoFile
    /\ pc \in Recovering => \A s \in queue : s # slug /\ tmp[s] # NoFile
    /\ why # "recover" => queue \subseteq open
    /\ pc \in {"group", "doc", "check"} => why = "batch"
    /\ pc = "queue" => why \in {"stale", "final"}
    /\ pc \in Rotating => why \in {"batch", "stale", "final"}

\* A reserved name is an empty final, a quarantine name is never a final.
Reserved ==
    /\ pc = "publish" => stage # NoFile
    /\ pc \in {"publish", "rotRename"} =>
         /\ target \in DOMAIN files
         /\ target.ext = "ndjson"
         /\ files[target] = EmptyFile
    /\ aside # None =>
         /\ pc \in Recovering
         /\ aside \in DOMAIN files
         /\ aside.ext = "quarantine"
         /\ files[aside] = EmptyFile

Shape == TypeOK /\ Attached /\ Control /\ Reserved

-----------------------------------------------------------------------------
(* Files and names *)

LEMMA EmptyFileType == EmptyFile \in File
  BY DEF EmptyFile, File, Line

LEMMA LineType ==
  /\ <<>> \in Line
  /\ \A l \in Line, t \in Fragment : Append(l, t) \in Line
  BY DEF Line

LEMMA PutType ==
  ASSUME NEW f \in File, NEW t \in Fragment \cup {NL}
  PROVE  Put(f, t) \in File
  <1>1. CASE t = NL
    BY <1>1, LineType DEF Put, File
  <1>2. CASE t # NL
    <2>1. t \in Fragment
      BY <1>2
    <2>2. Append(f.tail, t) \in Line /\ f.size + 1 \in Nat
      BY <2>1, LineType DEF File
    <2> QED
      BY <1>2, <2>2 DEF Put, File
  <1> QED
    BY <1>1, <1>2

LEMMA CutType ==
  ASSUME NEW f \in File, f.size > 0
  PROVE  Cut(f) \in File
  BY DEF Cut, File, Line

LEMMA PaddedType ==
  ASSUME NEW f \in File
  PROVE  Padded(f) \in File
  BY SpoolAssumptions DEF Padded, File, Line

LEMMA LinesType ==
  ASSUME NEW f \in File
  PROVE  Lines(f) \subseteq Line
  BY DEF Lines, File, Line

LEMMA StageOfType ==
  ASSUME NEW f \in File
  PROVE  StageOf(f) \in File
  BY LinesType, SpoolAssumptions DEF StageOf, File, Line

LEMMA FreeNamesType ==
  ASSUME NEW s \in Slugs, NEW e \in {"ndjson", "quarantine"}, seq \in 1..MaxSeq,
         NEW n \in FreeNames(s, e)
  PROVE  n \in Name /\ n \notin DOMAIN files /\ n.ext = e /\ n.seq \in 1..MaxSeq
  BY DEF FreeNames, Name

LEMMA FreeNamesFresh ==
  ASSUME NEW s, NEW e, NEW n \in FreeNames(s, e)
  PROVE  n \notin DOMAIN files
  BY DEF FreeNames

LEMMA NextSeqType ==
  ASSUME NEW k \in 1..MaxSeq
  PROVE  NextSeq(k) \in 1..MaxSeq
  BY SpoolAssumptions DEF NextSeq

LEMMA WithOK ==
  ASSUME FilesOK, NEW n \in Name, NEW f \in File, files' = With(n, f)
  PROVE  FilesOK'
  BY DEF FilesOK, With

LEMMA WithoutOK ==
  ASSUME FilesOK, NEW S, files' = Without(S)
  PROVE  FilesOK'
  BY DEF FilesOK, Without, Restrict

LEMMA DiscardEffect ==
  ASSUME NEW S, Discard(S)
  PROVE  /\ \E gone \in SUBSET S : files' = Without(gone)
         /\ left \in Nat => left' \in Nat
  BY DEF Discard, Ignored

LEMMA AbandonEffect ==
  ASSUME NEW S, Abandon(S)
  PROVE  /\ \E gone \in SUBSET S : files' = Without(gone)
         /\ stage' \in {NoFile, stage}
         /\ left \in Nat => left' \in Nat
  BY DEF Abandon, Ignored

LEMMA AbandonStage ==
  ASSUME Abandon({})
  PROVE  files' = Without({})
  <1>1. PICK gone \in SUBSET {} : files' = Without(gone)
    BY AbandonEffect
  <1>2. gone = {}
    OBVIOUS
  <1> QED
    BY <1>1, <1>2

LEMMA BufferType ==
  /\ <<>> \in Buffer
  /\ \A b \in Buffer, r \in Records : b \o <<r, NL>> \in Buffer /\ Append(b, r) \in Buffer
  BY DEF Buffer

LEMMA RecordsOfType ==
  ASSUME NEW f \in File
  PROVE  RecordsOf(f) \subseteq Records
  <1>1. \A l \in Line : Texts(l) \subseteq Records
    BY DEF Line, Fragment, Texts, Range
  <1>2. Lines(f) \cup {f.tail} \subseteq Line
    BY LinesType DEF File
  <1> QED
    BY <1>1, <1>2 DEF RecordsOf

LEMMA DrainType ==
  ASSUME TmpOK, SpoolsOK, Attached, NEW s \in Slugs, buf[s] # <<>>
  PROVE  /\ Head(buf[s]) \in Records \cup {NL}
         /\ Tail(buf[s]) \in Buffer
         /\ tmp[s] \in File
         /\ Put(tmp[s], Head(buf[s])) \in File
  <1>1. buf[s] \in Buffer
    BY DEF SpoolsOK
  <1>2. Head(buf[s]) \in Records \cup {NL} /\ Tail(buf[s]) \in Buffer
    BY <1>1 DEF Buffer
  <1>3. tmp[s] \in File
    BY DEF TmpOK, Attached
  <1> QED
    BY <1>2, <1>3, PutType DEF Fragment

-----------------------------------------------------------------------------
(* Shape is inductive *)

LEMMA ShapeInit == Init => Shape
  <1> SUFFICES ASSUME Init PROVE Shape
    OBVIOUS
  <1>1. TmpOK /\ FilesOK /\ StageOK
    BY DEF Init, TmpOK, FilesOK, StageOK
  <1>2. JobOK
    BY DEF Init, JobOK, PCs
  <1>3. SpoolsOK
    BY BufferType, SpoolAssumptions DEF Init, SpoolsOK
  <1>4. HistoryOK
    BY DEF Init, HistoryOK
  <1>5. Attached /\ Control /\ Reserved
    BY DEF Init, Attached, Control, Reserved, Rotating, Closing, Recovering, Starting
  <1> QED
    BY <1>1, <1>2, <1>3, <1>4, <1>5 DEF Shape, TypeOK

LEMMA ShapeCrash == Shape /\ Crash => Shape'
  <1> SUFFICES ASSUME TypeOK, Attached, Control, Reserved, Crash PROVE Shape'
    BY DEF Shape
  <1> USE SpoolAssumptions, AbsentAssumptions DEF TypeOK, Crash, Gone, GiveUp, Fault, Fails, Abort, OpenFresh, Pending, Drain, Continue, Failed, Reopen, Stranded, Moved, TornTmp, NoJob, NewJob, Take, disk, job, work, spools, history, budget
  <1>1. TmpOK'
    BY EmptyFileType, DrainType, PutType, CutType, PaddedType DEF TmpOK, JobOK, SpoolsOK,
       Control, Sized, Fragment, Rotating, Closing, Recovering, Starting
  <1>2. FilesOK'
    BY EmptyFileType, WithOK, WithoutOK, FreeNamesType DEF FilesOK, TmpOK, StageOK, SpoolsOK,
       JobOK, Reserved, Control, Rotating, Closing, Recovering, Starting
  <1>3. StageOK'
    BY StageOfType DEF StageOK, TmpOK, Control, File
  <1>4. JobOK'
    BY FreeNamesType DEF JobOK, SpoolsOK, Control, PCs, Rotating, Closing, Recovering, Starting
  <1>5. SpoolsOK'
    BY DrainType, BufferType, FreeNamesType, NextSeqType DEF JobOK, SpoolsOK, TmpOK, Control,
       Reserved, Name, File, Rotating, Closing, Recovering, Starting
  <1>6. HistoryOK'
    BY DEF HistoryOK, JobOK
  <1>7. Attached'
    BY DrainType, EmptyFileType, PutType, CutType, PaddedType DEF Attached, TmpOK, JobOK,
       SpoolsOK, Control, Rotating, Closing, Recovering, Starting
  <1>8. Control'
    BY DrainType, EmptyFileType, PutType, CutType, PaddedType DEF Attached, TmpOK, JobOK,
       Control, PCs, Rotating, Closing, Recovering, Starting
  <1>9. Reserved'
    BY FreeNamesType DEF Reserved, JobOK, SpoolsOK, Control, With, PCs, Rotating, Closing,
       Recovering, Starting
  <1> QED
    BY <1>1, <1>2, <1>3, <1>4, <1>5, <1>6, <1>7, <1>8, <1>9 DEF Shape

LEMMA ShapeStart == Shape /\ Start => Shape'
  <1> SUFFICES ASSUME TypeOK, Attached, Control, Reserved, Start PROVE Shape'
    BY DEF Shape
  <1> USE SpoolAssumptions, AbsentAssumptions DEF TypeOK, Start, Gone, GiveUp, Fault, Fails, Abort, OpenFresh, Pending, Drain, Continue, Failed, Reopen, Stranded, Moved, TornTmp, NoJob, NewJob, Take, disk, job, work, spools, history, budget
  <1>1. TmpOK'
    BY EmptyFileType, DrainType, PutType, CutType, PaddedType DEF TmpOK, JobOK, SpoolsOK,
       Control, Sized, Fragment, Rotating, Closing, Recovering, Starting
  <1>2. FilesOK'
    BY EmptyFileType, WithOK, WithoutOK, FreeNamesType DEF FilesOK, TmpOK, StageOK, SpoolsOK,
       JobOK, Reserved, Control, Rotating, Closing, Recovering, Starting
  <1>3. StageOK'
    BY StageOfType DEF StageOK, TmpOK, Control, File
  <1>4. JobOK'
    BY FreeNamesType DEF JobOK, SpoolsOK, Control, PCs, Rotating, Closing, Recovering, Starting
  <1>5. SpoolsOK'
    BY DrainType, BufferType, FreeNamesType, NextSeqType DEF JobOK, SpoolsOK, TmpOK, Control,
       Reserved, Name, File, Rotating, Closing, Recovering, Starting
  <1>6. HistoryOK'
    BY DEF HistoryOK, JobOK
  <1>7. Attached'
    BY DrainType, EmptyFileType, PutType, CutType, PaddedType DEF Attached, TmpOK, JobOK,
       SpoolsOK, Control, Rotating, Closing, Recovering, Starting
  <1>8. Control'
    BY DrainType, EmptyFileType, PutType, CutType, PaddedType DEF Attached, TmpOK, JobOK,
       Control, PCs, Rotating, Closing, Recovering, Starting
  <1>9. Reserved'
    BY FreeNamesType DEF Reserved, JobOK, SpoolsOK, Control, With, PCs, Rotating, Closing,
       Recovering, Starting
  <1> QED
    BY <1>1, <1>2, <1>3, <1>4, <1>5, <1>6, <1>7, <1>8, <1>9 DEF Shape

LEMMA ShapeSweep == Shape /\ Sweep => Shape'
  <1> SUFFICES ASSUME TypeOK, Attached, Control, Reserved, Sweep PROVE Shape'
    BY DEF Shape
  <1> USE SpoolAssumptions, AbsentAssumptions DEF TypeOK, Sweep, Gone, GiveUp, Fault, Fails, Abort, OpenFresh, Pending, Drain, Continue, Failed, Reopen, Stranded, Moved, TornTmp, NoJob, NewJob, Take, disk, job, work, spools, history, budget
  <1>1. TmpOK'
    BY EmptyFileType, DrainType, PutType, CutType, PaddedType DEF TmpOK, JobOK, SpoolsOK,
       Control, Sized, Fragment, Rotating, Closing, Recovering, Starting
  <1>2. FilesOK'
    BY EmptyFileType, WithOK, WithoutOK, FreeNamesType DEF FilesOK, TmpOK, StageOK, SpoolsOK,
       JobOK, Reserved, Control, Rotating, Closing, Recovering, Starting
  <1>3. StageOK'
    BY StageOfType DEF StageOK, TmpOK, Control, File
  <1>4. JobOK'
    BY FreeNamesType DEF JobOK, SpoolsOK, Control, PCs, Rotating, Closing, Recovering, Starting
  <1>5. SpoolsOK'
    BY DrainType, BufferType, FreeNamesType, NextSeqType, SMTT(30) DEF JobOK, SpoolsOK, TmpOK, Control,
       Reserved, Name, File, Rotating, Closing, Recovering, Starting
  <1>6. HistoryOK'
    BY DEF HistoryOK, JobOK
  <1>7. Attached'
    BY DrainType, EmptyFileType, PutType, CutType, PaddedType DEF Attached, TmpOK, JobOK,
       SpoolsOK, Control, Rotating, Closing, Recovering, Starting
  <1>8. Control'
    BY DrainType, EmptyFileType, PutType, CutType, PaddedType DEF Attached, TmpOK, JobOK,
       Control, PCs, Rotating, Closing, Recovering, Starting
  <1>9. Reserved'
    BY FreeNamesType DEF Reserved, JobOK, SpoolsOK, Control, With, PCs, Rotating, Closing,
       Recovering, Starting
  <1> QED
    BY <1>1, <1>2, <1>3, <1>4, <1>5, <1>6, <1>7, <1>8, <1>9 DEF Shape

LEMMA ShapeRecoverRead == Shape /\ RecoverRead => Shape'
  <1> SUFFICES ASSUME TypeOK, Attached, Control, Reserved, RecoverRead PROVE Shape'
    BY DEF Shape
  <1> USE SpoolAssumptions, AbsentAssumptions DEF TypeOK, RecoverRead, Gone, GiveUp, Fault, Fails, Abort, OpenFresh, Pending, Drain, Continue, Failed, Reopen, Stranded, Moved, TornTmp, NoJob, NewJob, Take, disk, job, work, spools, history, budget
  <1>1. TmpOK'
    BY EmptyFileType, DrainType, PutType, CutType, PaddedType DEF TmpOK, JobOK, SpoolsOK,
       Control, Sized, Fragment, Rotating, Closing, Recovering, Starting
  <1>2. FilesOK'
    BY EmptyFileType, WithOK, WithoutOK, FreeNamesType DEF FilesOK, TmpOK, StageOK, SpoolsOK,
       JobOK, Reserved, Control, Rotating, Closing, Recovering, Starting
  <1>3. StageOK'
    <2>1. \A s \in queue : StageOf(tmp[s]) \in File
      BY StageOfType DEF TmpOK, JobOK, Control
    <2>2. \A s \in queue : \A part \in SUBSET StageOf(tmp[s]).rest :
             [StageOf(tmp[s]) EXCEPT !.rest = part] \in File
      BY <2>1 DEF File
    <2>3. \/ stage' \in {stage, NoFile}
          \/ \E s \in queue : stage' = StageOf(tmp[s])
          \/ \E s \in queue : \E part \in SUBSET StageOf(tmp[s]).rest :
                 stage' = [StageOf(tmp[s]) EXCEPT !.rest = part]
      OBVIOUS
    <2>4. CASE stage' \in {stage, NoFile}
      BY <2>4 DEF StageOK
    <2>5. CASE \E s \in queue : stage' = StageOf(tmp[s])
      BY <2>1, <2>5 DEF StageOK
    <2>6. CASE \E s \in queue : \E part \in SUBSET StageOf(tmp[s]).rest :
                 stage' = [StageOf(tmp[s]) EXCEPT !.rest = part]
      <3> HIDE DEF RecoverRead
      <3> QED
        BY <2>2, <2>6 DEF StageOK
    <2> QED
      BY <2>3, <2>4, <2>5, <2>6
  <1>4. JobOK'
    BY FreeNamesType DEF JobOK, SpoolsOK, Control, PCs, Rotating, Closing, Recovering, Starting
  <1>5. SpoolsOK'
    BY DrainType, BufferType, FreeNamesType, NextSeqType DEF JobOK, SpoolsOK, TmpOK, Control,
       Reserved, Name, File, Rotating, Closing, Recovering, Starting
  <1>6. HistoryOK'
    BY DEF HistoryOK, JobOK
  <1>7. Attached'
    BY DrainType, EmptyFileType, PutType, CutType, PaddedType DEF Attached, TmpOK, JobOK,
       SpoolsOK, Control, Rotating, Closing, Recovering, Starting
  <1>8. Control'
    BY DrainType, EmptyFileType, PutType, CutType, PaddedType DEF Attached, TmpOK, JobOK,
       Control, PCs, Rotating, Closing, Recovering, Starting
  <1>9. Reserved'
    BY FreeNamesType DEF Reserved, JobOK, SpoolsOK, Control, With, PCs, Rotating, Closing,
       Recovering, Starting
  <1> QED
    BY <1>1, <1>2, <1>3, <1>4, <1>5, <1>6, <1>7, <1>8, <1>9 DEF Shape

LEMMA ShapeRecoverReserve == Shape /\ RecoverReserve => Shape'
  <1> SUFFICES ASSUME TypeOK, Attached, Control, Reserved, RecoverReserve PROVE Shape'
    BY DEF Shape
  <1> USE SpoolAssumptions, AbsentAssumptions DEF TypeOK, RecoverReserve, Gone, GiveUp, Fault, Fails, Abort, OpenFresh, Pending, Drain, Continue, Failed, Reopen, Stranded, Moved, TornTmp, NoJob, NewJob, Take, disk, job, work, spools, history, budget
  <1>1. TmpOK'
    BY EmptyFileType, DrainType, PutType, CutType, PaddedType DEF TmpOK, JobOK, SpoolsOK,
       Control, Sized, Fragment, Rotating, Closing, Recovering, Starting
  <1>2. FilesOK'
    BY AbandonEffect, EmptyFileType, WithOK, WithoutOK, FreeNamesType DEF FilesOK, TmpOK, StageOK, SpoolsOK,
       JobOK, Reserved, Control, Rotating, Closing, Recovering, Starting
  <1>3. StageOK'
    BY AbandonEffect, StageOfType DEF StageOK, TmpOK, Control, File
  <1>4. JobOK'
    BY FreeNamesType DEF JobOK, SpoolsOK, Control, PCs, Rotating, Closing, Recovering, Starting
  <1>5. SpoolsOK'
    <2>1. open' \subseteq Slugs
      BY DEF SpoolsOK, JobOK
    <2>2. buf' \in [Slugs -> Buffer]
      BY BufferType DEF SpoolsOK
    <2>3. bytes' \in [Slugs -> Nat]
      BY DEF SpoolsOK, JobOK, TmpOK, Control, File, Rotating, Closing, Recovering, Starting
    <2>4. seq' \in 1..MaxSeq
      BY FreeNamesType, NextSeqType, SMTT(30) DEF SpoolsOK, JobOK, Control, Rotating, Closing,
         Recovering, Starting
    <2> QED
      BY <2>1, <2>2, <2>3, <2>4 DEF SpoolsOK
  <1>6. HistoryOK'
    BY AbandonEffect DEF HistoryOK, JobOK
  <1>7. Attached'
    BY DrainType, EmptyFileType, PutType, CutType, PaddedType DEF Attached, TmpOK, JobOK,
       SpoolsOK, Control, Rotating, Closing, Recovering, Starting
  <1>8. Control'
    BY DrainType, EmptyFileType, PutType, CutType, PaddedType DEF Attached, TmpOK, JobOK,
       Control, PCs, Rotating, Closing, Recovering, Starting
  <1>9. Reserved'
    BY FreeNamesType DEF Reserved, JobOK, SpoolsOK, Control, With, PCs, Rotating, Closing,
       Recovering, Starting
  <1> QED
    BY <1>1, <1>2, <1>3, <1>4, <1>5, <1>6, <1>7, <1>8, <1>9 DEF Shape

LEMMA ShapeRecoverClaim == Shape /\ RecoverClaim => Shape'
  <1> SUFFICES ASSUME TypeOK, Attached, Control, Reserved, RecoverClaim PROVE Shape'
    BY DEF Shape
  <1> USE SpoolAssumptions, AbsentAssumptions DEF TypeOK, RecoverClaim, Gone, GiveUp, Fault, Fails, Abort, OpenFresh, Pending, Drain, Continue, Failed, Reopen, Stranded, Moved, TornTmp, NoJob, NewJob, Take, disk, job, work, spools, history, budget
  <1>1. TmpOK'
    BY EmptyFileType, DrainType, PutType, CutType, PaddedType DEF TmpOK, JobOK, SpoolsOK,
       Control, Sized, Fragment, Rotating, Closing, Recovering, Starting
  <1>2. FilesOK'
    BY AbandonEffect, EmptyFileType, WithOK, WithoutOK, FreeNamesType DEF FilesOK, TmpOK, StageOK, SpoolsOK,
       JobOK, Reserved, Control, Rotating, Closing, Recovering, Starting
  <1>3. StageOK'
    BY AbandonEffect, StageOfType DEF StageOK, TmpOK, Control, File
  <1>4. JobOK'
    BY FreeNamesType DEF JobOK, SpoolsOK, Control, PCs, Rotating, Closing, Recovering, Starting
  <1>5. SpoolsOK'
    <2>1. open' \subseteq Slugs
      BY DEF SpoolsOK, JobOK
    <2>2. buf' \in [Slugs -> Buffer]
      BY BufferType DEF SpoolsOK
    <2>3. bytes' \in [Slugs -> Nat]
      BY DEF SpoolsOK, JobOK, TmpOK, Control, File, Rotating, Closing, Recovering, Starting
    <2>4. seq' \in 1..MaxSeq
      BY FreeNamesType, NextSeqType, SMTT(30) DEF SpoolsOK, JobOK, Control, Rotating, Closing,
         Recovering, Starting
    <2> QED
      BY <2>1, <2>2, <2>3, <2>4 DEF SpoolsOK
  <1>6. HistoryOK'
    BY AbandonEffect DEF HistoryOK, JobOK
  <1>7. Attached'
    BY DrainType, EmptyFileType, PutType, CutType, PaddedType DEF Attached, TmpOK, JobOK,
       SpoolsOK, Control, Rotating, Closing, Recovering, Starting
  <1>8. Control'
    BY DrainType, EmptyFileType, PutType, CutType, PaddedType DEF Attached, TmpOK, JobOK,
       Control, PCs, Rotating, Closing, Recovering, Starting
  <1>9. Reserved'
    BY FreeNamesType DEF Reserved, JobOK, SpoolsOK, Control, With, PCs, Rotating, Closing,
       Recovering, Starting
  <1> QED
    BY <1>1, <1>2, <1>3, <1>4, <1>5, <1>6, <1>7, <1>8, <1>9 DEF Shape

LEMMA ShapeRecoverPublish == Shape /\ RecoverPublish => Shape'
  <1> SUFFICES ASSUME TypeOK, Attached, Control, Reserved, RecoverPublish PROVE Shape'
    BY DEF Shape
  <1> USE SpoolAssumptions, AbsentAssumptions DEF TypeOK, RecoverPublish, Gone, GiveUp, Fault, Fails, Abort, OpenFresh, Pending, Drain, Continue, Failed, Reopen, Stranded, Moved, TornTmp, NoJob, NewJob, Take, disk, job, work, spools, history, budget
  <1>1. TmpOK'
    BY EmptyFileType, DrainType, PutType, CutType, PaddedType DEF TmpOK, JobOK, SpoolsOK,
       Control, Sized, Fragment, Rotating, Closing, Recovering, Starting
  <1>2. FilesOK'
    BY AbandonEffect, EmptyFileType, WithOK, WithoutOK, FreeNamesType DEF FilesOK, TmpOK, StageOK, SpoolsOK,
       JobOK, Reserved, Control, Rotating, Closing, Recovering, Starting
  <1>3. StageOK'
    BY AbandonEffect, StageOfType DEF StageOK, TmpOK, Control, File
  <1>4. JobOK'
    BY FreeNamesType DEF JobOK, SpoolsOK, Control, PCs, Rotating, Closing, Recovering, Starting
  <1>5. SpoolsOK'
    <2>0. target.seq \in 1..MaxSeq
      BY DEF Reserved, FilesOK, Name
    <2>1. open' \subseteq Slugs
      BY DEF SpoolsOK, JobOK
    <2>2. buf' \in [Slugs -> Buffer]
      BY BufferType DEF SpoolsOK
    <2>3. bytes' \in [Slugs -> Nat]
      BY DEF SpoolsOK, JobOK, TmpOK, Control, File, Rotating, Closing, Recovering, Starting
    <2>4. seq' \in 1..MaxSeq
      BY <2>0, NextSeqType DEF SpoolsOK, JobOK, Reserved, Name
    <2> QED
      BY <2>1, <2>2, <2>3, <2>4 DEF SpoolsOK
  <1>6. HistoryOK'
    BY AbandonEffect DEF HistoryOK, JobOK
  <1>7. Attached'
    BY DrainType, EmptyFileType, PutType, CutType, PaddedType DEF Attached, TmpOK, JobOK,
       SpoolsOK, Control, Rotating, Closing, Recovering, Starting
  <1>8. Control'
    BY DrainType, EmptyFileType, PutType, CutType, PaddedType DEF Attached, TmpOK, JobOK,
       Control, PCs, Rotating, Closing, Recovering, Starting
  <1>9. Reserved'
    BY FreeNamesType DEF Reserved, JobOK, SpoolsOK, Control, With, PCs, Rotating, Closing,
       Recovering, Starting
  <1> QED
    BY <1>1, <1>2, <1>3, <1>4, <1>5, <1>6, <1>7, <1>8, <1>9 DEF Shape

LEMMA ShapeRecoverDispose == Shape /\ RecoverDispose => Shape'
  <1> SUFFICES ASSUME TypeOK, Attached, Control, Reserved, RecoverDispose PROVE Shape'
    BY DEF Shape
  <1> USE SpoolAssumptions, AbsentAssumptions DEF TypeOK, RecoverDispose, Gone, GiveUp, Fault, Fails, Abort, OpenFresh, Pending, Drain, Continue, Failed, Reopen, Stranded, Moved, TornTmp, NoJob, NewJob, Take, disk, job, work, spools, history, budget
  <1>1. TmpOK'
    BY EmptyFileType, DrainType, PutType, CutType, PaddedType DEF TmpOK, JobOK, SpoolsOK,
       Control, Sized, Fragment, Rotating, Closing, Recovering, Starting
  <1>2. FilesOK'
    BY DiscardEffect, EmptyFileType, WithOK, WithoutOK, FreeNamesType DEF FilesOK, TmpOK, StageOK, SpoolsOK,
       JobOK, Reserved, Control, Rotating, Closing, Recovering, Starting
  <1>3. StageOK'
    BY StageOfType DEF StageOK, TmpOK, Control, File
  <1>4. JobOK'
    BY FreeNamesType DEF JobOK, SpoolsOK, Control, PCs, Rotating, Closing, Recovering, Starting
  <1>5. SpoolsOK'
    <2>1. open' \subseteq Slugs
      BY DEF SpoolsOK, JobOK
    <2>2. buf' \in [Slugs -> Buffer]
      BY BufferType DEF SpoolsOK
    <2>3. bytes' \in [Slugs -> Nat]
      BY DEF SpoolsOK, JobOK, TmpOK, Control, File, Rotating, Closing, Recovering, Starting
    <2>4. seq' \in 1..MaxSeq
      BY DEF SpoolsOK
    <2> QED
      BY <2>1, <2>2, <2>3, <2>4 DEF SpoolsOK
  <1>6. HistoryOK'
    <2>1. interrupted' \in BOOLEAN
      BY Zenon DEF HistoryOK
    <2> QED
      BY <2>1, DiscardEffect DEF HistoryOK
  <1>7. Attached'
    BY DrainType, EmptyFileType, PutType, CutType, PaddedType DEF Attached, TmpOK, JobOK,
       SpoolsOK, Control, Rotating, Closing, Recovering, Starting
  <1>8. Control'
    BY DrainType, EmptyFileType, PutType, CutType, PaddedType DEF Attached, TmpOK, JobOK,
       Control, PCs, Rotating, Closing, Recovering, Starting
  <1>9. Reserved'
    BY FreeNamesType DEF Reserved, JobOK, SpoolsOK, Control, With, PCs, Rotating, Closing,
       Recovering, Starting
  <1> QED
    BY <1>1, <1>2, <1>3, <1>4, <1>5, <1>6, <1>7, <1>8, <1>9 DEF Shape

LEMMA ShapeRecoverDone == Shape /\ RecoverDone => Shape'
  <1> SUFFICES ASSUME TypeOK, Attached, Control, Reserved, RecoverDone PROVE Shape'
    BY DEF Shape
  <1> USE SpoolAssumptions, AbsentAssumptions DEF TypeOK, RecoverDone, Gone, GiveUp, Fault, Fails, Abort, OpenFresh, Pending, Drain, Continue, Failed, Reopen, Stranded, Moved, TornTmp, NoJob, NewJob, Take, disk, job, work, spools, history, budget
  <1>1. TmpOK'
    BY EmptyFileType, DrainType, PutType, CutType, PaddedType DEF TmpOK, JobOK, SpoolsOK,
       Control, Sized, Fragment, Rotating, Closing, Recovering, Starting
  <1>2. FilesOK'
    BY EmptyFileType, WithOK, WithoutOK, FreeNamesType DEF FilesOK, TmpOK, StageOK, SpoolsOK,
       JobOK, Reserved, Control, Rotating, Closing, Recovering, Starting
  <1>3. StageOK'
    BY StageOfType DEF StageOK, TmpOK, Control, File
  <1>4. JobOK'
    BY FreeNamesType DEF JobOK, SpoolsOK, Control, PCs, Rotating, Closing, Recovering, Starting
  <1>5. SpoolsOK'
    BY DrainType, BufferType, FreeNamesType, NextSeqType DEF JobOK, SpoolsOK, TmpOK, Control,
       Reserved, Name, File, Rotating, Closing, Recovering, Starting
  <1>6. HistoryOK'
    BY DEF HistoryOK, JobOK
  <1>7. Attached'
    BY DrainType, EmptyFileType, PutType, CutType, PaddedType DEF Attached, TmpOK, JobOK,
       SpoolsOK, Control, Rotating, Closing, Recovering, Starting
  <1>8. Control'
    BY DrainType, EmptyFileType, PutType, CutType, PaddedType DEF Attached, TmpOK, JobOK,
       Control, PCs, Rotating, Closing, Recovering, Starting
  <1>9. Reserved'
    BY FreeNamesType DEF Reserved, JobOK, SpoolsOK, Control, With, PCs, Rotating, Closing,
       Recovering, Starting
  <1> QED
    BY <1>1, <1>2, <1>3, <1>4, <1>5, <1>6, <1>7, <1>8, <1>9 DEF Shape

LEMMA ShapeBeginBatch == Shape /\ BeginBatch => Shape'
  <1> SUFFICES ASSUME TypeOK, Attached, Control, Reserved, BeginBatch PROVE Shape'
    BY DEF Shape
  <1> USE SpoolAssumptions, AbsentAssumptions DEF TypeOK, BeginBatch, Gone, GiveUp, Fault, Fails, Abort, OpenFresh, Pending, Drain, Continue, Failed, Reopen, Stranded, Moved, TornTmp, NoJob, NewJob, Take, disk, job, work, spools, history, budget
  <1>1. TmpOK'
    BY EmptyFileType, DrainType, PutType, CutType, PaddedType DEF TmpOK, JobOK, SpoolsOK,
       Control, Sized, Fragment, Rotating, Closing, Recovering, Starting
  <1>2. FilesOK'
    BY EmptyFileType, WithOK, WithoutOK, FreeNamesType DEF FilesOK, TmpOK, StageOK, SpoolsOK,
       JobOK, Reserved, Control, Rotating, Closing, Recovering, Starting
  <1>3. StageOK'
    BY StageOfType DEF StageOK, TmpOK, Control, File
  <1>4. JobOK'
    BY FreeNamesType DEF JobOK, SpoolsOK, Control, PCs, Rotating, Closing, Recovering, Starting
  <1>5. SpoolsOK'
    BY DrainType, BufferType, FreeNamesType, NextSeqType DEF JobOK, SpoolsOK, TmpOK, Control,
       Reserved, Name, File, Rotating, Closing, Recovering, Starting
  <1>6. HistoryOK'
    BY DEF HistoryOK, JobOK
  <1>7. Attached'
    BY DrainType, EmptyFileType, PutType, CutType, PaddedType DEF Attached, TmpOK, JobOK,
       SpoolsOK, Control, Rotating, Closing, Recovering, Starting
  <1>8. Control'
    BY DrainType, EmptyFileType, PutType, CutType, PaddedType DEF Attached, TmpOK, JobOK,
       Control, PCs, Rotating, Closing, Recovering, Starting
  <1>9. Reserved'
    BY FreeNamesType DEF Reserved, JobOK, SpoolsOK, Control, With, PCs, Rotating, Closing,
       Recovering, Starting
  <1> QED
    BY <1>1, <1>2, <1>3, <1>4, <1>5, <1>6, <1>7, <1>8, <1>9 DEF Shape

LEMMA ShapeEnsureSpool == Shape /\ EnsureSpool => Shape'
  <1> SUFFICES ASSUME TypeOK, Attached, Control, Reserved, EnsureSpool PROVE Shape'
    BY DEF Shape
  <1> USE SpoolAssumptions, AbsentAssumptions DEF TypeOK, EnsureSpool, Gone, GiveUp, Fault, Fails, Abort, OpenFresh, Pending, Drain, Continue, Failed, Reopen, Stranded, Moved, TornTmp, NoJob, NewJob, Take, disk, job, work, spools, history, budget
  <1>1. TmpOK'
    <2>1. \A s \in Slugs : [tmp EXCEPT ![s] = EmptyFile] \in [Slugs -> File \cup {NoFile}]
      BY EmptyFileType DEF TmpOK
    <2>2. \A r \in todo : SlugOf[r] \in Slugs
      BY DEF JobOK
    <2> QED
      BY <2>1, <2>2 DEF TmpOK
  <1>2. FilesOK'
    BY EmptyFileType, WithOK, WithoutOK, FreeNamesType DEF FilesOK, TmpOK, StageOK, SpoolsOK,
       JobOK, Reserved, Control, Rotating, Closing, Recovering, Starting
  <1>3. StageOK'
    BY StageOfType DEF StageOK, TmpOK, Control, File
  <1>4. JobOK'
    BY FreeNamesType DEF JobOK, SpoolsOK, Control, PCs, Rotating, Closing, Recovering, Starting
  <1>5. SpoolsOK'
    <2>0. \A r \in todo : SlugOf[r] \in Slugs
      BY DEF JobOK
    <2>1. open' \subseteq Slugs
      BY <2>0 DEF SpoolsOK, JobOK
    <2>2. buf' \in [Slugs -> Buffer]
      BY <2>0, BufferType DEF SpoolsOK
    <2>3. bytes' \in [Slugs -> Nat]
      BY <2>0 DEF SpoolsOK, JobOK, TmpOK, Control, File, Rotating, Closing, Recovering, Starting
    <2>4. seq' \in 1..MaxSeq
      BY DEF SpoolsOK
    <2> QED
      BY <2>1, <2>2, <2>3, <2>4 DEF SpoolsOK
  <1>6. HistoryOK'
    BY DEF HistoryOK, JobOK
  <1>7. Attached'
    BY DrainType, EmptyFileType, PutType, CutType, PaddedType DEF Attached, TmpOK, JobOK,
       SpoolsOK, Control, Rotating, Closing, Recovering, Starting
  <1>8. Control'
    BY DrainType, EmptyFileType, PutType, CutType, PaddedType DEF Attached, TmpOK, JobOK,
       Control, PCs, Rotating, Closing, Recovering, Starting
  <1>9. Reserved'
    BY FreeNamesType DEF Reserved, JobOK, SpoolsOK, Control, With, PCs, Rotating, Closing,
       Recovering, Starting
  <1> QED
    BY <1>1, <1>2, <1>3, <1>4, <1>5, <1>6, <1>7, <1>8, <1>9 DEF Shape

LEMMA ShapeWriteDoc == Shape /\ WriteDoc => Shape'
  <1> SUFFICES ASSUME TypeOK, Attached, Control, Reserved, WriteDoc PROVE Shape'
    BY DEF Shape
  <1> USE SpoolAssumptions, AbsentAssumptions DEF TypeOK, WriteDoc, Gone, GiveUp, Fault, Fails, Abort, OpenFresh, Pending, Drain, Continue, Failed, Reopen, Stranded, Moved, TornTmp, NoJob, NewJob, Take, disk, job, work, spools, history, budget
  <1>1. TmpOK'
    <2>1. slug \in Slugs /\ tmp[slug] \in File
      BY DEF TmpOK, Attached, Control, SpoolsOK
    <2>2. Put(tmp[slug], Torn) \in File
      BY <2>1, PutType DEF Fragment
    <2>3. [tmp EXCEPT ![slug] = Put(tmp[slug], Torn)] \in [Slugs -> File \cup {NoFile}]
      BY <2>1, <2>2 DEF TmpOK
    <2> QED
      BY <2>3 DEF TmpOK
  <1>2. FilesOK'
    BY EmptyFileType, WithOK, WithoutOK, FreeNamesType DEF FilesOK, TmpOK, StageOK, SpoolsOK,
       JobOK, Reserved, Control, Rotating, Closing, Recovering, Starting
  <1>3. StageOK'
    BY StageOfType DEF StageOK, TmpOK, Control, File
  <1>4. JobOK'
    BY FreeNamesType DEF JobOK, SpoolsOK, Control, PCs, Rotating, Closing, Recovering, Starting
  <1>5. SpoolsOK'
    <2>0. slug \in Slugs
      BY DEF Control, SpoolsOK, Rotating, Closing, Recovering, Starting
    <2>1. open' \subseteq Slugs
      BY <2>0 DEF SpoolsOK, JobOK
    <2>2. buf' \in [Slugs -> Buffer]
      <3>1. buf[slug] \in Buffer /\ Pending \subseteq Records
        BY <2>0 DEF SpoolsOK, JobOK
      <3>2. \A r \in Pending : buf[slug] \o <<r, NL>> \in Buffer /\ Append(buf[slug], r) \in Buffer
        BY <3>1, BufferType
      <3>3. \A b \in Buffer : [buf EXCEPT ![slug] = b] \in [Slugs -> Buffer]
        BY <2>0 DEF SpoolsOK
      <3>4. \/ buf' = buf
            \/ \E r \in Pending : buf' = [buf EXCEPT ![slug] = buf[slug] \o <<r, NL>>]
            \/ \E r \in Pending : buf' = [buf EXCEPT ![slug] = Append(buf[slug], r)]
        OBVIOUS
      <3> HIDE DEF WriteDoc
      <3> QED
        BY <3>2, <3>3, <3>4, ZenonT(60) DEF SpoolsOK
    <2>3. bytes' \in [Slugs -> Nat]
      BY <2>0 DEF SpoolsOK, JobOK, TmpOK, Control, File, Rotating, Closing, Recovering, Starting
    <2>4. seq' \in 1..MaxSeq
      BY DEF SpoolsOK
    <2> QED
      BY <2>1, <2>2, <2>3, <2>4 DEF SpoolsOK
  <1>6. HistoryOK'
    BY DEF HistoryOK, JobOK
  <1>7. Attached'
    <2>1. slug \in open /\ slug \in Slugs /\ tmp[slug] \in File
      BY DEF TmpOK, Attached, Control, SpoolsOK
    <2>2. Put(tmp[slug], Torn) # NoFile
      BY <2>1, PutType DEF Fragment
    <2>3. \A s \in Slugs : tmp[s] # NoFile => tmp'[s] # NoFile
      BY <2>1, <2>2 DEF TmpOK
    <2>4. \A s \in Slugs : s # slug => buf'[s] = buf[s]
      BY DEF SpoolsOK
    <2> QED
      BY <2>1, <2>3, <2>4 DEF Attached
  <1>8. Control'
    BY DrainType, EmptyFileType, PutType, CutType, PaddedType DEF Attached, TmpOK, JobOK,
       Control, PCs, Rotating, Closing, Recovering, Starting
  <1>9. Reserved'
    BY FreeNamesType DEF Reserved, JobOK, SpoolsOK, Control, With, PCs, Rotating, Closing,
       Recovering, Starting
  <1> QED
    BY <1>1, <1>2, <1>3, <1>4, <1>5, <1>6, <1>7, <1>8, <1>9 DEF Shape

LEMMA ShapeSpill == Shape /\ Spill => Shape'
  <1> SUFFICES ASSUME TypeOK, Attached, Control, Reserved, Spill PROVE Shape'
    BY DEF Shape
  <1> USE SpoolAssumptions, AbsentAssumptions DEF TypeOK, Spill, Gone, GiveUp, Fault, Fails, Abort, OpenFresh, Pending, Drain, Continue, Failed, Reopen, Stranded, Moved, TornTmp, NoJob, NewJob, Take, disk, job, work, spools, history, budget
  <1>1. TmpOK'
    BY EmptyFileType, DrainType, PutType, CutType, PaddedType DEF TmpOK, JobOK, SpoolsOK,
       Control, Sized, Fragment, Rotating, Closing, Recovering, Starting
  <1>2. FilesOK'
    BY EmptyFileType, WithOK, WithoutOK, FreeNamesType DEF FilesOK, TmpOK, StageOK, SpoolsOK,
       JobOK, Reserved, Control, Rotating, Closing, Recovering, Starting
  <1>3. StageOK'
    BY StageOfType DEF StageOK, TmpOK, Control, File
  <1>4. JobOK'
    BY FreeNamesType DEF JobOK, SpoolsOK, Control, PCs, Rotating, Closing, Recovering, Starting
  <1>5. SpoolsOK'
    BY DrainType, BufferType, FreeNamesType, NextSeqType DEF JobOK, SpoolsOK, TmpOK, Control,
       Reserved, Name, File, Rotating, Closing, Recovering, Starting
  <1>6. HistoryOK'
    BY DEF HistoryOK, JobOK
  <1>7. Attached'
    BY DrainType, EmptyFileType, PutType, CutType, PaddedType DEF Attached, TmpOK, JobOK,
       SpoolsOK, Control, Rotating, Closing, Recovering, Starting
  <1>8. Control'
    BY DrainType, EmptyFileType, PutType, CutType, PaddedType DEF Attached, TmpOK, JobOK,
       Control, PCs, Rotating, Closing, Recovering, Starting
  <1>9. Reserved'
    BY FreeNamesType DEF Reserved, JobOK, SpoolsOK, Control, With, PCs, Rotating, Closing,
       Recovering, Starting
  <1> QED
    BY <1>1, <1>2, <1>3, <1>4, <1>5, <1>6, <1>7, <1>8, <1>9 DEF Shape

LEMMA ShapeRotateIfNeeded == Shape /\ RotateIfNeeded => Shape'
  <1> SUFFICES ASSUME TypeOK, Attached, Control, Reserved, RotateIfNeeded PROVE Shape'
    BY DEF Shape
  <1> USE SpoolAssumptions, AbsentAssumptions DEF TypeOK, RotateIfNeeded, Gone, GiveUp, Fault, Fails, Abort, OpenFresh, Pending, Drain, Continue, Failed, Reopen, Stranded, Moved, TornTmp, NoJob, NewJob, Take, disk, job, work, spools, history, budget
  <1>1. TmpOK'
    BY EmptyFileType, DrainType, PutType, CutType, PaddedType DEF TmpOK, JobOK, SpoolsOK,
       Control, Sized, Fragment, Rotating, Closing, Recovering, Starting
  <1>2. FilesOK'
    BY EmptyFileType, WithOK, WithoutOK, FreeNamesType DEF FilesOK, TmpOK, StageOK, SpoolsOK,
       JobOK, Reserved, Control, Rotating, Closing, Recovering, Starting
  <1>3. StageOK'
    BY StageOfType DEF StageOK, TmpOK, Control, File
  <1>4. JobOK'
    BY FreeNamesType DEF JobOK, SpoolsOK, Control, PCs, Rotating, Closing, Recovering, Starting
  <1>5. SpoolsOK'
    BY DrainType, BufferType, FreeNamesType, NextSeqType DEF JobOK, SpoolsOK, TmpOK, Control,
       Reserved, Name, File, Rotating, Closing, Recovering, Starting
  <1>6. HistoryOK'
    BY DEF HistoryOK, JobOK
  <1>7. Attached'
    BY DrainType, EmptyFileType, PutType, CutType, PaddedType DEF Attached, TmpOK, JobOK,
       SpoolsOK, Control, Rotating, Closing, Recovering, Starting
  <1>8. Control'
    <2>1. slug \in open /\ slug \in Slugs /\ tmp[slug] # NoFile
      BY DEF Control, Attached, SpoolsOK
    <2>2. why = "batch" /\ queue = {}
      BY DEF Control
    <2> QED
      BY <2>1, <2>2 DEF Control, PCs, Rotating, Closing, Recovering, Starting
  <1>9. Reserved'
    BY FreeNamesType DEF Reserved, JobOK, SpoolsOK, Control, With, PCs, Rotating, Closing,
       Recovering, Starting
  <1> QED
    BY <1>1, <1>2, <1>3, <1>4, <1>5, <1>6, <1>7, <1>8, <1>9 DEF Shape

LEMMA ShapeFlushGroup == Shape /\ FlushGroup => Shape'
  <1> SUFFICES ASSUME TypeOK, Attached, Control, Reserved, FlushGroup PROVE Shape'
    BY DEF Shape
  <1> USE SpoolAssumptions, AbsentAssumptions DEF TypeOK, FlushGroup, Gone, GiveUp, Fault, Fails, Abort, OpenFresh, Pending, Drain, Continue, Failed, Reopen, Stranded, Moved, TornTmp, NoJob, NewJob, Take, disk, job, work, spools, history, budget
  <1>1. TmpOK'
    BY EmptyFileType, DrainType, PutType, CutType, PaddedType DEF TmpOK, JobOK, SpoolsOK,
       Control, Sized, Fragment, Rotating, Closing, Recovering, Starting
  <1>2. FilesOK'
    BY EmptyFileType, WithOK, WithoutOK, FreeNamesType DEF FilesOK, TmpOK, StageOK, SpoolsOK,
       JobOK, Reserved, Control, Rotating, Closing, Recovering, Starting
  <1>3. StageOK'
    BY StageOfType DEF StageOK, TmpOK, Control, File
  <1>4. JobOK'
    BY FreeNamesType DEF JobOK, SpoolsOK, Control, PCs, Rotating, Closing, Recovering, Starting
  <1>5. SpoolsOK'
    BY DrainType, BufferType, FreeNamesType, NextSeqType DEF JobOK, SpoolsOK, TmpOK, Control,
       Reserved, Name, File, Rotating, Closing, Recovering, Starting
  <1>6. HistoryOK'
    BY DEF HistoryOK, JobOK
  <1>7. Attached'
    BY DrainType, EmptyFileType, PutType, CutType, PaddedType DEF Attached, TmpOK, JobOK,
       SpoolsOK, Control, Rotating, Closing, Recovering, Starting
  <1>8. Control'
    BY DrainType, EmptyFileType, PutType, CutType, PaddedType DEF Attached, TmpOK, JobOK,
       Control, PCs, Rotating, Closing, Recovering, Starting
  <1>9. Reserved'
    BY FreeNamesType DEF Reserved, JobOK, SpoolsOK, Control, With, PCs, Rotating, Closing,
       Recovering, Starting
  <1> QED
    BY <1>1, <1>2, <1>3, <1>4, <1>5, <1>6, <1>7, <1>8, <1>9 DEF Shape

LEMMA ShapeEndBatch == Shape /\ EndBatch => Shape'
  <1> SUFFICES ASSUME TypeOK, Attached, Control, Reserved, EndBatch PROVE Shape'
    BY DEF Shape
  <1> USE SpoolAssumptions, AbsentAssumptions DEF TypeOK, EndBatch, Gone, GiveUp, Fault, Fails, Abort, OpenFresh, Pending, Drain, Continue, Failed, Reopen, Stranded, Moved, TornTmp, NoJob, NewJob, Take, disk, job, work, spools, history, budget
  <1>1. TmpOK'
    BY EmptyFileType, DrainType, PutType, CutType, PaddedType DEF TmpOK, JobOK, SpoolsOK,
       Control, Sized, Fragment, Rotating, Closing, Recovering, Starting
  <1>2. FilesOK'
    BY EmptyFileType, WithOK, WithoutOK, FreeNamesType DEF FilesOK, TmpOK, StageOK, SpoolsOK,
       JobOK, Reserved, Control, Rotating, Closing, Recovering, Starting
  <1>3. StageOK'
    BY StageOfType DEF StageOK, TmpOK, Control, File
  <1>4. JobOK'
    BY FreeNamesType DEF JobOK, SpoolsOK, Control, PCs, Rotating, Closing, Recovering, Starting
  <1>5. SpoolsOK'
    BY DrainType, BufferType, FreeNamesType, NextSeqType DEF JobOK, SpoolsOK, TmpOK, Control,
       Reserved, Name, File, Rotating, Closing, Recovering, Starting
  <1>6. HistoryOK'
    BY DEF HistoryOK, JobOK
  <1>7. Attached'
    BY DrainType, EmptyFileType, PutType, CutType, PaddedType DEF Attached, TmpOK, JobOK,
       SpoolsOK, Control, Rotating, Closing, Recovering, Starting
  <1>8. Control'
    BY DrainType, EmptyFileType, PutType, CutType, PaddedType DEF Attached, TmpOK, JobOK,
       Control, PCs, Rotating, Closing, Recovering, Starting
  <1>9. Reserved'
    BY FreeNamesType DEF Reserved, JobOK, SpoolsOK, Control, With, PCs, Rotating, Closing,
       Recovering, Starting
  <1> QED
    BY <1>1, <1>2, <1>3, <1>4, <1>5, <1>6, <1>7, <1>8, <1>9 DEF Shape

LEMMA ShapeRotateFlush == Shape /\ RotateFlush => Shape'
  <1> SUFFICES ASSUME TypeOK, Attached, Control, Reserved, RotateFlush PROVE Shape'
    BY DEF Shape
  <1> USE SpoolAssumptions, AbsentAssumptions DEF TypeOK, RotateFlush, Gone, GiveUp, Fault, Fails, Abort, OpenFresh, Pending, Drain, Continue, Failed, Reopen, Stranded, Moved, TornTmp, NoJob, NewJob, Take, disk, job, work, spools, history, budget
  <1>1. TmpOK'
    BY EmptyFileType, DrainType, PutType, CutType, PaddedType DEF TmpOK, JobOK, SpoolsOK,
       Control, Sized, Fragment, Rotating, Closing, Recovering, Starting
  <1>2. FilesOK'
    BY EmptyFileType, WithOK, WithoutOK, FreeNamesType DEF FilesOK, TmpOK, StageOK, SpoolsOK,
       JobOK, Reserved, Control, Rotating, Closing, Recovering, Starting
  <1>3. StageOK'
    BY StageOfType DEF StageOK, TmpOK, Control, File
  <1>4. JobOK'
    BY FreeNamesType DEF JobOK, SpoolsOK, Control, PCs, Rotating, Closing, Recovering, Starting
  <1>5. SpoolsOK'
    <2>0. slug \in Slugs
      BY DEF Control, SpoolsOK, Rotating, Closing, Recovering, Starting
    <2>1. open' \subseteq Slugs
      BY <2>0 DEF SpoolsOK, JobOK
    <2>2. buf' \in [Slugs -> Buffer]
      BY <2>0, DrainType DEF SpoolsOK
    <2>3. bytes' \in [Slugs -> Nat]
      BY <2>0 DEF SpoolsOK, JobOK, TmpOK, Control, File, Rotating, Closing, Recovering, Starting
    <2>4. seq' \in 1..MaxSeq
      BY DEF SpoolsOK
    <2> QED
      BY <2>1, <2>2, <2>3, <2>4 DEF SpoolsOK
  <1>6. HistoryOK'
    BY DEF HistoryOK, JobOK
  <1>7. Attached'
    BY DrainType, EmptyFileType, PutType, CutType, PaddedType DEF Attached, TmpOK, JobOK,
       SpoolsOK, Control, Rotating, Closing, Recovering, Starting
  <1>8. Control'
    BY DrainType, EmptyFileType, PutType, CutType, PaddedType DEF Attached, TmpOK, JobOK,
       Control, PCs, Rotating, Closing, Recovering, Starting
  <1>9. Reserved'
    BY FreeNamesType DEF Reserved, JobOK, SpoolsOK, Control, With, PCs, Rotating, Closing,
       Recovering, Starting
  <1> QED
    BY <1>1, <1>2, <1>3, <1>4, <1>5, <1>6, <1>7, <1>8, <1>9 DEF Shape

LEMMA ShapeRotatePad == Shape /\ RotatePad => Shape'
  <1> SUFFICES ASSUME TypeOK, Attached, Control, Reserved, RotatePad PROVE Shape'
    BY DEF Shape
  <1> USE SpoolAssumptions, AbsentAssumptions DEF TypeOK, RotatePad, Gone, GiveUp, Fault, Fails, Abort, OpenFresh, Pending, Drain, Continue, Failed, Reopen, Stranded, Moved, TornTmp, NoJob, NewJob, Take, disk, job, work, spools, history, budget
  <1>1. TmpOK'
    BY EmptyFileType, DrainType, PutType, CutType, PaddedType DEF TmpOK, JobOK, SpoolsOK,
       Control, Sized, Fragment, Rotating, Closing, Recovering, Starting
  <1>2. FilesOK'
    BY EmptyFileType, WithOK, WithoutOK, FreeNamesType DEF FilesOK, TmpOK, StageOK, SpoolsOK,
       JobOK, Reserved, Control, Rotating, Closing, Recovering, Starting
  <1>3. StageOK'
    BY StageOfType DEF StageOK, TmpOK, Control, File
  <1>4. JobOK'
    BY FreeNamesType DEF JobOK, SpoolsOK, Control, PCs, Rotating, Closing, Recovering, Starting
  <1>5. SpoolsOK'
    BY DrainType, BufferType, FreeNamesType, NextSeqType DEF JobOK, SpoolsOK, TmpOK, Control,
       Reserved, Name, File, Rotating, Closing, Recovering, Starting
  <1>6. HistoryOK'
    BY DEF HistoryOK, JobOK
  <1>7. Attached'
    <2>1. slug \in Slugs /\ slug \notin open
      BY DEF Control, Rotating, Closing
    <2>2. tmp[slug] \in File
      BY <2>1 DEF TmpOK, Control, Closing
    <2>3. buf[slug] = <<>>
      BY DEF Control, Rotating, Closing
    <2>4. tmp[slug].size > 0 => Cut(tmp[slug]) # NoFile
      BY <2>2, CutType
    <2>5. \A s \in Slugs : s # slug => tmp'[s] = tmp[s]
      BY <2>1 DEF TmpOK
    <2> QED
      BY <2>1, <2>2, <2>3, <2>4, <2>5 DEF Attached, TmpOK
  <1>8. Control'
    BY DrainType, EmptyFileType, PutType, CutType, PaddedType DEF Attached, TmpOK, JobOK,
       Control, PCs, Rotating, Closing, Recovering, Starting
  <1>9. Reserved'
    BY FreeNamesType DEF Reserved, JobOK, SpoolsOK, Control, With, PCs, Rotating, Closing,
       Recovering, Starting
  <1> QED
    BY <1>1, <1>2, <1>3, <1>4, <1>5, <1>6, <1>7, <1>8, <1>9 DEF Shape

LEMMA ShapeRotatePadFinish == Shape /\ RotatePadFinish => Shape'
  <1> SUFFICES ASSUME TypeOK, Attached, Control, Reserved, RotatePadFinish PROVE Shape'
    BY DEF Shape
  <1> USE SpoolAssumptions, AbsentAssumptions DEF TypeOK, RotatePadFinish, Gone, GiveUp, Fault, Fails, Abort, OpenFresh, Pending, Drain, Continue, Failed, Reopen, Stranded, Moved, TornTmp, NoJob, NewJob, Take, disk, job, work, spools, history, budget
  <1>1. TmpOK'
    <2>1. slug \in Slugs /\ tmp[slug] \in File
      BY DEF TmpOK, Control, Closing
    <2>2. Padded(tmp[slug]) \in File
      BY <2>1, PaddedType
    <2>3. \A n \in tmp[slug].size..(MinPublished - 1) : Sized(tmp[slug], n) \in File
      BY <2>1 DEF Sized, File
    <2> QED
      BY <2>1, <2>2, <2>3 DEF TmpOK
  <1>2. FilesOK'
    BY EmptyFileType, WithOK, WithoutOK, FreeNamesType DEF FilesOK, TmpOK, StageOK, SpoolsOK,
       JobOK, Reserved, Control, Rotating, Closing, Recovering, Starting
  <1>3. StageOK'
    BY StageOfType DEF StageOK, TmpOK, Control, File
  <1>4. JobOK'
    BY FreeNamesType DEF JobOK, SpoolsOK, Control, PCs, Rotating, Closing, Recovering, Starting
  <1>5. SpoolsOK'
    BY DrainType, BufferType, FreeNamesType, NextSeqType DEF JobOK, SpoolsOK, TmpOK, Control,
       Reserved, Name, File, Rotating, Closing, Recovering, Starting
  <1>6. HistoryOK'
    BY DEF HistoryOK, JobOK
  <1>7. Attached'
    <2>1. slug \in Slugs /\ tmp[slug] \in File
      BY DEF TmpOK, Control, Closing
    <2>2. Padded(tmp[slug]) # NoFile
      BY <2>1, PaddedType
    <2>3. \A n \in tmp[slug].size..(MinPublished - 1) : Sized(tmp[slug], n) # NoFile
      BY <2>1 DEF Sized, File
    <2>4. \A s \in Slugs : tmp[s] # NoFile => tmp'[s] # NoFile
      BY <2>1, <2>2, <2>3 DEF TmpOK
    <2> QED
      BY <2>1, <2>4 DEF Attached
  <1>8. Control'
    BY DrainType, EmptyFileType, PutType, CutType, PaddedType DEF Attached, TmpOK, JobOK,
       Control, PCs, Rotating, Closing, Recovering, Starting
  <1>9. Reserved'
    BY FreeNamesType DEF Reserved, JobOK, SpoolsOK, Control, With, PCs, Rotating, Closing,
       Recovering, Starting
  <1> QED
    BY <1>1, <1>2, <1>3, <1>4, <1>5, <1>6, <1>7, <1>8, <1>9 DEF Shape

LEMMA ShapeRotateReserve == Shape /\ RotateReserve => Shape'
  <1> SUFFICES ASSUME TypeOK, Attached, Control, Reserved, RotateReserve PROVE Shape'
    BY DEF Shape
  <1> USE SpoolAssumptions, AbsentAssumptions DEF TypeOK, RotateReserve, Gone, GiveUp, Fault, Fails, Abort, OpenFresh, Pending, Drain, Continue, Failed, Reopen, Stranded, Moved, TornTmp, NoJob, NewJob, Take, disk, job, work, spools, history, budget
  <1>1. TmpOK'
    BY EmptyFileType, DrainType, PutType, CutType, PaddedType DEF TmpOK, JobOK, SpoolsOK,
       Control, Sized, Fragment, Rotating, Closing, Recovering, Starting
  <1>2. FilesOK'
    BY EmptyFileType, WithOK, WithoutOK, FreeNamesType DEF FilesOK, TmpOK, StageOK, SpoolsOK,
       JobOK, Reserved, Control, Rotating, Closing, Recovering, Starting
  <1>3. StageOK'
    BY StageOfType DEF StageOK, TmpOK, Control, File
  <1>4. JobOK'
    BY FreeNamesType DEF JobOK, SpoolsOK, Control, PCs, Rotating, Closing, Recovering, Starting
  <1>5. SpoolsOK'
    <2>0. slug \in Slugs
      BY DEF Control, SpoolsOK, Rotating, Closing, Recovering, Starting
    <2>1. open' \subseteq Slugs
      BY <2>0 DEF SpoolsOK, JobOK
    <2>2. buf' \in [Slugs -> Buffer]
      BY BufferType DEF SpoolsOK
    <2>3. bytes' \in [Slugs -> Nat]
      BY <2>0 DEF SpoolsOK, JobOK, TmpOK, Control, File, Rotating, Closing, Recovering, Starting
    <2>4. seq' \in 1..MaxSeq
      BY FreeNamesType, NextSeqType DEF SpoolsOK, JobOK, Control, Rotating, Closing,
         Recovering, Starting
    <2> QED
      BY <2>1, <2>2, <2>3, <2>4 DEF SpoolsOK
  <1>6. HistoryOK'
    BY DEF HistoryOK, JobOK
  <1>7. Attached'
    BY DrainType, EmptyFileType, PutType, CutType, PaddedType DEF Attached, TmpOK, JobOK,
       SpoolsOK, Control, Rotating, Closing, Recovering, Starting
  <1>8. Control'
    BY DrainType, EmptyFileType, PutType, CutType, PaddedType DEF Attached, TmpOK, JobOK,
       Control, PCs, Rotating, Closing, Recovering, Starting
  <1>9. Reserved'
    BY FreeNamesType DEF Reserved, JobOK, SpoolsOK, Control, With, PCs, Rotating, Closing,
       Recovering, Starting
  <1> QED
    BY <1>1, <1>2, <1>3, <1>4, <1>5, <1>6, <1>7, <1>8, <1>9 DEF Shape

LEMMA ShapeRotateRename == Shape /\ RotateRename => Shape'
  <1> SUFFICES ASSUME TypeOK, Attached, Control, Reserved, RotateRename PROVE Shape'
    BY DEF Shape
  <1> USE SpoolAssumptions, AbsentAssumptions DEF TypeOK, RotateRename, Gone, GiveUp, Fault, Fails, Abort, OpenFresh, Pending, Drain, Continue, Failed, Reopen, Stranded, Moved, TornTmp, NoJob, NewJob, Take, disk, job, work, spools, history, budget
  <1>1. TmpOK'
    BY EmptyFileType, DrainType, PutType, CutType, PaddedType DEF TmpOK, JobOK, SpoolsOK,
       Control, Sized, Fragment, Rotating, Closing, Recovering, Starting
  <1>2. FilesOK'
    BY DiscardEffect, EmptyFileType, WithOK, WithoutOK, FreeNamesType DEF FilesOK, TmpOK, StageOK, SpoolsOK,
       JobOK, Reserved, Control, Rotating, Closing, Recovering, Starting
  <1>3. StageOK'
    BY StageOfType DEF StageOK, TmpOK, Control, File
  <1>4. JobOK'
    BY FreeNamesType DEF JobOK, SpoolsOK, Control, PCs, Rotating, Closing, Recovering, Starting
  <1>5. SpoolsOK'
    <2>0. slug \in Slugs /\ target.seq \in 1..MaxSeq
      BY DEF Reserved, FilesOK, Name, Control, Rotating, Closing, Recovering, Starting
    <2>1. open' \subseteq Slugs
      BY <2>0 DEF SpoolsOK, JobOK
    <2>2. buf' \in [Slugs -> Buffer]
      BY BufferType DEF SpoolsOK
    <2>3. bytes' \in [Slugs -> Nat]
      BY <2>0 DEF SpoolsOK, JobOK, TmpOK, Control, File, Rotating, Closing, Recovering, Starting
    <2>4. seq' \in 1..MaxSeq
      BY <2>0, NextSeqType DEF SpoolsOK, JobOK, Reserved, Name
    <2> QED
      BY <2>1, <2>2, <2>3, <2>4 DEF SpoolsOK
  <1>6. HistoryOK'
    BY DiscardEffect DEF HistoryOK, JobOK
  <1>7. Attached'
    <2>1. slug \in Slugs /\ slug \notin open /\ buf[slug] = <<>> /\ tmp[slug] # NoFile
      BY DEF Control, Rotating, Closing
    <2>2. \A s \in Slugs : s # slug => tmp'[s] = tmp[s]
      BY <2>1 DEF TmpOK
    <2> QED
      BY <2>1, <2>2 DEF Attached, TmpOK
  <1>8. Control'
    BY DrainType, EmptyFileType, PutType, CutType, PaddedType DEF Attached, TmpOK, JobOK,
       Control, PCs, Rotating, Closing, Recovering, Starting
  <1>9. Reserved'
    BY FreeNamesType DEF Reserved, JobOK, SpoolsOK, Control, With, PCs, Rotating, Closing,
       Recovering, Starting
  <1> QED
    BY <1>1, <1>2, <1>3, <1>4, <1>5, <1>6, <1>7, <1>8, <1>9 DEF Shape

LEMMA ShapeRotateReplace == Shape /\ RotateReplace => Shape'
  <1> SUFFICES ASSUME TypeOK, Attached, Control, Reserved, RotateReplace PROVE Shape'
    BY DEF Shape
  <1> USE SpoolAssumptions, AbsentAssumptions DEF TypeOK, RotateReplace, Gone, GiveUp, Fault, Fails, Abort, OpenFresh, Pending, Drain, Continue, Failed, Reopen, Stranded, Moved, TornTmp, NoJob, NewJob, Take, disk, job, work, spools, history, budget
  <1>1. TmpOK'
    BY EmptyFileType, DrainType, PutType, CutType, PaddedType DEF TmpOK, JobOK, SpoolsOK,
       Control, Sized, Fragment, Rotating, Closing, Recovering, Starting
  <1>2. FilesOK'
    BY EmptyFileType, WithOK, WithoutOK, FreeNamesType DEF FilesOK, TmpOK, StageOK, SpoolsOK,
       JobOK, Reserved, Control, Rotating, Closing, Recovering, Starting
  <1>3. StageOK'
    BY StageOfType DEF StageOK, TmpOK, Control, File
  <1>4. JobOK'
    BY FreeNamesType DEF JobOK, SpoolsOK, Control, PCs, Rotating, Closing, Recovering, Starting
  <1>5. SpoolsOK'
    <2>0. slug \in Slugs
      BY DEF Control, SpoolsOK, Rotating, Closing, Recovering, Starting
    <2>1. open' \subseteq Slugs
      BY <2>0 DEF SpoolsOK, JobOK
    <2>2. buf' \in [Slugs -> Buffer]
      BY <2>0, BufferType DEF SpoolsOK
    <2>3. bytes' \in [Slugs -> Nat]
      BY <2>0 DEF SpoolsOK, JobOK, TmpOK, Control, File, Rotating, Closing, Recovering, Starting
    <2>4. seq' \in 1..MaxSeq
      BY DEF SpoolsOK
    <2> QED
      BY <2>1, <2>2, <2>3, <2>4 DEF SpoolsOK
  <1>6. HistoryOK'
    BY DEF HistoryOK, JobOK
  <1>7. Attached'
    BY DrainType, EmptyFileType, PutType, CutType, PaddedType DEF Attached, TmpOK, JobOK,
       SpoolsOK, Control, Rotating, Closing, Recovering, Starting
  <1>8. Control'
    BY DrainType, EmptyFileType, PutType, CutType, PaddedType DEF Attached, TmpOK, JobOK,
       Control, PCs, Rotating, Closing, Recovering, Starting
  <1>9. Reserved'
    BY FreeNamesType DEF Reserved, JobOK, SpoolsOK, Control, With, PCs, Rotating, Closing,
       Recovering, Starting
  <1> QED
    BY <1>1, <1>2, <1>3, <1>4, <1>5, <1>6, <1>7, <1>8, <1>9 DEF Shape

LEMMA ShapeRotateStale == Shape /\ RotateStale => Shape'
  <1> SUFFICES ASSUME TypeOK, Attached, Control, Reserved, RotateStale PROVE Shape'
    BY DEF Shape
  <1> USE SpoolAssumptions, AbsentAssumptions DEF TypeOK, RotateStale, Gone, GiveUp, Fault, Fails, Abort, OpenFresh, Pending, Drain, Continue, Failed, Reopen, Stranded, Moved, TornTmp, NoJob, NewJob, Take, disk, job, work, spools, history, budget
  <1>1. TmpOK'
    BY EmptyFileType, DrainType, PutType, CutType, PaddedType DEF TmpOK, JobOK, SpoolsOK,
       Control, Sized, Fragment, Rotating, Closing, Recovering, Starting
  <1>2. FilesOK'
    BY EmptyFileType, WithOK, WithoutOK, FreeNamesType DEF FilesOK, TmpOK, StageOK, SpoolsOK,
       JobOK, Reserved, Control, Rotating, Closing, Recovering, Starting
  <1>3. StageOK'
    BY StageOfType DEF StageOK, TmpOK, Control, File
  <1>4. JobOK'
    BY FreeNamesType DEF JobOK, SpoolsOK, Control, PCs, Rotating, Closing, Recovering, Starting
  <1>5. SpoolsOK'
    BY DrainType, BufferType, FreeNamesType, NextSeqType DEF JobOK, SpoolsOK, TmpOK, Control,
       Reserved, Name, File, Rotating, Closing, Recovering, Starting
  <1>6. HistoryOK'
    <2>1. \A n \in DOMAIN files : RecordsOf(files[n]) \subseteq Records
      BY RecordsOfType DEF FilesOK
    <2>2. pruned' \subseteq Records
      BY <2>1 DEF HistoryOK, Quarantines
    <2> QED
      BY <2>2 DEF HistoryOK
  <1>7. Attached'
    BY DrainType, EmptyFileType, PutType, CutType, PaddedType DEF Attached, TmpOK, JobOK,
       SpoolsOK, Control, Rotating, Closing, Recovering, Starting
  <1>8. Control'
    BY DrainType, EmptyFileType, PutType, CutType, PaddedType DEF Attached, TmpOK, JobOK,
       Control, PCs, Rotating, Closing, Recovering, Starting
  <1>9. Reserved'
    BY FreeNamesType DEF Reserved, JobOK, SpoolsOK, Control, With, PCs, Rotating, Closing,
       Recovering, Starting
  <1> QED
    BY <1>1, <1>2, <1>3, <1>4, <1>5, <1>6, <1>7, <1>8, <1>9 DEF Shape

LEMMA ShapeFinalizeAll == Shape /\ FinalizeAll => Shape'
  <1> SUFFICES ASSUME TypeOK, Attached, Control, Reserved, FinalizeAll PROVE Shape'
    BY DEF Shape
  <1> USE SpoolAssumptions, AbsentAssumptions DEF TypeOK, FinalizeAll, Gone, GiveUp, Fault, Fails, Abort, OpenFresh, Pending, Drain, Continue, Failed, Reopen, Stranded, Moved, TornTmp, NoJob, NewJob, Take, disk, job, work, spools, history, budget
  <1>1. TmpOK'
    BY EmptyFileType, DrainType, PutType, CutType, PaddedType DEF TmpOK, JobOK, SpoolsOK,
       Control, Sized, Fragment, Rotating, Closing, Recovering, Starting
  <1>2. FilesOK'
    BY EmptyFileType, WithOK, WithoutOK, FreeNamesType DEF FilesOK, TmpOK, StageOK, SpoolsOK,
       JobOK, Reserved, Control, Rotating, Closing, Recovering, Starting
  <1>3. StageOK'
    BY StageOfType DEF StageOK, TmpOK, Control, File
  <1>4. JobOK'
    BY FreeNamesType DEF JobOK, SpoolsOK, Control, PCs, Rotating, Closing, Recovering, Starting
  <1>5. SpoolsOK'
    BY DrainType, BufferType, FreeNamesType, NextSeqType DEF JobOK, SpoolsOK, TmpOK, Control,
       Reserved, Name, File, Rotating, Closing, Recovering, Starting
  <1>6. HistoryOK'
    BY DEF HistoryOK, JobOK
  <1>7. Attached'
    BY DrainType, EmptyFileType, PutType, CutType, PaddedType DEF Attached, TmpOK, JobOK,
       SpoolsOK, Control, Rotating, Closing, Recovering, Starting
  <1>8. Control'
    BY DrainType, EmptyFileType, PutType, CutType, PaddedType DEF Attached, TmpOK, JobOK,
       Control, PCs, Rotating, Closing, Recovering, Starting
  <1>9. Reserved'
    BY FreeNamesType DEF Reserved, JobOK, SpoolsOK, Control, With, PCs, Rotating, Closing,
       Recovering, Starting
  <1> QED
    BY <1>1, <1>2, <1>3, <1>4, <1>5, <1>6, <1>7, <1>8, <1>9 DEF Shape

LEMMA ShapeTakeNext == Shape /\ TakeNext => Shape'
  <1> SUFFICES ASSUME TypeOK, Attached, Control, Reserved, TakeNext PROVE Shape'
    BY DEF Shape
  <1> USE SpoolAssumptions, AbsentAssumptions DEF TypeOK, TakeNext, Gone, GiveUp, Fault, Fails, Abort, OpenFresh, Pending, Drain, Continue, Failed, Reopen, Stranded, Moved, TornTmp, NoJob, NewJob, Take, disk, job, work, spools, history, budget
  <1>1. TmpOK'
    BY EmptyFileType, DrainType, PutType, CutType, PaddedType DEF TmpOK, JobOK, SpoolsOK,
       Control, Sized, Fragment, Rotating, Closing, Recovering, Starting
  <1>2. FilesOK'
    BY EmptyFileType, WithOK, WithoutOK, FreeNamesType DEF FilesOK, TmpOK, StageOK, SpoolsOK,
       JobOK, Reserved, Control, Rotating, Closing, Recovering, Starting
  <1>3. StageOK'
    BY StageOfType DEF StageOK, TmpOK, Control, File
  <1>4. JobOK'
    BY FreeNamesType DEF JobOK, SpoolsOK, Control, PCs, Rotating, Closing, Recovering, Starting
  <1>5. SpoolsOK'
    BY DrainType, BufferType, FreeNamesType, NextSeqType DEF JobOK, SpoolsOK, TmpOK, Control,
       Reserved, Name, File, Rotating, Closing, Recovering, Starting
  <1>6. HistoryOK'
    BY DEF HistoryOK, JobOK
  <1>7. Attached'
    BY DrainType, EmptyFileType, PutType, CutType, PaddedType DEF Attached, TmpOK, JobOK,
       SpoolsOK, Control, Rotating, Closing, Recovering, Starting
  <1>8. Control'
    BY DrainType, EmptyFileType, PutType, CutType, PaddedType DEF Attached, TmpOK, JobOK,
       Control, PCs, Rotating, Closing, Recovering, Starting
  <1>9. Reserved'
    BY FreeNamesType DEF Reserved, JobOK, SpoolsOK, Control, With, PCs, Rotating, Closing,
       Recovering, Starting
  <1> QED
    BY <1>1, <1>2, <1>3, <1>4, <1>5, <1>6, <1>7, <1>8, <1>9 DEF Shape

LEMMA ShapeExit == Shape /\ Exit => Shape'
  <1> SUFFICES ASSUME TypeOK, Attached, Control, Reserved, Exit PROVE Shape'
    BY DEF Shape
  <1> USE SpoolAssumptions, AbsentAssumptions DEF TypeOK, Exit, Gone, GiveUp, Fault, Fails, Abort, OpenFresh, Pending, Drain, Continue, Failed, Reopen, Stranded, Moved, TornTmp, NoJob, NewJob, Take, disk, job, work, spools, history, budget
  <1>1. TmpOK'
    <2>1. CASE tmp' = tmp
      BY <2>1 DEF TmpOK
    <2>2. CASE \E s \in open : Drain(s)
      BY <2>2, DrainType DEF TmpOK, SpoolsOK
    <2> QED
      BY <2>1, <2>2
  <1>2. FilesOK'
    BY EmptyFileType, WithOK, WithoutOK, FreeNamesType DEF FilesOK, TmpOK, StageOK, SpoolsOK,
       JobOK, Reserved, Control, Rotating, Closing, Recovering, Starting
  <1>3. StageOK'
    BY StageOfType DEF StageOK, TmpOK, Control, File
  <1>4. JobOK'
    BY FreeNamesType DEF JobOK, SpoolsOK, Control, PCs, Rotating, Closing, Recovering, Starting
  <1>5. SpoolsOK'
    <2>1. open' \subseteq Slugs
      BY DEF SpoolsOK, JobOK
    <2>2. buf' \in [Slugs -> Buffer]
      <3>1. CASE \E s \in open : Drain(s)
        BY <3>1, DrainType DEF SpoolsOK
      <3>2. CASE Gone
        BY <3>2, BufferType DEF SpoolsOK
      <3> QED
        BY <3>1, <3>2
    <2>3. bytes' \in [Slugs -> Nat]
      BY DEF SpoolsOK, JobOK, TmpOK, Control, File, Rotating, Closing, Recovering, Starting
    <2>4. seq' \in 1..MaxSeq
      BY DEF SpoolsOK
    <2> QED
      BY <2>1, <2>2, <2>3, <2>4 DEF SpoolsOK
  <1>6. HistoryOK'
    BY DEF HistoryOK, JobOK
  <1>7. Attached'
    BY DrainType, EmptyFileType, PutType, CutType, PaddedType DEF Attached, TmpOK, JobOK,
       SpoolsOK, Control, Rotating, Closing, Recovering, Starting
  <1>8. Control'
    BY DrainType, EmptyFileType, PutType, CutType, PaddedType DEF Attached, TmpOK, JobOK,
       Control, PCs, Rotating, Closing, Recovering, Starting
  <1>9. Reserved'
    BY FreeNamesType DEF Reserved, JobOK, SpoolsOK, Control, With, PCs, Rotating, Closing,
       Recovering, Starting
  <1> QED
    BY <1>1, <1>2, <1>3, <1>4, <1>5, <1>6, <1>7, <1>8, <1>9 DEF Shape

LEMMA ShapeNext == Shape /\ [Next]_vars => Shape'
  <1> SUFFICES ASSUME Shape, [Next]_vars PROVE Shape'
    OBVIOUS
  <1>1. CASE Crash \/ Start
    BY <1>1, ShapeCrash, ShapeStart
  <1>2. CASE Recovery
    BY <1>2, ShapeSweep, ShapeRecoverRead, ShapeRecoverReserve, ShapeRecoverClaim,
       ShapeRecoverPublish, ShapeRecoverDispose, ShapeRecoverDone DEF Recovery
  <1>3. CASE Batch
    BY <1>3, ShapeEnsureSpool, ShapeWriteDoc, ShapeSpill, ShapeRotateIfNeeded,
       ShapeFlushGroup, ShapeEndBatch DEF Batch
  <1>4. CASE Rotation
    BY <1>4, ShapeRotateFlush, ShapeRotatePad, ShapeRotatePadFinish, ShapeRotateReserve,
       ShapeRotateRename, ShapeRotateReplace, ShapeTakeNext DEF Rotation
  <1>5. CASE Exit \/ BeginBatch \/ RotateStale \/ FinalizeAll
    BY <1>5, ShapeExit, ShapeBeginBatch, ShapeRotateStale, ShapeFinalizeAll
  <1>6. CASE UNCHANGED vars
    BY <1>6 DEF vars, disk, job, work, spools, history, budget, Shape, TypeOK, TmpOK, FilesOK,
       StageOK, JobOK, SpoolsOK, HistoryOK, Attached, Control, Reserved
  <1> QED
    BY <1>1, <1>2, <1>3, <1>4, <1>5, <1>6 DEF Next, Working

\* Shape holds in every reachable state.
THEOREM ShapeInvariant == Spec => []Shape
  BY ShapeInit, ShapeNext, PTL DEF Spec

\* The state of the writer and of the directory is always well formed, whatever
\* calls fail and wherever the process dies.
THEOREM TypeCorrect == Spec => []TypeOK
  <1>1. Shape => TypeOK
    BY DEF Shape
  <1> QED
    BY <1>1, ShapeInvariant, PTL

-----------------------------------------------------------------------------
(* Finals are never touched again *)

FinalsStep == \A n \in Finals : files[n] # EmptyFile =>
                 n \in DOMAIN files' /\ files'[n] = files[n]

LEMMA ReservationKeeps ==
  ASSUME NEW s, NEW e, NEW n \in FreeNames(s, e), files' = With(n, EmptyFile)
  PROVE  FinalsStep
  BY FreeNamesFresh DEF FinalsStep, Finals, With

LEMMA FinalsRecovery == Shape /\ Recovery => FinalsStep
  <1> SUFFICES ASSUME Shape, Recovery PROVE FinalsStep
    OBVIOUS
  <1> USE AbsentAssumptions DEF FinalsStep, Finals, With, Without, Restrict, Shape, TypeOK,
      FilesOK, JobOK, SpoolsOK, Reserved, disk
  <1>1. CASE Sweep \/ RecoverRead \/ RecoverDone
    BY <1>1 DEF Sweep, RecoverRead, RecoverDone
  <1>2. CASE RecoverReserve
    <2>1. \/ files' = files \/ files' = Without({})
          \/ \E n \in FreeNames(slug, "quarantine") : files' = With(n, EmptyFile)
      BY <1>2, AbandonStage DEF RecoverReserve
    <2>2. CASE files' = Without({})
      BY <2>2
    <2> QED
      BY <2>1, <2>2, ReservationKeeps
  <1>3. CASE RecoverClaim
    <2>1. \/ files' = files \/ \E gone \in SUBSET {aside} : files' = Without(gone)
          \/ \E n \in FreeNames(slug, "ndjson") : files' = With(n, EmptyFile)
      BY <1>3, AbandonEffect DEF RecoverClaim
    <2>2. CASE \E gone \in SUBSET {aside} : files' = Without(gone)
      BY <2>2
    <2> QED
      BY <2>1, <2>2, ReservationKeeps
  <1>4. CASE RecoverPublish
    <2>1. files' = With(target, stage) \/ \E gone \in SUBSET {target, aside} : files' = Without(gone)
      BY <1>4, AbandonEffect DEF RecoverPublish
    <2>2. pc = "publish"
      BY <1>4 DEF RecoverPublish
    <2>3. CASE \E gone \in SUBSET {target, aside} : files' = Without(gone)
      BY <2>2, <2>3
    <2> QED
      BY <2>1, <2>2, <2>3
  <1>5. CASE RecoverDispose
    <2>1. \/ files' = files
          \/ aside # None /\ files' = With(aside, tmp[slug])
          \/ Discard({aside})
      BY <1>5 DEF RecoverDispose
    <2>2. CASE Discard({aside})
      <3>1. \E gone \in SUBSET {aside} : files' = Without(gone)
        BY <2>2, DiscardEffect
      <3> QED
        BY <3>1
    <2> QED
      BY <2>1, <2>2
  <1> QED
    BY <1>1, <1>2, <1>3, <1>4, <1>5 DEF Recovery

LEMMA FinalsRotation == Shape /\ Rotation => FinalsStep
  <1> SUFFICES ASSUME Shape, Rotation PROVE FinalsStep
    OBVIOUS
  <1> USE AbsentAssumptions DEF FinalsStep, Finals, With, Without, Restrict, Shape, TypeOK,
      FilesOK, JobOK, SpoolsOK, Reserved, disk
  <1>1. CASE RotateFlush \/ RotatePad \/ RotatePadFinish \/ RotateReplace \/ TakeNext
    BY <1>1 DEF RotateFlush, Drain, RotatePad, RotatePadFinish, RotateReplace, TakeNext
  <1>2. CASE RotateReserve
    <2>1. files' = files \/ \E n \in FreeNames(slug, "ndjson") : files' = With(n, EmptyFile)
      BY <1>2 DEF RotateReserve
    <2> QED
      BY <2>1, ReservationKeeps
  <1>3. CASE RotateRename
    <2>1. files' = With(target, tmp[slug]) \/ \E gone \in SUBSET {target} : files' = Without(gone)
      BY <1>3, DiscardEffect DEF RotateRename
    <2>2. pc = "rotRename"
      BY <1>3 DEF RotateRename
    <2>3. CASE \E gone \in SUBSET {target} : files' = Without(gone)
      BY <2>2, <2>3
    <2> QED
      BY <2>1, <2>2, <2>3
  <1> QED
    BY <1>1, <1>2, <1>3 DEF Rotation

\* The producer never deletes, empties or rewrites a final that holds records:
\* reservation takes free names only, publication renames over its own empty
\* reservation, and retention deletes quarantine files only.
THEOREM FinalsNeverTouched == Spec => FinalsKept
  <1>1. Shape /\ [Next]_vars => [FinalsStep]_vars
    <2> SUFFICES ASSUME Shape, Next PROVE FinalsStep
      OBVIOUS
    <2>1. CASE Crash \/ Start \/ BeginBatch \/ FinalizeAll \/ Exit \/ Batch
      BY <2>1 DEF FinalsStep, Finals, Crash, Start, BeginBatch, FinalizeAll, Exit, Batch,
         EnsureSpool, WriteDoc, Spill, Drain, RotateIfNeeded, FlushGroup, EndBatch, disk
    <2>2. CASE RotateStale
      BY <2>2 DEF RotateStale, FinalsStep, Finals, Quarantines, Without, Restrict
    <2> QED
      BY <2>1, <2>2, FinalsRecovery, FinalsRotation DEF Next, Working
  <1> QED
    BY <1>1, ShapeInvariant, PTL DEF Spec, FinalsKept, FinalsStep

-----------------------------------------------------------------------------
(* Empty finals are names under reservation *)

Empties == {n \in Finals : files[n] = EmptyFile}
Reserving == IF pc \in {"publish", "rotRename"} THEN 1 ELSE 0

\* What may have left an empty final behind.
Excused == crashes + left

\* What publication renames over a reservation is never itself empty.
Filled ==
    /\ pc \in Recovering => stage # EmptyFile
    /\ pc \in {"rotReserve", "rotRename"} => tmp[slug].size > 0

FewInv == Shape /\ Filled /\ IsFiniteSet(Empties) /\ FewReservations

LEMMA FilledKept == Shape /\ Filled /\ [Next]_vars => Filled'
  <1> SUFFICES ASSUME Shape, Filled, [Next]_vars PROVE Filled'
    OBVIOUS
  <1> USE SpoolAssumptions DEF Filled, Recovering
  <1>0. NoFile # EmptyFile /\ TypeOK
    BY EmptyFileType, AbsentAssumptions DEF Shape
  <1>1. CASE Crash \/ Start \/ BeginBatch \/ FinalizeAll \/ RotateStale \/ Exit
    BY <1>1 DEF Crash, Gone, Start, BeginBatch, FinalizeAll, RotateStale, Exit, Drain
  <1>2. CASE Batch
    BY <1>2 DEF Batch, EnsureSpool, WriteDoc, Spill, Drain, RotateIfNeeded, FlushGroup, EndBatch, Abort
  <1>3. CASE Recovery
    <2>1. CASE RecoverRead
      <3>1. \A f : StageOf(f) # EmptyFile
        BY DEF StageOf, EmptyFile
      <3> QED
        BY <1>0, <2>1, <3>1 DEF RecoverRead, GiveUp, Gone
    <2>2. CASE Sweep \/ RecoverReserve \/ RecoverClaim \/ RecoverPublish \/ RecoverDispose \/ RecoverDone
      BY <1>0, <2>2 DEF Sweep, RecoverReserve, RecoverClaim, RecoverPublish, RecoverDispose, RecoverDone,
         GiveUp, Gone, disk
    <2> QED
      BY <1>3, <2>1, <2>2 DEF Recovery
  <1>4. CASE Rotation
    <2>1. CASE RotateFlush \/ RotateReplace \/ TakeNext \/ RotateRename
      BY <2>1 DEF RotateFlush, Drain, RotateReplace, TakeNext, RotateRename, Reopen, Failed, Abort, Continue
    <2>2. CASE RotatePad
      BY <1>0, <2>2 DEF RotatePad, Reopen, Failed, Abort, job, work, TypeOK, TmpOK, JobOK, Shape, Control,
         Closing, File
    <2>3. CASE RotatePadFinish
      BY <1>0, <2>3 DEF RotatePadFinish, Reopen, Failed, Abort, job, work, Padded, TypeOK, TmpOK, Shape, Control,
         Closing
    <2>4. CASE RotateReserve
      BY <2>4 DEF RotateReserve, Reopen, Failed, Abort, work
    <2> QED
      BY <1>4, <2>1, <2>2, <2>3, <2>4 DEF Rotation
  <1>5. CASE UNCHANGED vars
    BY <1>5 DEF vars, disk, job, work
  <1> QED
    BY <1>1, <1>2, <1>3, <1>4, <1>5 DEF Next, Working

\* The ways a step changes the empty finals.
Adds == \E n \in Finals' : n \notin Empties /\ Empties' = Empties \cup {n}
Drops == target \in Empties /\ Empties' = Empties \ {target}

LEMMA EmptiesStep ==
  ASSUME Shape, Filled, [Next]_vars
  PROVE  \/ Empties' = Empties /\ Excused' \in {Excused, Excused + 1} /\ Reserving = 0 /\ Reserving' = 0
         \/ UNCHANGED <<files, pc, crashes, left>>
         \/ Empties' = Empties /\ Excused' = Excused + 1 /\ Reserving' = 0
         \/ Adds /\ Excused' = Excused /\ Reserving' = 1 /\ Reserving = 0
         \/ Drops /\ Excused' \in {Excused, Excused + 1} /\ Reserving' = 0 /\ Reserving = 1
  <1> USE AbsentAssumptions DEF Reserving, budget
  <1>a. crashes \in Nat /\ left \in Nat
    BY DEF Shape, TypeOK, HistoryOK
  <1>b. UNCHANGED <<crashes, left>> => Excused' = Excused
    BY DEF Excused
  <1>c. crashes' = crashes /\ left' \in {left, left + 1} => Excused' \in {Excused, Excused + 1}
    <2>1. crashes' = crashes /\ left' = left => Excused' = Excused
      BY DEF Excused
    <2>2. crashes' = crashes /\ left' = left + 1 => Excused' = Excused + 1
      BY <1>a DEF Excused
    <2> QED
      BY <2>1, <2>2
  <1>d. \/ crashes' = crashes /\ left' = left + 1
        \/ crashes' = crashes + 1 /\ left' = left
        => Excused' = Excused + 1
    BY <1>a DEF Excused
  <1>0. TypeOK /\ FilesOK /\ Reserved /\ Control
    BY DEF Shape, TypeOK
  <1>1. files' = files => Empties' = Empties
    BY DEF Empties, Finals
  <1>2. ASSUME NEW n \in FreeNames(slug, "quarantine"), files' = With(n, EmptyFile)
        PROVE  Empties' = Empties
    <2>1. n.ext # "ndjson" /\ n \notin DOMAIN files
      BY <1>2 DEF FreeNames
    <2> QED
      BY <1>2, <2>1 DEF Empties, Finals, With
  <1>3. ASSUME NEW n \in FreeNames(slug, "ndjson"), files' = With(n, EmptyFile)
        PROVE  Adds
    <2>1. n.ext = "ndjson" /\ n \notin DOMAIN files
      BY <1>3 DEF FreeNames
    <2> QED
      BY <1>3, <2>1 DEF Adds, Empties, Finals, With
  <1>4. ASSUME NEW S, \A n \in S \cap DOMAIN files : n.ext # "ndjson", files' = Without(S)
        PROVE  Empties' = Empties
    BY <1>4 DEF Empties, Finals, Without, Restrict
  <1>5. ASSUME pc \in {"publish", "rotRename"}, NEW f, f # EmptyFile, files' = With(target, f)
        PROVE  Drops
    BY <1>0, <1>5 DEF Drops, Empties, Finals, With, Reserved
  <1>6. ASSUME pc \in {"publish", "rotRename"}, NEW S, \A n \in S \cap DOMAIN files : n.ext # "ndjson",
               files' = Without({target} \cup S)
        PROVE  Drops
    BY <1>0, <1>6 DEF Drops, Empties, Finals, Without, Restrict, Reserved
  <1>7. \A n \in {aside} \cap DOMAIN files : n.ext # "ndjson"
    BY <1>0 DEF Reserved, TypeOK, FilesOK
  <1>e. ASSUME pc \in {"publish", "rotRename"}, pc' \notin {"publish", "rotRename"}, crashes' = crashes,
               Abandon({target, aside}) \/ Discard({target})
        PROVE  \/ Empties' = Empties /\ Excused' = Excused + 1 /\ Reserving' = 0
               \/ Drops /\ Excused' \in {Excused, Excused + 1} /\ Reserving' = 0 /\ Reserving = 1
    <2>1. target \in DOMAIN files
      BY <1>0, <1>e DEF Reserved
    <2>2. \E gone \in SUBSET {target, aside} :
             /\ files' = Without(gone)
             /\ left' \in {left, left + 1}
             /\ target \notin gone => left' = left + 1
      <3>1. CASE Abandon({target, aside})
        <4>1. PICK gone \in SUBSET {target, aside}, kept \in {NoFile, stage} :
                 /\ files' = Without(gone)
                 /\ Ignored(~({target, aside} \cap DOMAIN files \subseteq gone) \/ kept # NoFile)
          BY <3>1 DEF Abandon
        <4>2. target \notin gone => ~({target, aside} \cap DOMAIN files \subseteq gone)
          BY <2>1
        <4> QED
          BY <4>1, <4>2 DEF Ignored
      <3>2. CASE Discard({target})
        <4>1. PICK gone \in SUBSET {target} :
                 /\ files' = Without(gone)
                 /\ Ignored(~({target} \cap DOMAIN files \subseteq gone))
          BY <3>2 DEF Discard
        <4>2. target \notin gone => ~({target} \cap DOMAIN files \subseteq gone)
          BY <2>1
        <4> QED
          BY <4>1, <4>2 DEF Ignored
      <3> QED
        BY <1>e, <3>1, <3>2
    <2>3. PICK gone \in SUBSET {target, aside} :
             /\ files' = Without(gone)
             /\ left' \in {left, left + 1}
             /\ target \notin gone => left' = left + 1
      BY <2>2
    <2>4. CASE target \in gone
      <3>1. gone = {target} \cup (gone \ {target})
        BY <2>4
      <3>2. \A n \in (gone \ {target}) \cap DOMAIN files : n.ext # "ndjson"
        BY <1>7
      <3>3. Drops
        BY <1>e, <1>6, <2>3, <3>1, <3>2
      <3> QED
        BY <1>c, <1>e, <2>3, <3>3
    <2>5. CASE target \notin gone
      <3>1. \A n \in gone \cap DOMAIN files : n.ext # "ndjson"
        BY <1>7, <2>5
      <3>2. Empties' = Empties
        BY <1>4, <2>3, <3>1
      <3> QED
        BY <1>d, <1>e, <2>3, <2>5, <3>2
    <2> QED
      BY <2>4, <2>5
  <1>f. ASSUME \/ Abandon({}) \/ Abandon({aside}) \/ Discard({aside})
        PROVE  Empties' = Empties /\ left' \in {left, left + 1}
    <2>1. \E gone \in SUBSET {aside} : files' = Without(gone)
      <3>1. CASE Abandon({})
        BY <3>1, AbandonStage
      <3>2. CASE Abandon({aside}) \/ Discard({aside})
        BY <3>2, AbandonEffect, DiscardEffect
      <3> QED
        BY <1>f, <3>1, <3>2
    <2>2. left' \in {left, left + 1}
      BY <1>f DEF Abandon, Discard, Ignored
    <2> QED
      BY <1>4, <1>7, <2>1, <2>2
  <1>8. CASE Crash \/ Start \/ BeginBatch \/ FinalizeAll \/ RotateStale \/ Exit \/ Batch
    <2>1. CASE RotateStale
      <3>1. PICK old \in SUBSET Quarantines : files' = Without(old)
        BY <2>1 DEF RotateStale
      <3>2. \A n \in old \cap DOMAIN files : n.ext # "ndjson"
        BY DEF Quarantines
      <3> QED
        BY <1>b, <1>4, <2>1, <3>1, <3>2 DEF RotateStale
    <2>2. CASE Crash
      BY <1>1, <1>d, <2>2 DEF Crash, Gone
    <2>3. CASE Start \/ BeginBatch \/ FinalizeAll \/ Exit
      BY <1>1, <1>b, <2>3 DEF Start, BeginBatch, FinalizeAll, Exit, Drain, Gone, disk
    <2>4. CASE Batch
      BY <1>1, <1>b, <2>4 DEF Batch, EnsureSpool, WriteDoc, Spill, Drain, RotateIfNeeded, FlushGroup, EndBatch,
         Abort, disk, Fault, Fails
    <2> QED
      BY <1>8, <2>1, <2>2, <2>3, <2>4
  <1>9. CASE Recovery
    <2> USE DEF GiveUp, Gone, Fault, Fails, disk
    <2>1. CASE Sweep \/ RecoverRead \/ RecoverDone
      BY <1>1, <1>b, <2>1 DEF Sweep, RecoverRead, RecoverDone
    <2>2. CASE RecoverReserve
      BY <1>1, <1>2, <1>b, <1>c, <1>f, <2>2 DEF RecoverReserve
    <2>3. CASE RecoverClaim
      BY <1>1, <1>3, <1>b, <1>c, <1>f, <2>3 DEF RecoverClaim
    <2>4. CASE RecoverPublish
      <3>1. stage # EmptyFile
        BY <2>4 DEF RecoverPublish, Filled, Recovering
      <3> QED
        BY <1>5, <1>b, <1>e, <2>4, <3>1 DEF RecoverPublish
    <2>5. CASE RecoverDispose
      <3>1. aside # None => aside.ext # "ndjson"
        BY <1>0 DEF Reserved
      <3>2. aside # None /\ files' = With(aside, tmp[slug]) => Empties' = Empties
        BY <3>1, <1>0 DEF Empties, Finals, With
      <3> QED
        BY <1>1, <1>b, <1>c, <1>f, <2>5, <3>2 DEF RecoverDispose
    <2> QED
      BY <1>9, <2>1, <2>2, <2>3, <2>4, <2>5 DEF Recovery
  <1>10. CASE Rotation
    <2> USE DEF Reopen, Failed, Abort, Fault, Fails, disk
    <2>1. CASE RotateFlush \/ RotatePad \/ RotatePadFinish \/ RotateReplace \/ TakeNext
      BY <1>1, <1>b, <2>1 DEF RotateFlush, Drain, RotatePad, RotatePadFinish, RotateReplace, TakeNext, Continue
    <2>2. CASE RotateReserve
      BY <1>1, <1>3, <1>b, <2>2 DEF RotateReserve
    <2>3. CASE RotateRename
      <3>1. tmp[slug] # EmptyFile
        BY <2>3 DEF RotateRename, Filled, EmptyFile
      <3>2. CASE files' = With(target, tmp[slug]) /\ UNCHANGED budget /\ pc' = "rotReplace"
        BY <1>5, <1>b, <2>3, <3>1, <3>2 DEF RotateRename
      <3>3. CASE Discard({target}) /\ Reopen(tmp[slug].size, faults + 1)
        <4>1. pc' \notin {"publish", "rotRename"} /\ crashes' = crashes
          BY <3>3
        <4> QED
          BY <1>e, <2>3, <3>3, <4>1 DEF RotateRename
      <3> QED
        BY <2>3, <3>2, <3>3 DEF RotateRename
    <2> QED
      BY <1>10, <2>1, <2>2, <2>3 DEF Rotation
  <1>11. CASE UNCHANGED vars
    BY <1>11 DEF vars, disk
  <1> QED
    BY <1>8, <1>9, <1>10, <1>11 DEF Next, Working

LEMMA FewStep == FewInv /\ [Next]_vars => FewInv'
  <1> SUFFICES ASSUME FewInv, [Next]_vars PROVE FewInv'
    OBVIOUS
  <1>1. Shape' /\ Filled'
    BY ShapeNext, FilledKept DEF FewInv
  <1>2. IsFiniteSet(Empties) /\ Cardinality(Empties) <= Excused + Reserving
        /\ Cardinality(Empties) \in Nat /\ Excused \in Nat
    BY FS_CardinalityType DEF Excused, FewInv, FewReservations, Empties, Reserving, Shape, TypeOK, HistoryOK
  <1>3. IsFiniteSet(Empties') /\ Cardinality(Empties') <= Excused' + Reserving'
    <2>1. CASE UNCHANGED <<files, pc, crashes, left>>
      BY <1>2, <2>1 DEF Excused, Empties, Finals, Reserving
    <2>2. CASE Adds /\ Excused' = Excused /\ Reserving' = 1 /\ Reserving = 0
      <3>1. PICK n : n \notin Empties /\ Empties' = Empties \cup {n}
        BY <2>2 DEF Adds
      <3>2. IsFiniteSet(Empties') /\ Cardinality(Empties') = Cardinality(Empties) + 1
        BY <1>2, <3>1, FS_AddElement
      <3> QED
        BY <1>2, <2>2, <3>2
    <2>3. CASE Drops /\ Excused' \in {Excused, Excused + 1} /\ Reserving' = 0 /\ Reserving = 1
      BY <1>2, <2>3, FS_RemoveElement DEF Drops
    <2>4. CASE Empties' = Empties /\ Excused' \in {Excused, Excused + 1} /\ Reserving = 0 /\ Reserving' = 0
      BY <1>2, <2>4
    <2>5. CASE Empties' = Empties /\ Excused' = Excused + 1 /\ Reserving' = 0
      <3>1. Reserving \in {0, 1}
        BY DEF Reserving
      <3> QED
        BY <1>2, <2>5, <3>1
    <2> QED
      BY <2>1, <2>2, <2>3, <2>4, <2>5, EmptiesStep DEF FewInv
  <1> QED
    BY <1>1, <1>3 DEF FewInv, FewReservations, Excused, Empties, Reserving

\* create_new, the rename over the reservation and its removal on an error: however
\* often publication fails or recovery is interrupted, there is at most one empty final
\* for each crash so far, one for each clean-up whose own failure the code ignored, and
\* one for the publication under way.
THEOREM ReservationsCleared == Spec => []FewReservations
  <1>1. Init => FewInv
    <2> SUFFICES ASSUME Init PROVE FewInv
      OBVIOUS
    <2>1. Empties = {} /\ Reserving = 0 /\ crashes = 0 /\ left = 0
      BY DEF Init, Empties, Finals, Reserving
    <2>2. Filled
      BY DEF Init, Filled, Recovering
    <2> QED
      BY <2>1, <2>2, ShapeInit, FS_EmptySet DEF FewInv, FewReservations, Empties, Reserving
  <1>2. FewInv => FewReservations
    BY DEF FewInv
  <1> QED
    BY <1>1, <1>2, FewStep, PTL DEF Spec

-----------------------------------------------------------------------------
(* The lines of finals *)

\* No write stops half-way, neither a record's nor the padding's.
NoTear == {"pad", "torn", "newline"} \cap Faults = {}

\* What a writer holds back are newlines and records in turn, a newline last.
Alternates(b) == \A i \in DOMAIN b : b[i] = NL <=> (Len(b) - i) % 2 = 0

LinesValid(f) == \A l \in Lines(f) : Valid(l)

\* A file and its writer: the lines parse, and what is held back ends the last one.
Clean(f, b) ==
    /\ LinesValid(f) /\ Alternates(b)
    /\ Len(b) % 2 = 0 => f.tail = <<>>
    /\ Len(b) % 2 = 1 => Valid(f.tail)

CleanFiles ==
    \A s \in Slugs : s \in open \/ (s = slug /\ pc \in Closing \ {"rotCut"})
        => Clean(tmp[s], buf[s])

\* Between the two writes of the padding the last line has no newline.
CutLine ==
    pc = "rotCut" =>
        LinesValid(tmp[slug]) /\ (tmp[slug].tail = <<>> \/ Valid(tmp[slug].tail))

StageWhole ==
    pc \in Recovering /\ stage # NoFile => LinesValid(stage) /\ stage.tail = <<>>

WholeInv == Shape /\ FinalsWhole /\ CleanFiles /\ CutLine /\ StageWhole

LEMMA EmptyClean == Clean(EmptyFile, <<>>)
  <1>1. Lines(EmptyFile) = {}
    BY DEF Lines, EmptyFile
  <1> QED
    BY <1>1 DEF Clean, LinesValid, Alternates, EmptyFile

LEMMA DrainClean ==
  ASSUME NEW f \in File, NEW b \in Buffer, b # <<>>, Clean(f, b)
  PROVE  Clean(Put(f, Head(b)), Tail(b))
  <1> DEFINE k == Len(b)
             h == Head(b)
             t == Tail(b)
  <1>1. /\ k \in Nat \ {0} /\ h = b[1] /\ h \in Records \cup {NL}
        /\ Len(t) = k - 1 /\ DOMAIN t = 1..(k - 1) /\ DOMAIN b = 1..k
        /\ \A i \in 1..(k - 1) : t[i] = b[i + 1]
    BY DEF Buffer
  <1>2. \A i \in 1..k : b[i] = NL <=> (k - i) % 2 = 0
    BY <1>1 DEF Clean, Alternates
  <1>3. Alternates(t)
    <2> SUFFICES ASSUME NEW i \in 1..(k - 1) PROVE t[i] = NL <=> ((k - 1) - i) % 2 = 0
      BY <1>1 DEF Alternates
    <2> HIDE DEF k, t
    <2>1. i + 1 \in 1..k /\ k - (i + 1) = (k - 1) - i
      BY <1>1
    <2> QED
      BY <1>1, <1>2, <2>1
  <1>4. h = NL <=> k % 2 = 1
    <2> HIDE DEF k, h
    <2>1. h = NL <=> (k - 1) % 2 = 0
      BY <1>1, <1>2
    <2>2. (k - 1) % 2 = 0 <=> k % 2 = 1
      BY <1>1
    <2> QED
      BY <2>1, <2>2
  <1>5. (k - 1) % 2 = 0 \/ (k - 1) % 2 = 1
    <2> HIDE DEF k
    <2> QED
      BY <1>1
  <1>6. CASE h = NL
    <2>1. Valid(f.tail) /\ k % 2 = 1
      BY <1>4, <1>6 DEF Clean
    <2>2. Put(f, h).tail = <<>> /\ Lines(Put(f, h)) \subseteq Lines(f) \cup {f.tail}
      BY <1>6 DEF Put, Lines
    <2>3. LinesValid(Put(f, h))
      BY <2>1, <2>2 DEF Clean, LinesValid
    <2>4. (k - 1) % 2 # 1
      <3> HIDE DEF k
      <3> QED
        BY <1>1, <2>1
    <2> QED
      BY <1>1, <1>3, <2>2, <2>3, <2>4 DEF Clean
  <1>7. CASE h # NL
    <2>1. k % 2 = 0
      <3> HIDE DEF k
      <3> QED
        BY <1>1, <1>4, <1>7
    <2>2. f.tail = <<>> /\ h \in Records
      BY <1>1, <1>7, <2>1 DEF Clean
    <2>3. Put(f, h).tail = <<h>> /\ Lines(Put(f, h)) = Lines(f)
      BY <1>7, <2>2 DEF Put, Lines
    <2>4. Valid(<<h>>)
      BY <2>2, SpoolAssumptions DEF Valid
    <2>5. LinesValid(Put(f, h))
      BY <2>3 DEF Clean, LinesValid
    <2>6. (k - 1) % 2 # 0
      <3> HIDE DEF k
      <3> QED
        BY <1>1, <2>1
    <2> QED
      BY <1>1, <1>3, <2>3, <2>4, <2>5, <2>6 DEF Clean
  <1> QED
    BY <1>6, <1>7

LEMMA WriteClean ==
  ASSUME NEW f, NEW b \in Buffer, NEW r \in Records, Clean(f, b)
  PROVE  Clean(f, b \o <<r, NL>>)
  <1> DEFINE k == Len(b)
             c == b \o <<r, NL>>
  <1>1. /\ k \in Nat /\ DOMAIN b = 1..k /\ Len(c) = k + 2 /\ DOMAIN c = 1..(k + 2)
        /\ \A i \in 1..k : c[i] = b[i]
        /\ c[k + 1] = r /\ c[k + 2] = NL
    BY DEF Buffer
  <1>2. \A i \in 1..k : b[i] = NL <=> (k - i) % 2 = 0
    BY <1>1 DEF Clean, Alternates
  <1>3. r # NL
    BY SpoolAssumptions
  <1>4. \A i \in 1..(k + 2) : c[i] = NL <=> ((k + 2) - i) % 2 = 0
    <2> HIDE DEF k, c
    <2> SUFFICES ASSUME NEW i \in 1..(k + 2) PROVE c[i] = NL <=> ((k + 2) - i) % 2 = 0
      OBVIOUS
    <2>1. CASE i = k + 2
      BY <1>1, <2>1
    <2>2. CASE i = k + 1
      BY <1>1, <1>3, <2>2
    <2>3. CASE i \in 1..k
      <3>1. ((k + 2) - i) % 2 = 0 <=> (k - i) % 2 = 0
        BY <1>1, <2>3
      <3> QED
        BY <1>1, <1>2, <2>3, <3>1
    <2> QED
      BY <1>1, <2>1, <2>2, <2>3
  <1>5. Alternates(c)
    BY <1>1, <1>4 DEF Alternates
  <1>6. (k + 2) % 2 = k % 2
    <2> HIDE DEF k
    <2> QED
      BY <1>1
  <1> QED
    BY <1>1, <1>5, <1>6 DEF Clean

LEMMA PaddingClean ==
  ASSUME NEW f \in File, LinesValid(f), f.tail = <<>> \/ Valid(f.tail)
  PROVE  /\ Clean(Padded(f), <<>>)
         /\ f.tail = <<>> => LinesValid(Cut(f)) /\ (Cut(f).tail = <<>> \/ Valid(Cut(f).tail))
  <1>1. Lines(Padded(f)) \subseteq Lines(f) \cup ({f.tail} \ {<<>>}) /\ Padded(f).tail = <<>>
    BY DEF Padded, Lines
  <1>2. LinesValid(Padded(f))
    BY <1>1 DEF LinesValid
  <1>3. Clean(Padded(f), <<>>)
    BY <1>1, <1>2 DEF Clean, Alternates
  <1>4. Lines(Cut(f)) \subseteq Lines(f) /\ (Cut(f).tail = <<>> \/ Cut(f).tail \in Lines(f))
    BY DEF Cut, Lines
  <1> QED
    BY <1>3, <1>4 DEF LinesValid

LEMMA StagedValid == \A f : LinesValid(StageOf(f)) /\ StageOf(f).tail = <<>>
  BY DEF StageOf, LinesValid, Lines

\* A final that is added is whole; what else happens to the files does not matter.
LEMMA FinalsStayWhole ==
  ASSUME FinalsWhole,
         \A n \in Finals' : (n \in Finals /\ files'[n] = files[n])
                            \/ (files'[n].tail = <<>> /\ LinesValid(files'[n]))
  PROVE  FinalsWhole'
  BY DEF FinalsWhole, LinesValid

LEMMA WholeReserve ==
  ASSUME FinalsWhole, NEW n, files' = With(n, EmptyFile)
  PROVE  FinalsWhole'
  <1>1. EmptyFile.tail = <<>> /\ LinesValid(EmptyFile)
    BY EmptyClean DEF Clean, EmptyFile
  <1> QED
    BY <1>1, FinalsStayWhole DEF Finals, With

LEMMA WholeRemove ==
  ASSUME FinalsWhole, NEW S, files' = Without(S)
  PROVE  FinalsWhole'
  BY FinalsStayWhole DEF Finals, Without, Restrict

LEMMA WholeSame == FinalsWhole /\ files' = files => FinalsWhole'
  BY DEF FinalsWhole, Finals

LEMMA WholeAdd ==
  ASSUME FinalsWhole, NEW n, NEW f, files' = With(n, f),
         n.ext # "ndjson" \/ (f.tail = <<>> /\ LinesValid(f))
  PROVE  FinalsWhole'
  BY FinalsStayWhole DEF Finals, With

LEMMA DrainKeeps ==
  ASSUME Shape, CleanFiles, NEW s \in Slugs, Drain(s), s \in open \/ (s = slug /\ pc = "rotFlush")
  PROVE  CleanFiles'
  <1>1. /\ tmp \in [Slugs -> File \cup {NoFile}] /\ buf \in [Slugs -> Buffer]
        /\ tmp[s] \in File /\ buf[s] # <<>>
    BY DrainType DEF Drain, Shape, TypeOK, TmpOK, SpoolsOK
  <1>2. Clean(tmp[s], buf[s])
    BY DEF CleanFiles, Closing
  <1>3. Clean(Put(tmp[s], Head(buf[s])), Tail(buf[s]))
    BY <1>1, <1>2, DrainClean
  <1>4. /\ tmp'[s] = Put(tmp[s], Head(buf[s])) /\ buf'[s] = Tail(buf[s])
        /\ \A u \in Slugs : u # s => tmp'[u] = tmp[u] /\ buf'[u] = buf[u]
        /\ open' = open /\ slug' = slug /\ pc' = pc
    BY <1>1 DEF Drain, job, work
  <1> QED
    BY <1>3, <1>4 DEF CleanFiles

LEMMA FreshClean ==
  ASSUME Shape, CleanFiles, NEW s \in Slugs, OpenFresh(s), pc' \notin Closing
  PROVE  CleanFiles'
  <1>1. tmp \in [Slugs -> File \cup {NoFile}] /\ buf \in [Slugs -> Buffer]
    BY DEF Shape, TypeOK, TmpOK, SpoolsOK
  <1>2. /\ tmp'[s] = EmptyFile /\ buf'[s] = <<>> /\ open' = open \cup {s}
        /\ \A u \in Slugs : u # s => tmp'[u] = tmp[u] /\ buf'[u] = buf[u]
    BY <1>1 DEF OpenFresh
  <1> QED
    BY <1>2, EmptyClean DEF CleanFiles

\* The writer's files stay as they are while a dataset changes hands.
LEMMA CleanFrom ==
  ASSUME CleanFiles, UNCHANGED <<tmp, buf>>,
         \A s \in Slugs : s \in open' \/ (s = slug' /\ pc' \in Closing \ {"rotCut"})
            => s \in open \/ (s = slug /\ pc \in Closing \ {"rotCut"})
  PROVE  CleanFiles'
  BY DEF CleanFiles

LEMMA WholeBatch ==
  ASSUME NoTear, WholeInv, Batch
  PROVE  WholeInv'
  <1>0. Shape /\ FinalsWhole /\ CleanFiles /\ TypeOK /\ Control /\ Shape'
    <2>1. Shape'
      BY ShapeNext DEF WholeInv, Next, Working
    <2> QED
      BY <2>1 DEF WholeInv, Shape
  <1>1. tmp \in [Slugs -> File \cup {NoFile}] /\ buf \in [Slugs -> Buffer]
    BY <1>0 DEF TypeOK, TmpOK, SpoolsOK
  <1>2. /\ files' = files /\ pc \in {"group", "doc", "check"}
        /\ pc' \in {"group", "doc", "check", "idle", "rotFlush"}
    BY DEF Batch, EnsureSpool, WriteDoc, Spill, Drain, RotateIfNeeded, FlushGroup, EndBatch, Abort,
       disk
  <1>3. FinalsWhole' /\ CutLine' /\ StageWhole'
    BY <1>0, <1>2, WholeSame DEF CutLine, StageWhole, Recovering
  <1>4. CleanFiles'
    <2> USE DEF Closing
    <2>1. CASE EnsureSpool
      <3>1. PICK s \in Slugs : \/ UNCHANGED <<tmp, spools>> /\ pc' \in {"doc", "idle"}
                               \/ OpenFresh(s) /\ pc' = "doc"
        BY <1>0, <2>1, SpoolAssumptions DEF EnsureSpool, Abort, TypeOK, JobOK
      <3>2. CASE OpenFresh(s) /\ pc' = "doc"
        BY <1>0, <3>2, FreshClean
      <3>3. CASE UNCHANGED <<tmp, spools>> /\ pc' \in {"doc", "idle"}
        BY <1>0, <3>3, CleanFrom DEF spools
      <3> QED
        BY <3>1, <3>2, <3>3
    <2>2. CASE WriteDoc
      <3>1. slug \in open /\ slug \in Slugs /\ pc' \in {"check", "idle"} /\ open' = open
        BY <1>0, <2>2 DEF WriteDoc, Abort, Control, TypeOK, SpoolsOK
      <3>2. CASE UNCHANGED <<tmp, buf>>
        BY <1>0, <3>1, <3>2, CleanFrom
      <3>3. ASSUME NEW r \in Records, buf' = [buf EXCEPT ![slug] = @ \o <<r, NL>>], UNCHANGED <<tmp, slug>>
            PROVE  CleanFiles'
        <4>1. Clean(tmp[slug], buf[slug]) /\ buf[slug] \in Buffer
          BY <1>0, <1>1, <3>1 DEF CleanFiles
        <4>2. Clean(tmp[slug], buf[slug] \o <<r, NL>>)
          BY <4>1, WriteClean
        <4>3. /\ buf'[slug] = buf[slug] \o <<r, NL>>
              /\ \A u \in Slugs : u # slug => buf'[u] = buf[u]
          BY <1>1, <3>1, <3>3
        <4> QED
          BY <1>0, <3>1, <3>3, <4>2, <4>3 DEF CleanFiles
      <3>4. \/ UNCHANGED <<tmp, buf>>
            \/ \E r \in Records : buf' = [buf EXCEPT ![slug] = @ \o <<r, NL>>] /\ UNCHANGED <<tmp, slug>>
        BY <1>0, <2>2 DEF WriteDoc, Fault, Fails, NoTear, Pending, TypeOK, JobOK
      <3> QED
        BY <3>2, <3>3, <3>4
    <2>3. CASE Spill
      <3>1. slug \in open /\ slug \in Slugs /\ Drain(slug)
        BY <1>0, <2>3 DEF Spill, Control, TypeOK, SpoolsOK
      <3> QED
        BY <1>0, <3>1, DrainKeeps
    <2>4. CASE RotateIfNeeded
      <3>1. slug \in open /\ UNCHANGED <<tmp, buf, slug>> /\ open' \subseteq open
        BY <1>0, <2>4 DEF RotateIfNeeded, Control, disk, job, work
      <3> QED
        BY <1>0, <3>1, CleanFrom
    <2>5. CASE FlushGroup \/ EndBatch
      BY <1>0, <2>5, CleanFrom DEF FlushGroup, EndBatch, Abort, disk, spools
    <2> QED
      BY <2>1, <2>2, <2>3, <2>4, <2>5 DEF Batch
  <1> QED
    BY <1>0, <1>3, <1>4 DEF WholeInv

LEMMA WholeRecovery ==
  ASSUME WholeInv, Recovery
  PROVE  WholeInv'
  <1>0. /\ Shape /\ FinalsWhole /\ CleanFiles /\ StageWhole /\ TypeOK /\ Control /\ Reserved
        /\ Shape' /\ Control'
    <2>1. Shape'
      BY ShapeNext DEF WholeInv, Next, Working
    <2> QED
      BY <2>1 DEF WholeInv, Shape
  <1>1. open' = {} /\ pc' \in Starting \cup {"down", "idle"}
    BY <1>0 DEF Recovery, Sweep, RecoverRead, RecoverReserve, RecoverClaim, RecoverPublish,
       RecoverDispose, RecoverDone, GiveUp, Gone, Control, Starting, spools
  <1>2. CleanFiles' /\ CutLine'
    BY <1>1 DEF CleanFiles, CutLine, Closing, Starting
  <1>3. FinalsWhole' /\ StageWhole'
    <2> USE DEF GiveUp, Gone, disk, Recovering
    <2>1. CASE Sweep \/ RecoverDone
      BY <1>0, <2>1, WholeSame DEF Sweep, RecoverDone, StageWhole
    <2>2. CASE RecoverRead
      <3>1. files' = files /\ (pc' = "reserve" => stage' = NoFile \/ \E f : stage' = StageOf(f))
            /\ pc' \in {"scan", "reserve", "down"}
        BY <2>2 DEF RecoverRead
      <3>2. StageWhole'
        BY <3>1, StagedValid DEF StageWhole
      <3> QED
        BY <1>0, <3>1, <3>2, WholeSame
    <2>3. CASE RecoverReserve
      <3>1. \/ files' = files \/ \E S : files' = Without(S)
            \/ \E n : files' = With(n, EmptyFile)
        BY <2>3, AbandonEffect DEF RecoverReserve
      <3>2. StageWhole'
        BY <1>0, <2>3 DEF RecoverReserve, StageWhole
      <3> QED
        BY <1>0, <3>1, <3>2, WholeSame, WholeReserve, WholeRemove
    <2>4. CASE RecoverClaim
      <3>1. \/ files' = files \/ \E S : files' = Without(S)
            \/ \E n : files' = With(n, EmptyFile)
        BY <2>4, AbandonEffect DEF RecoverClaim
      <3>2. StageWhole'
        BY <1>0, <2>4 DEF RecoverClaim, StageWhole
      <3> QED
        BY <1>0, <3>1, <3>2, WholeSame, WholeReserve, WholeRemove
    <2>5. CASE RecoverPublish
      <3>1. stage.tail = <<>> /\ LinesValid(stage)
        BY <1>0, <2>5 DEF RecoverPublish, StageWhole, Reserved
      <3>2. files' = With(target, stage) \/ \E S : files' = Without(S)
        BY <2>5, AbandonEffect DEF RecoverPublish
      <3>3. FinalsWhole'
        BY <1>0, <3>1, <3>2, WholeAdd, WholeRemove
      <3> QED
        BY <2>5, <3>3 DEF RecoverPublish, StageWhole
    <2>6. CASE RecoverDispose
      <3>1. \/ files' = files \/ (aside # None /\ files' = With(aside, tmp[slug]))
            \/ \E S : files' = Without(S)
        BY <2>6, DiscardEffect DEF RecoverDispose
      <3>2. aside # None => aside.ext # "ndjson"
        BY <1>0 DEF Reserved
      <3>3. FinalsWhole'
        BY <1>0, <3>1, <3>2, WholeSame, WholeAdd, WholeRemove
      <3> QED
        BY <2>6, <3>3 DEF RecoverDispose, StageWhole
    <2> QED
      BY <2>1, <2>2, <2>3, <2>4, <2>5, <2>6 DEF Recovery
  <1> QED
    BY <1>0, <1>2, <1>3 DEF WholeInv

LEMMA RotatedClean ==
  ASSUME CleanFiles, slug \in Slugs, buf' = buf, buf[slug] = <<>>,
         \A u \in Slugs : u # slug => tmp'[u] = tmp[u],
         open' \subseteq open \cup {slug}, slug' = slug \/ pc' \notin Closing,
         slug \in open' \/ pc' \in Closing \ {"rotCut"} => Clean(tmp'[slug], <<>>)
  PROVE  CleanFiles'
  <1> SUFFICES ASSUME NEW s \in Slugs, s \in open' \/ (s = slug' /\ pc' \in Closing \ {"rotCut"})
               PROVE  Clean(tmp'[s], buf'[s])
    BY DEF CleanFiles
  <1>1. CASE s = slug
    BY <1>1
  <1>2. CASE s # slug
    BY <1>2 DEF CleanFiles
  <1> QED
    BY <1>1, <1>2

LEMMA WholeRotation ==
  ASSUME NoTear, WholeInv, Rotation
  PROVE  WholeInv'
  <1>0. /\ Shape /\ FinalsWhole /\ CleanFiles /\ CutLine /\ TypeOK /\ Control /\ Reserved
        /\ Shape'
    <2>1. Shape'
      BY ShapeNext DEF WholeInv, Next, Working
    <2> QED
      BY <2>1 DEF WholeInv, Shape
  <1>1. tmp \in [Slugs -> File \cup {NoFile}] /\ buf \in [Slugs -> Buffer]
    BY <1>0 DEF TypeOK, TmpOK, SpoolsOK
  <1>2. pc' \notin Recovering
    BY DEF Rotation, RotateFlush, Drain, RotatePad, RotatePadFinish, RotateReserve, RotateRename,
       RotateReplace, TakeNext, Reopen, Failed, Continue, Abort, Recovering
  <1>3. StageWhole'
    BY <1>2 DEF StageWhole
  <1>4. pc \in Rotating => slug \in Slugs /\ slug \notin open
    BY <1>0 DEF Control
  <1>5. pc \in Closing => tmp[slug] \in File
    BY <1>0, <1>1 DEF Control, Rotating, Closing
  <1>6. pc \in Rotating \ {"rotFlush"} => buf[slug] = <<>>
    BY <1>0 DEF Control
  <1>7. pc \in Closing \ {"rotCut", "rotFlush"} => tmp[slug].tail = <<>> /\ LinesValid(tmp[slug])
    <2> SUFFICES ASSUME pc \in Closing \ {"rotCut", "rotFlush"}
                 PROVE  tmp[slug].tail = <<>> /\ LinesValid(tmp[slug])
      OBVIOUS
    <2>1. Clean(tmp[slug], buf[slug]) /\ buf[slug] = <<>>
      BY <1>0, <1>4, <1>6 DEF CleanFiles, Rotating
    <2> QED
      BY <2>1 DEF Clean
  <1> USE DEF Closing, Rotating
  <1>8. CASE RotateFlush
    <2>1. CASE Drain(slug) /\ pc = "rotFlush"
      <3>1. CleanFiles'
        BY <1>0, <1>4, <2>1, DrainKeeps
      <3> QED
        BY <1>0, <1>3, <2>1, <3>1, WholeSame DEF WholeInv, Drain, CutLine
    <2>2. CASE ~Drain(slug)
      <3>1. UNCHANGED <<tmp, buf, files>> /\ pc = "rotFlush" /\ pc' \in {"rotPad", "queue", "idle"}
            /\ (pc' = "rotPad" => open' = open /\ slug' = slug)
            /\ (pc' # "rotPad" => open' = open \cup {slug})
        BY <1>8, <2>2 DEF RotateFlush, disk, spools, job, work, Failed, Abort
      <3>2. CleanFiles'
        BY <1>0, <3>1, CleanFrom
      <3> QED
        BY <1>0, <1>3, <3>1, <3>2, WholeSame DEF WholeInv, CutLine
    <2> QED
      BY <1>8, <2>1, <2>2 DEF RotateFlush
  <1>9. pc = "rotPad" \/ pc = "rotReserve" \/ pc = "rotRename" => Clean(tmp[slug], <<>>)
    BY <1>7 DEF Clean, Alternates
  <1>10. CASE RotatePad
    <2>1. pc = "rotPad" /\ files' = files /\ buf' = buf /\ slug \in Slugs /\ buf[slug] = <<>>
          /\ Clean(tmp[slug], <<>>) /\ tmp[slug] \in File /\ slug \notin open
      BY <1>4, <1>5, <1>6, <1>9, <1>10 DEF RotatePad, Reopen, spools
    <2>2. \/ /\ tmp' = [tmp EXCEPT ![slug] = NoFile] /\ pc' = "rotReplace" /\ open' = open
          \/ tmp' = tmp /\ pc' \in {"idle", "queue"} /\ open' \subseteq open \cup {slug}
          \/ tmp' = tmp /\ pc' = "rotReserve" /\ open' = open /\ slug' = slug
          \/ tmp' = [tmp EXCEPT ![slug] = Cut(tmp[slug])] /\ pc' = "rotCut" /\ open' = open /\ slug' = slug
      BY <1>10 DEF RotatePad, Reopen, Failed, Abort, spools, job, work
    <2>3. \A u \in Slugs : u # slug => tmp'[u] = tmp[u]
      BY <1>1, <2>2
    <2>4. CleanFiles'
      BY <1>0, <2>1, <2>2, <2>3, RotatedClean
    <2>5. CutLine'
      <3>1. pc' = "rotCut" => tmp'[slug'] = Cut(tmp[slug])
        BY <1>1, <2>1, <2>2
      <3>2. LinesValid(Cut(tmp[slug])) /\ (Cut(tmp[slug]).tail = <<>> \/ Valid(Cut(tmp[slug]).tail))
        BY <1>7, <2>1, PaddingClean
      <3> QED
        BY <3>1, <3>2 DEF CutLine
    <2> QED
      BY <1>0, <1>3, <2>1, <2>4, <2>5, WholeSame DEF WholeInv
  <1>11. CASE RotatePadFinish
    <2>1. pc = "rotCut" /\ files' = files /\ buf' = buf /\ slug \in Slugs /\ buf[slug] = <<>>
          /\ tmp[slug] \in File /\ slug' = slug /\ open' = open /\ pc' = "rotReserve"
          /\ tmp' = [tmp EXCEPT ![slug] = Padded(@)]
      BY <1>4, <1>5, <1>6, <1>11 DEF RotatePadFinish, NoTear, spools, job, work
    <2>2. tmp'[slug] = Padded(tmp[slug]) /\ \A u \in Slugs : u # slug => tmp'[u] = tmp[u]
      BY <1>1, <2>1
    <2>3. Clean(Padded(tmp[slug]), <<>>)
      BY <1>0, <2>1, PaddingClean DEF CutLine
    <2>4. CleanFiles'
      BY <1>0, <2>1, <2>2, <2>3, RotatedClean
    <2> QED
      BY <1>0, <1>3, <2>1, <2>4, WholeSame DEF WholeInv, CutLine
  <1>12. CASE RotateReserve
    <2>1. pc = "rotReserve" /\ buf' = buf /\ slug \in Slugs /\ buf[slug] = <<>> /\ tmp' = tmp
          /\ Clean(tmp[slug], <<>>)
      BY <1>4, <1>6, <1>9, <1>12 DEF RotateReserve, Reopen, spools
    <2>2. \/ pc' = "rotRename" /\ open' = open /\ slug' = slug
          \/ pc' \in {"idle", "queue"} /\ open' \subseteq open \cup {slug}
      BY <1>12 DEF RotateReserve, Reopen, Failed, Abort, spools, work
    <2>3. CleanFiles'
      BY <1>0, <2>1, <2>2, RotatedClean
    <2>4. files' = files \/ \E n : files' = With(n, EmptyFile)
      BY <1>12 DEF RotateReserve
    <2>5. FinalsWhole'
      BY <1>0, <2>4, WholeSame, WholeReserve
    <2> QED
      BY <1>0, <1>3, <2>2, <2>3, <2>5 DEF WholeInv, CutLine
  <1>13. CASE RotateRename
    <2>1. pc = "rotRename" /\ buf' = buf /\ slug \in Slugs /\ buf[slug] = <<>>
          /\ Clean(tmp[slug], <<>>) /\ tmp[slug].tail = <<>> /\ LinesValid(tmp[slug])
      BY <1>4, <1>6, <1>7, <1>9, <1>13 DEF RotateRename, Reopen, spools
    <2>2. \/ tmp' = Moved /\ pc' = "rotReplace" /\ open' = open
          \/ tmp' = tmp /\ pc' \in {"idle", "queue"} /\ open' \subseteq open \cup {slug}
      BY <1>13 DEF RotateRename, Reopen, Failed, Abort, spools
    <2>3. \A u \in Slugs : u # slug => tmp'[u] = tmp[u]
      BY <1>1, <2>2 DEF Moved
    <2>4. CleanFiles'
      BY <1>0, <1>4, <2>1, <2>2, <2>3, RotatedClean
    <2>5. files' = With(target, tmp[slug]) \/ \E S : files' = Without(S)
      BY <1>13, DiscardEffect DEF RotateRename
    <2>6. FinalsWhole'
      BY <1>0, <2>1, <2>5, WholeAdd, WholeRemove
    <2> QED
      BY <1>0, <1>3, <2>2, <2>4, <2>6 DEF WholeInv, CutLine
  <1>14. CASE RotateReplace \/ TakeNext
    <2>1. files' = files /\ pc' \in {"doc", "queue", "idle", "exit", "rotFlush"}
      BY <1>14 DEF RotateReplace, TakeNext, Continue, Failed, Abort, disk
    <2>2. CleanFiles'
      <3>1. CASE RotateReplace
        <4>1. slug \in Slugs /\ pc' \notin Closing /\ (OpenFresh(slug) \/ UNCHANGED <<tmp, buf, open>>)
          BY <1>4, <3>1 DEF RotateReplace, Continue, Failed, Abort, spools
        <4>2. CASE OpenFresh(slug)
          BY <1>0, <4>1, <4>2, FreshClean
        <4>3. CASE UNCHANGED <<tmp, buf, open>>
          BY <1>0, <4>1, <4>3, CleanFrom
        <4> QED
          BY <4>1, <4>2, <4>3
      <3>2. CASE TakeNext
        <4>1. queue \subseteq open
          BY <1>0, <3>2 DEF TakeNext, Control
        <4> QED
          BY <1>0, <2>1, <3>2, <4>1, CleanFrom DEF TakeNext, Take, disk
      <3> QED
        BY <1>14, <3>1, <3>2
    <2> QED
      BY <1>0, <1>3, <2>1, <2>2, WholeSame DEF WholeInv, CutLine
  <1> QED
    BY <1>8, <1>10, <1>11, <1>12, <1>13, <1>14 DEF Rotation

LEMMA WholeOther ==
  ASSUME WholeInv, Crash \/ Start \/ BeginBatch \/ RotateStale \/ FinalizeAll \/ Exit \/ UNCHANGED vars
  PROVE  WholeInv'
  <1>0. Shape /\ FinalsWhole /\ CleanFiles /\ CutLine /\ StageWhole /\ TypeOK /\ Shape'
    <2>1. Shape'
      BY ShapeNext DEF WholeInv, Next, Working
    <2> QED
      BY <2>1 DEF WholeInv, Shape
  <1> USE DEF Closing, Recovering
  <1>1. CASE Crash
    <2>1. files' = files /\ open' = {} /\ pc' = "down"
      BY <1>1 DEF Crash, Gone
    <2> QED
      BY <1>0, <2>1, WholeSame DEF WholeInv, CleanFiles, CutLine, StageWhole
  <1>2. CASE Start \/ BeginBatch \/ FinalizeAll
    <2>1. UNCHANGED <<files, tmp, buf, open>> /\ pc' \in {"sweep", "group", "queue"}
      BY <1>2 DEF Start, BeginBatch, FinalizeAll, disk, spools
    <2>2. CleanFiles'
      BY <1>0, <2>1, CleanFrom
    <2> QED
      BY <1>0, <2>1, <2>2, WholeSame DEF WholeInv, CutLine, StageWhole
  <1>3. CASE RotateStale
    <2>1. UNCHANGED <<tmp, buf, open>> /\ pc' = "queue" /\ \E S : files' = Without(S)
      BY <1>3 DEF RotateStale, spools
    <2>2. CleanFiles' /\ FinalsWhole'
      BY <1>0, <2>1, CleanFrom, WholeRemove
    <2> QED
      BY <1>0, <2>1, <2>2 DEF WholeInv, CutLine, StageWhole
  <1>4. CASE Exit
    <2>1. files' = files /\ pc' \in {"exit", "down"}
      BY <1>4 DEF Exit, Drain, Gone, disk
    <2>2. CleanFiles'
      <3>1. CASE \E s \in open : Drain(s)
        BY <1>0, <3>1, DrainKeeps DEF TypeOK, SpoolsOK
      <3>2. CASE open' = {}
        BY <2>1, <3>2 DEF CleanFiles
      <3> QED
        BY <1>4, <3>1, <3>2 DEF Exit, Gone
    <2> QED
      BY <1>0, <2>1, <2>2, WholeSame DEF WholeInv, CutLine, StageWhole
  <1>5. CASE UNCHANGED vars
    BY <1>0, <1>5 DEF vars, disk, job, work, spools, WholeInv, FinalsWhole, Finals, CleanFiles,
       CutLine, StageWhole
  <1> QED
    BY <1>1, <1>2, <1>3, <1>4, <1>5

\* write_docs, close_publish_and_replace and recover_stranded_file: as long as no write
\* stops half-way, every line of every final parses as one record, wherever the process
\* dies and whatever else fails, because a file that a crash tore is published line by
\* line through the staging file and never as it is.
THEOREM FinalsParse ==
  ASSUME NoTear
  PROVE  Spec => []FinalsWhole
  <1>1. Init => WholeInv
    <2> SUFFICES ASSUME Init PROVE WholeInv
      OBVIOUS
    <2>1. FinalsWhole /\ CleanFiles /\ CutLine /\ StageWhole
      BY DEF Init, FinalsWhole, Finals, CleanFiles, CutLine, StageWhole, Closing, Recovering
    <2> QED
      BY <2>1, ShapeInit DEF WholeInv
  <1>2. WholeInv /\ [Next]_vars => WholeInv'
    BY WholeBatch, WholeRecovery, WholeRotation, WholeOther DEF Next, Working
  <1>3. WholeInv => FinalsWhole
    BY DEF WholeInv
  <1> QED
    BY <1>1, <1>2, <1>3, PTL DEF Spec

-----------------------------------------------------------------------------
(* The inductive invariant behind NoLoss *)

Writing == {"doc", "check"} \cup Rotating
Serving == {"idle", "group", "queue", "exit"} \cup Writing

\* The records in the active files, in finals and quarantine files, in buffers.
TmpRecs == [s \in Slugs |-> IF tmp[s] = NoFile THEN {} ELSE RecordsOf(tmp[s])]
FiledRecs == UNION {RecordsOf(files[n]) : n \in DOMAIN files}
BufRecs == [s \in Slugs |-> Range(buf[s])]
ActiveRecs == UNION {TmpRecs[s] : s \in Slugs}
Stored == ActiveRecs \cup FiledRecs \cup pruned

\* The records the writer answers for: accepted, or written in the batch under way.
Kept == accepted \cup (batch \ todo)

AcceptedStored == accepted \subseteq Stored

\* A written record of the batch is on disk or in the buffer about to be flushed.
BatchStored ==
    \A r \in batch \ todo : r \in Stored \/ (pc \in Writing /\ r \in BufRecs[slug])

\* A dataset without a writer has nothing to lose when its file is truncated.
Unattached ==
    pc \in Serving => \A s \in Slugs \ open :
        ~(pc \in Rotating /\ s = slug) => TmpRecs[s] \cap Kept = {}

\* current_file_bytes is zero only if nothing that counts was written.
Counted ==
    \A s \in Slugs : (s \in open \/ (pc \in Closing /\ s = slug)) /\ bytes[s] = 0 =>
        TmpRecs[s] \cap Kept = {} /\ BufRecs[s] \cap Kept = {}

\* How far the rotation of a file has come.
Rotated ==
    /\ pc = "rotCut" => bytes[slug] > 0 /\ tmp[slug].last = <<>>
    /\ pc \in {"rotReserve", "rotRename"} => tmp[slug].size > 0
    /\ pc = "rotReplace" => TmpRecs[slug] = {}

\* A document not written yet is nowhere.
Fresh ==
    /\ todo \subseteq batch /\ batch \subseteq offered /\ accepted \subseteq offered \ todo
    /\ why # "batch" => batch = {}
    /\ \A s \in Slugs : TmpRecs[s] \subseteq offered \ todo
    /\ \A s \in Slugs : BufRecs[s] \ {NL} \subseteq offered \ todo

\* Recovery: the stage holds what is valid, an undamaged source is all valid, and
\* the sources dealt with are gone or empty.
Staged ==
    /\ pc \in {"reserve", "claim", "publish"} =>
         IF stage = NoFile THEN StageOf(tmp[slug]).rest = {} ELSE stage = StageOf(tmp[slug])
    /\ pc \in {"claim", "publish", "dispose"} /\ aside = None => ~Damaged(tmp[slug])
    /\ pc = "dispose" /\ aside = None => TmpRecs[slug] \subseteq FiledRecs
    /\ pc = "scan" => \A s \in Slugs \ queue : TmpRecs[s] = {}
    /\ pc \in Recovering => \A s \in Slugs \ queue : s # slug => TmpRecs[s] = {}

KeptInv == /\ Shape /\ AcceptedStored /\ BatchStored /\ Unattached /\ Counted
           /\ Rotated /\ Fresh /\ Staged

-----------------------------------------------------------------------------
(* The records of a file *)

LEMMA TextsType ==
  /\ Texts(<<>>) = {}
  /\ \A l \in Line : Texts(l) \subseteq Records
  /\ \A l \in Line : \A t \in Fragment : Texts(Append(l, t)) = Texts(l) \cup ({t} \cap Records)
  <1>1. Texts(<<>>) = {}
    BY DEF Texts, Range
  <1>2. \A l \in Line : Texts(l) \subseteq Records
    BY DEF Line, Fragment, Texts, Range
  <1>3. ASSUME NEW l \in Line, NEW t \in Fragment
        PROVE  Texts(Append(l, t)) = Texts(l) \cup ({t} \cap Records)
    <2>1. l \in Seq(Fragment)
      BY DEF Line
    <2>2. Range(Append(l, t)) = Range(l) \cup {t}
      <3>1. DOMAIN Append(l, t) = 1..(Len(l) + 1) /\ DOMAIN l = 1..Len(l) /\ Len(l) \in Nat
        BY <2>1
      <3>2. \A i \in 1..Len(l) : Append(l, t)[i] = l[i]
        BY <2>1
      <3>3. Append(l, t)[Len(l) + 1] = t
        BY <2>1
      <3> QED
        BY <3>1, <3>2, <3>3 DEF Range
    <2> QED
      BY <2>2, <1>2, SpoolAssumptions DEF Texts, Fragment
  <1> QED
    BY <1>1, <1>2, <1>3

LEMMA InRecordsOf ==
  ASSUME NEW f, NEW r
  PROVE  r \in RecordsOf(f) <=>
           (\E l \in f.rest : r \in Texts(l)) \/ r \in Texts(f.last) \/ r \in Texts(f.tail)
  <1>1. r \in RecordsOf(f) <=> \E l \in Lines(f) \cup {f.tail} : r \in Texts(l)
    BY DEF RecordsOf
  <1> QED
    BY <1>1, TextsType DEF Lines

LEMMA EmptyRecords == RecordsOf(EmptyFile) = {}
  BY InRecordsOf, TextsType DEF EmptyFile

LEMMA PutRecords ==
  ASSUME NEW f \in File, NEW t \in Fragment \cup {NL}
  PROVE  RecordsOf(Put(f, t)) = RecordsOf(f) \cup ({t} \cap Records)
  <1> DEFINE g == Put(f, t)
  <1>1. f.last \in Line /\ f.tail \in Line
    BY DEF File
  <1>2. ASSUME NEW r PROVE r \in RecordsOf(g) <=> r \in RecordsOf(f) \/ r \in {t} \cap Records
    <2>1. CASE t = NL
      <3>1. g.rest = f.rest \cup ({f.last} \ {<<>>}) /\ g.last = f.tail /\ g.tail = <<>>
        BY <2>1 DEF Put
      <3> HIDE DEF g
      <3>2. (\E l \in g.rest : r \in Texts(l)) <=>
              (\E l \in f.rest : r \in Texts(l)) \/ r \in Texts(f.last)
        BY <3>1, TextsType
      <3> QED
        BY <2>1, <3>1, <3>2, InRecordsOf, TextsType, SpoolAssumptions
    <2>2. CASE t # NL
      <3>1. g.rest = f.rest /\ g.last = f.last /\ g.tail = Append(f.tail, t)
        BY <2>2 DEF Put
      <3>2. Texts(g.tail) = Texts(f.tail) \cup ({t} \cap Records)
        BY <1>1, <2>2, <3>1, TextsType
      <3> HIDE DEF g
      <3> QED
        BY <3>1, <3>2, InRecordsOf
    <2> QED
      BY <2>1, <2>2
  <1> QED
    BY <1>2

LEMMA CutRecords ==
  ASSUME NEW f \in File, f.tail = <<>>
  PROVE  RecordsOf(Cut(f)) = RecordsOf(f)
  <1>1. \A r : r \in RecordsOf(Cut(f)) <=> r \in RecordsOf(f)
    BY InRecordsOf, TextsType DEF Cut
  <1> QED
    BY <1>1

LEMMA PaddedRecords ==
  ASSUME NEW f \in File, f.last = <<>>
  PROVE  RecordsOf(Padded(f)) = RecordsOf(f)
  <1>1. \A r : r \in RecordsOf(Padded(f)) <=> r \in RecordsOf(f)
    BY InRecordsOf, TextsType DEF Padded
  <1> QED
    BY <1>1

LEMMA SizedRecords ==
  ASSUME NEW f \in File, NEW n
  PROVE  RecordsOf(Sized(f, n)) = RecordsOf(f)
  <1>1. \A r : r \in RecordsOf(Sized(f, n)) <=> r \in RecordsOf(f)
    BY InRecordsOf DEF Sized
  <1> QED
    BY <1>1

LEMMA StageRecords ==
  ASSUME NEW f \in File, ~Damaged(f)
  PROVE  RecordsOf(StageOf(f)) = RecordsOf(f)
  <1> DEFINE g == StageOf(f)
  <1>1. g.rest = Lines(f) /\ g.last = <<>> /\ g.tail = <<>> /\ f.tail = <<>>
    BY DEF StageOf, Damaged
  <1>2. \A r : r \in RecordsOf(g) <=> \E l \in Lines(f) : r \in Texts(l)
    <2> HIDE DEF g
    <2> QED
      BY <1>1, InRecordsOf, TextsType
  <1>3. \A r : r \in RecordsOf(f) <=> \E l \in Lines(f) : r \in Texts(l)
    BY <1>1, InRecordsOf, TextsType DEF Lines
  <1> QED
    BY <1>2, <1>3

-----------------------------------------------------------------------------
(* What a step does to the records on disk *)

LEMMA TmpUpdate ==
  ASSUME TmpOK, NEW s \in Slugs, NEW f, tmp' = [tmp EXCEPT ![s] = f]
  PROVE  TmpRecs' = [TmpRecs EXCEPT ![s] = IF f = NoFile THEN {} ELSE RecordsOf(f)]
  BY DEF TmpOK, TmpRecs

LEMMA TmpSame == tmp' = tmp => TmpRecs' = TmpRecs
  BY DEF TmpRecs

LEMMA BufSame == buf' = buf => BufRecs' = BufRecs
  BY DEF BufRecs

LEMMA FiledSame == files' = files => FiledRecs' = FiledRecs
  BY DEF FiledRecs

LEMMA FiledAdd ==
  ASSUME NEW n, NEW f, n \notin DOMAIN files \/ files[n] = EmptyFile, files' = With(n, f)
  PROVE  FiledRecs' = FiledRecs \cup RecordsOf(f)
  <1>1. \A r : r \in FiledRecs <=> \E m \in DOMAIN files : r \in RecordsOf(files[m])
    BY DEF FiledRecs
  <1>2. \A r : r \in FiledRecs' <=> \E m \in DOMAIN files' : r \in RecordsOf(files'[m])
    BY DEF FiledRecs
  <1>3. DOMAIN files' = DOMAIN files \cup {n} /\ files'[n] = f
    BY DEF With
  <1>4. \A m \in DOMAIN files : m # n => files'[m] = files[m]
    BY DEF With
  <1>5. \A r : r \in FiledRecs' <=> r \in FiledRecs \/ r \in RecordsOf(f)
    BY <1>1, <1>2, <1>3, <1>4, EmptyRecords
  <1> QED
    BY <1>5

LEMMA FiledRemove ==
  ASSUME NEW S, \A n \in S : n \in DOMAIN files => files[n] = EmptyFile, files' = Without(S)
  PROVE  FiledRecs' = FiledRecs
  <1>1. \A r : r \in FiledRecs <=> \E m \in DOMAIN files : r \in RecordsOf(files[m])
    BY DEF FiledRecs
  <1>2. \A r : r \in FiledRecs' <=> \E m \in DOMAIN files' : r \in RecordsOf(files'[m])
    BY DEF FiledRecs
  <1>3. DOMAIN files' = DOMAIN files \ S /\ \A m \in DOMAIN files' : files'[m] = files[m]
    BY DEF Without, Restrict
  <1>4. \A r : r \in FiledRecs' <=> r \in FiledRecs
    BY <1>1, <1>2, <1>3, EmptyRecords
  <1> QED
    BY <1>4

LEMMA DrainEffect ==
  ASSUME TypeOK, Attached, NEW s \in Slugs, buf[s] # <<>>,
         tmp' = [tmp EXCEPT ![s] = Put(@, Head(buf[s]))], buf' = [buf EXCEPT ![s] = Tail(@)]
  PROVE  \E h \in Records \cup {NL} :
           /\ h \in BufRecs[s]
           /\ TmpRecs' = [TmpRecs EXCEPT ![s] = @ \cup ({h} \cap Records)]
           /\ \A q \in Slugs : q # s => BufRecs'[q] = BufRecs[q]
           /\ BufRecs[s] \subseteq BufRecs'[s] \cup {h}
           /\ BufRecs'[s] \subseteq BufRecs[s]
  <1> DEFINE h == Head(buf[s])
  <1>1. h \in Records \cup {NL} /\ tmp[s] \in File /\ Put(tmp[s], h) \in File
    BY DrainType DEF TypeOK
  <1>2. TmpRecs' = [TmpRecs EXCEPT ![s] = @ \cup ({h} \cap Records)]
    <2>1. RecordsOf(Put(tmp[s], h)) = RecordsOf(tmp[s]) \cup ({h} \cap Records)
      BY <1>1, PutRecords DEF Fragment
    <2>2. Put(tmp[s], h) # NoFile /\ tmp[s] # NoFile
      BY <1>1, AbsentAssumptions
    <2>3. TmpRecs[s] = RecordsOf(tmp[s])
      BY <2>2 DEF TmpRecs
    <2>4. tmp' = [tmp EXCEPT ![s] = Put(tmp[s], h)]
      OBVIOUS
    <2> HIDE DEF h
    <2>5. TmpRecs' = [TmpRecs EXCEPT ![s] =
                         IF Put(tmp[s], h) = NoFile THEN {} ELSE RecordsOf(Put(tmp[s], h))]
      BY <2>4, TmpUpdate DEF TypeOK
    <2> QED
      BY <2>1, <2>2, <2>3, <2>5
  <1>3. buf[s] \in Seq(Records \cup {NL})
    BY DEF TypeOK, SpoolsOK, Buffer
  <1>4. \A q \in Slugs : q # s => buf'[q] = buf[q]
    BY DEF TypeOK, SpoolsOK
  <1>5. buf'[s] = Tail(buf[s])
    BY DEF TypeOK, SpoolsOK
  <1>6. Range(buf[s]) \subseteq Range(Tail(buf[s])) \cup {h}
    <2>1. DOMAIN buf[s] = 1..Len(buf[s]) /\ DOMAIN Tail(buf[s]) = 1..(Len(buf[s]) - 1)
      BY <1>3
    <2>2. \A i \in 1..Len(buf[s]) : i # 1 => i - 1 \in 1..(Len(buf[s]) - 1) /\ buf[s][i] = Tail(buf[s])[i - 1]
      BY <1>3
    <2>3. h = buf[s][1]
      BY <1>3
    <2> QED
      BY <2>1, <2>2, <2>3 DEF Range
  <1>7. Range(Tail(buf[s])) \subseteq Range(buf[s])
    <2>1. DOMAIN buf[s] = 1..Len(buf[s]) /\ DOMAIN Tail(buf[s]) = 1..(Len(buf[s]) - 1)
      BY <1>3
    <2>2. \A i \in 1..(Len(buf[s]) - 1) : i + 1 \in 1..Len(buf[s]) /\ Tail(buf[s])[i] = buf[s][i + 1]
      BY <1>3
    <2> QED
      BY <2>1, <2>2 DEF Range
  <1>8. h \in Range(buf[s])
    BY <1>3 DEF Range
  <1>9. \A q \in Slugs : BufRecs[q] = Range(buf[q]) /\ BufRecs'[q] = Range(buf'[q])
    BY DEF BufRecs
  <1> HIDE DEF h
  <1> QED
    BY <1>1, <1>2, <1>4, <1>5, <1>6, <1>7, <1>8, <1>9

LEMMA RangeAppend ==
  ASSUME NEW S, NEW l \in Seq(S), NEW x \in S
  PROVE  Range(Append(l, x)) = Range(l) \cup {x}
  <1>1. DOMAIN Append(l, x) = 1..(Len(l) + 1) /\ DOMAIN l = 1..Len(l) /\ Len(l) \in Nat
    OBVIOUS
  <1>2. \A i \in 1..Len(l) : Append(l, x)[i] = l[i]
    OBVIOUS
  <1>3. Append(l, x)[Len(l) + 1] = x
    OBVIOUS
  <1> QED
    BY <1>1, <1>2, <1>3 DEF Range

LEMMA RangeConcat ==
  ASSUME NEW S, NEW l \in Seq(S), NEW x \in S, NEW y \in S
  PROVE  Range(l \o <<x, y>>) = Range(l) \cup {x, y}
  <1>1. DOMAIN (l \o <<x, y>>) = 1..(Len(l) + 2) /\ DOMAIN l = 1..Len(l) /\ Len(l) \in Nat
    OBVIOUS
  <1>2. \A i \in 1..Len(l) : (l \o <<x, y>>)[i] = l[i]
    OBVIOUS
  <1>3. (l \o <<x, y>>)[Len(l) + 1] = x /\ (l \o <<x, y>>)[Len(l) + 2] = y
    OBVIOUS
  <1> QED
    BY <1>1, <1>2, <1>3 DEF Range

LEMMA PutTorn ==
  ASSUME NEW f \in File
  PROVE  Put(f, Torn) \in File /\ RecordsOf(Put(f, Torn)) = RecordsOf(f)
  <1>1. Torn \in Fragment \cup {NL} /\ {Torn} \cap Records = {}
    BY SpoolAssumptions DEF Fragment
  <1> QED
    BY <1>1, PutType, PutRecords

LEMMA InStored ==
  ASSUME NEW r
  PROVE  r \in Stored <=> (\E s \in Slugs : r \in TmpRecs[s]) \/ r \in FiledRecs \/ r \in pruned
  <1>1. r \in ActiveRecs <=> \E s \in Slugs : r \in TmpRecs[s]
    BY DEF ActiveRecs
  <1> QED
    BY <1>1 DEF Stored

LEMMA InStoredNext ==
  ASSUME NEW r
  PROVE  r \in Stored' <=> (\E s \in Slugs : r \in TmpRecs'[s]) \/ r \in FiledRecs' \/ r \in pruned'
  <1>1. r \in ActiveRecs' <=> \E s \in Slugs : r \in TmpRecs'[s]
    BY DEF ActiveRecs
  <1> QED
    BY <1>1 DEF Stored

LEMMA StoredGrows ==
  ASSUME \A s \in Slugs : TmpRecs[s] \subseteq TmpRecs'[s] \cup FiledRecs',
         FiledRecs \subseteq FiledRecs' \cup pruned', pruned \subseteq pruned'
  PROVE  Stored \subseteq Stored'
  <1> SUFFICES ASSUME NEW r \in Stored PROVE r \in Stored'
    OBVIOUS
  <1>1. (\E s \in Slugs : r \in TmpRecs[s]) \/ r \in FiledRecs \/ r \in pruned
    BY InStored
  <1>2. (\E s \in Slugs : r \in TmpRecs'[s]) \/ r \in FiledRecs' \/ r \in pruned'
    BY <1>1
  <1> QED
    BY <1>2, InStoredNext

LEMMA KeptStored ==
  ASSUME \A s \in Slugs : TmpRecs[s] \cap Kept \subseteq TmpRecs'[s] \cup FiledRecs',
         FiledRecs \subseteq FiledRecs', pruned \subseteq pruned'
  PROVE  Kept \cap Stored \subseteq Stored'
  <1> SUFFICES ASSUME NEW r \in Kept, r \in Stored PROVE r \in Stored'
    OBVIOUS
  <1>1. (\E s \in Slugs : r \in TmpRecs[s]) \/ r \in FiledRecs \/ r \in pruned
    BY InStored
  <1>2. (\E s \in Slugs : r \in TmpRecs'[s]) \/ r \in FiledRecs' \/ r \in pruned'
    BY <1>1
  <1> QED
    BY <1>2, InStoredNext

LEMMA KeptDrain ==
  ASSUME Shape, AcceptedStored, BatchStored, Unattached, Counted, Rotated, Fresh, Staged,
         NEW s \in Slugs, Drain(s),
         (pc \in {"doc", "rotFlush"} /\ s = slug) \/ (pc = "exit" /\ s \in open)
  PROVE  /\ AcceptedStored' /\ BatchStored' /\ Unattached' /\ Counted'
         /\ Rotated' /\ Fresh' /\ Staged'
  <1> USE DEF work, job, history, budget
  <1>1. /\ pc' = pc /\ slug' = slug /\ open' = open /\ bytes' = bytes /\ files' = files
        /\ accepted' = accepted /\ batch' = batch /\ todo' = todo /\ offered' = offered
        /\ pruned' = pruned /\ why' = why
    BY DEF Drain
  <1>2. PICK h \in Records \cup {NL} :
          /\ h \in BufRecs[s]
          /\ TmpRecs' = [TmpRecs EXCEPT ![s] = @ \cup ({h} \cap Records)]
          /\ \A q \in Slugs : q # s => BufRecs'[q] = BufRecs[q]
          /\ BufRecs[s] \subseteq BufRecs'[s] \cup {h}
          /\ BufRecs'[s] \subseteq BufRecs[s]
    BY DrainEffect DEF Drain, Shape
  <1>3. TmpRecs'[s] = TmpRecs[s] \cup ({h} \cap Records)
        /\ \A q \in Slugs : q # s => TmpRecs'[q] = TmpRecs[q]
    BY <1>2 DEF TmpRecs
  <1>4. FiledRecs' = FiledRecs
    BY <1>1, FiledSame
  <1>5. Stored \subseteq Stored'
    <2>1. \A q \in Slugs : TmpRecs[q] \subseteq TmpRecs'[q]
      BY <1>3
    <2> QED
      BY <1>1, <1>4, <2>1, StoredGrows
  <1>6. h \in Records => h \in Stored'
    BY <1>3, InStoredNext
  <1>7. batch \ todo \subseteq Records /\ NL \notin Records
    BY SpoolAssumptions DEF Shape, TypeOK, JobOK
  <1>8. AcceptedStored'
    BY <1>1, <1>5 DEF AcceptedStored
  <1>9. BatchStored'
    <2>1. pc \in Writing => s = slug
      BY DEF Writing, Rotating, Closing
    <2> QED
      BY <1>1, <1>2, <1>5, <1>6, <1>7, <2>1 DEF BatchStored
  <1>10. Unattached'
    <2>1. s \in open \/ (pc \in Rotating /\ s = slug)
      BY DEF Shape, Control, Rotating, Closing
    <2> QED
      BY <1>1, <1>3, <2>1 DEF Unattached, Kept
  <1>11. Counted'
    BY <1>1, <1>2, <1>3 DEF Counted, Kept
  <1>12. Rotated'
    BY <1>1 DEF Rotated
  <1>13. Fresh'
    <2>1. {h} \cap Records \subseteq offered \ todo
      BY <1>2, <1>7 DEF Fresh
    <2> QED
      BY <1>1, <1>2, <1>3, <2>1 DEF Fresh
  <1>14. Staged'
    BY <1>1 DEF Staged, Recovering
  <1> QED
    BY <1>8, <1>9, <1>10, <1>11, <1>12, <1>13, <1>14

-----------------------------------------------------------------------------
(* KeptInv is inductive *)

LEMMA KeptCrash == "reopen" \notin Faults /\ KeptInv /\ Crash => KeptInv'
  <1> SUFFICES ASSUME "reopen" \notin Faults, Shape, AcceptedStored, BatchStored, Unattached,
     Counted, Rotated, Fresh, Staged, Crash
               PROVE  KeptInv'
    BY DEF KeptInv
  <1> USE DEF Crash, Gone, TornTmp, NoJob, NewJob
  <1>1. TmpRecs' = TmpRecs
    <2>1. PICK T \in SUBSET {s \in Slugs : buf[s] # <<>> /\ buf[s][1] # NL} : tmp' = TornTmp(T)
      OBVIOUS
    <2>2. \A s \in T : tmp[s] \in File
      BY DEF Shape, TypeOK, TmpOK, Attached
    <2>3. \A s \in T : Put(tmp[s], Torn) \in File /\ RecordsOf(Put(tmp[s], Torn)) = RecordsOf(tmp[s])
      BY <2>2, PutTorn
    <2>4. \A s \in T : tmp'[s] # NoFile /\ tmp[s] # NoFile /\ RecordsOf(tmp'[s]) = RecordsOf(tmp[s])
      BY <2>1, <2>2, <2>3, AbsentAssumptions
    <2>5. \A s \in Slugs \ T : tmp'[s] = tmp[s]
      BY <2>1
    <2> HIDE DEF Crash
    <2> QED
      BY <2>4, <2>5 DEF TmpRecs
  <1>2. FiledRecs' = FiledRecs
    BY FiledSame
  <1>3. \A s \in Slugs : BufRecs'[s] \subseteq BufRecs[s]
    BY DEF BufRecs, Range
  <1>4. AcceptedStored'
    BY <1>1, <1>2, <1>3 DEF AcceptedStored, BatchStored, Stored, ActiveRecs, Writing
  <1>5. BatchStored'
    BY <1>1, <1>2, <1>3 DEF BatchStored, Stored, ActiveRecs, Shape, TypeOK, SpoolsOK, Control,
       Counted, Rotated, Serving, Writing, Rotating, Closing, Starting, Recovering
  <1>6. Unattached'
    BY <1>1, <1>2, <1>3 DEF Unattached, Kept, Fresh, Staged, Rotated, Counted, Shape, TypeOK,
       SpoolsOK, Control, Serving, Writing, Rotating, Closing, Starting, Recovering
  <1>7. Counted'
    BY <1>1, <1>2, <1>3 DEF Counted, Kept, Fresh, Unattached, Rotated, Shape, TypeOK, JobOK,
       SpoolsOK, Control, Serving, Writing, Rotating, Closing, Starting, Recovering
  <1>8. Rotated'
    BY <1>1, <1>2, <1>3, SpoolAssumptions DEF Rotated, Shape, TypeOK, TmpOK, JobOK, PCs,
       Control, Serving, Writing, Rotating, Closing, Starting, Recovering
  <1>9. Fresh'
    BY <1>1, <1>2, <1>3 DEF Fresh, Shape, TypeOK, HistoryOK, JobOK
  <1>10. Staged'
    BY <1>1, <1>2, <1>3 DEF Staged, Shape, TypeOK, Control, Reserved, Serving, Writing,
       Rotating, Closing, Starting, Recovering
  <1> QED
    BY ShapeCrash, <1>4, <1>5, <1>6, <1>7, <1>8, <1>9, <1>10 DEF KeptInv

LEMMA KeptStart == "reopen" \notin Faults /\ KeptInv /\ Start => KeptInv'
  <1> SUFFICES ASSUME "reopen" \notin Faults, Shape, AcceptedStored, BatchStored, Unattached,
     Counted, Rotated, Fresh, Staged, Start
               PROVE  KeptInv'
    BY DEF KeptInv
  <1> USE DEF Start, disk, job, work, spools, history, budget
  <1>1. TmpRecs' = TmpRecs
    BY TmpSame
  <1>2. FiledRecs' = FiledRecs
    BY FiledSame
  <1>3. BufRecs' = BufRecs
    BY BufSame
  <1>4. AcceptedStored'
    BY <1>1, <1>2, <1>3 DEF AcceptedStored, BatchStored, Stored, ActiveRecs, Writing
  <1>5. BatchStored'
    BY <1>1, <1>2, <1>3 DEF BatchStored, Stored, ActiveRecs, Shape, TypeOK, SpoolsOK, Control,
       Counted, Rotated, Serving, Writing, Rotating, Closing, Starting, Recovering
  <1>6. Unattached'
    BY <1>1, <1>2, <1>3 DEF Unattached, Kept, Fresh, Staged, Rotated, Counted, Shape, TypeOK,
       SpoolsOK, Control, Serving, Writing, Rotating, Closing, Starting, Recovering
  <1>7. Counted'
    BY <1>1, <1>2, <1>3 DEF Counted, Kept, Fresh, Unattached, Rotated, Shape, TypeOK, JobOK,
       SpoolsOK, Control, Serving, Writing, Rotating, Closing, Starting, Recovering
  <1>8. Rotated'
    BY <1>1, <1>2, <1>3, SpoolAssumptions DEF Rotated, Shape, TypeOK, TmpOK, JobOK, PCs,
       Control, Serving, Writing, Rotating, Closing, Starting, Recovering
  <1>9. Fresh'
    BY <1>1, <1>2, <1>3 DEF Fresh, Shape, TypeOK, HistoryOK, JobOK
  <1>10. Staged'
    BY <1>1, <1>2, <1>3 DEF Staged, Shape, TypeOK, Control, Reserved, Serving, Writing,
       Rotating, Closing, Starting, Recovering
  <1> QED
    BY ShapeStart, <1>4, <1>5, <1>6, <1>7, <1>8, <1>9, <1>10 DEF KeptInv

LEMMA KeptSweep == "reopen" \notin Faults /\ KeptInv /\ Sweep => KeptInv'
  <1> SUFFICES ASSUME "reopen" \notin Faults, Shape, AcceptedStored, BatchStored, Unattached,
     Counted, Rotated, Fresh, Staged, Sweep
               PROVE  KeptInv'
    BY DEF KeptInv
  <1> USE DEF Sweep, Gone, GiveUp, Fault, Fails, Stranded, NoJob, NewJob, disk, spools, history, budget
  <1>1. TmpRecs' = TmpRecs
    BY TmpSame
  <1>2. FiledRecs' = FiledRecs
    BY FiledSame
  <1>3. \A s \in Slugs : BufRecs'[s] \subseteq BufRecs[s]
    BY DEF BufRecs, Range
  <1>4. \A s \in Slugs : tmp[s] = NoFile => TmpRecs[s] = {}
    BY DEF TmpRecs
  <1>5. AcceptedStored'
    BY <1>1, <1>2, <1>3, <1>4 DEF AcceptedStored, BatchStored, Stored, ActiveRecs, Writing
  <1>6. BatchStored'
    BY <1>1, <1>2, <1>3, <1>4 DEF BatchStored, Stored, ActiveRecs, Shape, TypeOK, SpoolsOK,
       Control, Counted, Rotated, Serving, Writing, Rotating, Closing, Starting, Recovering
  <1>7. Unattached'
    BY <1>1, <1>2, <1>3, <1>4 DEF Unattached, Kept, Fresh, Staged, Rotated, Counted, Shape,
       TypeOK, SpoolsOK, Control, Serving, Writing, Rotating, Closing, Starting, Recovering
  <1>8. Counted'
    BY <1>1, <1>2, <1>3, <1>4 DEF Counted, Kept, Fresh, Unattached, Rotated, Shape, TypeOK,
       JobOK, SpoolsOK, Control, Serving, Writing, Rotating, Closing, Starting, Recovering
  <1>9. Rotated'
    BY <1>1, <1>2, <1>3, <1>4, SpoolAssumptions DEF Rotated, Shape, TypeOK, TmpOK, JobOK, PCs,
       Control, Serving, Writing, Rotating, Closing, Starting, Recovering
  <1>10. Fresh'
    BY <1>1, <1>2, <1>3, <1>4 DEF Fresh, Shape, TypeOK, HistoryOK, JobOK
  <1>11. Staged'
    BY <1>1, <1>2, <1>3, <1>4 DEF Staged, Shape, TypeOK, Control, Reserved, Serving, Writing,
       Rotating, Closing, Starting, Recovering
  <1> QED
    BY ShapeSweep, <1>5, <1>6, <1>7, <1>8, <1>9, <1>10, <1>11 DEF KeptInv

LEMMA KeptRecoverRead == "reopen" \notin Faults /\ KeptInv /\ RecoverRead => KeptInv'
  <1> SUFFICES ASSUME "reopen" \notin Faults, Shape, AcceptedStored, BatchStored, Unattached,
     Counted, Rotated, Fresh, Staged, RecoverRead
               PROVE  KeptInv'
    BY DEF KeptInv
  <1> USE DEF RecoverRead, Gone, GiveUp, Fault, Fails, NoJob, NewJob, Take, disk, spools, history,
     budget
  <1>1. TmpRecs' = TmpRecs
    BY TmpSame
  <1>2. FiledRecs' = FiledRecs
    BY FiledSame
  <1>3. \A s \in Slugs : BufRecs'[s] \subseteq BufRecs[s]
    BY DEF BufRecs, Range
  <1>4. \A s \in queue : Lines(tmp[s]) = {} /\ tmp[s].tail = <<>> => TmpRecs[s] = {}
    <2> SUFFICES ASSUME NEW s \in queue, Lines(tmp[s]) = {}, tmp[s].tail = <<>>
                 PROVE  TmpRecs[s] = {}
      OBVIOUS
    <2>1. RecordsOf(tmp[s]) = {}
      BY TextsType DEF RecordsOf
    <2> QED
      BY <2>1 DEF TmpRecs, Shape, TypeOK, JobOK
  <1>5. AcceptedStored'
    BY <1>1, <1>2, <1>3, <1>4 DEF AcceptedStored, BatchStored, Stored, ActiveRecs, Writing
  <1>6. BatchStored'
    BY <1>1, <1>2, <1>3, <1>4 DEF BatchStored, Stored, ActiveRecs, Shape, TypeOK, SpoolsOK,
       Control, Counted, Rotated, Serving, Writing, Rotating, Closing, Starting, Recovering
  <1>7. Unattached'
    BY <1>1, <1>2, <1>3, <1>4 DEF Unattached, Kept, Fresh, Staged, Rotated, Counted, Shape,
       TypeOK, SpoolsOK, Control, Serving, Writing, Rotating, Closing, Starting, Recovering
  <1>8. Counted'
    BY <1>1, <1>2, <1>3, <1>4 DEF Counted, Kept, Fresh, Unattached, Rotated, Shape, TypeOK,
       JobOK, SpoolsOK, Control, Serving, Writing, Rotating, Closing, Starting, Recovering
  <1>9. Rotated'
    BY <1>1, <1>2, <1>3, <1>4, SpoolAssumptions DEF Rotated, Shape, TypeOK, TmpOK, JobOK, PCs,
       Control, Serving, Writing, Rotating, Closing, Starting, Recovering
  <1>10. Fresh'
    BY <1>1, <1>2, <1>3, <1>4 DEF Fresh, Shape, TypeOK, HistoryOK, JobOK
  <1>11. Staged'
    <2>1. CASE pc' = "scan"
      BY <1>1, <1>4, <2>1 DEF Staged, Serving, Writing, Rotating, Closing, Starting, Recovering
    <2>2. CASE pc' = "reserve"
      <3>1. PICK s \in queue :
                /\ slug' = s /\ queue' = queue \ {s} /\ tmp' = tmp
                /\ stage' = IF StageOf(tmp[s]).rest = {} THEN NoFile ELSE StageOf(tmp[s])
        BY <2>2
      <3>2. s \in Slugs /\ StageOf(tmp[s]) # NoFile
        BY StageOfType, AbsentAssumptions DEF Shape, TypeOK, TmpOK, JobOK, Control
      <3>3. \A q \in Slugs \ queue' : q # slug' => TmpRecs'[q] = {}
        BY <1>1, <3>1 DEF Staged
      <3> HIDE DEF RecoverRead
      <3> QED
        BY <2>2, <3>1, <3>2, <3>3 DEF Staged, Serving, Writing, Rotating, Closing, Starting,
           Recovering
    <2>3. CASE pc' = "down"
      BY <2>3 DEF Staged, Serving, Writing, Rotating, Closing, Starting, Recovering
    <2> QED
      BY <2>1, <2>2, <2>3
  <1> QED
    BY ShapeRecoverRead, <1>5, <1>6, <1>7, <1>8, <1>9, <1>10, <1>11 DEF KeptInv

LEMMA KeptRecoverReserve == "reopen" \notin Faults /\ KeptInv /\ RecoverReserve => KeptInv'
  <1> SUFFICES ASSUME "reopen" \notin Faults, Shape, AcceptedStored, BatchStored, Unattached,
     Counted, Rotated, Fresh, Staged, RecoverReserve
               PROVE  KeptInv'
    BY DEF KeptInv
  <1> USE DEF RecoverReserve, Gone, GiveUp, Fault, Fails, NoJob, NewJob, disk, job, work, spools,
     history, budget
  <1>1. TmpRecs' = TmpRecs
    BY TmpSame
  <1>2. FiledRecs' = FiledRecs
    <2>1. \/ files' = files \/ files' = Without({})
          \/ \E n \in FreeNames(slug, "quarantine") : files' = With(n, EmptyFile)
      BY AbandonStage
    <2>2. CASE files' = Without({})
      BY <2>2, FiledRemove
    <2> QED
      BY <2>1, <2>2, FiledSame, FiledAdd, FreeNamesFresh, EmptyRecords
  <1>3. \A s \in Slugs : BufRecs'[s] \subseteq BufRecs[s]
    BY DEF BufRecs, Range
  <1>4. \A n \in FreeNames(slug, "quarantine") : n # None
    BY FreeNamesType, AbsentAssumptions DEF Shape, TypeOK, SpoolsOK, Control, Recovering,
       Closing
  <1>5. AcceptedStored'
    BY <1>1, <1>2, <1>3, <1>4 DEF AcceptedStored, BatchStored, Stored, ActiveRecs, Writing
  <1>6. BatchStored'
    BY <1>1, <1>2, <1>3, <1>4 DEF BatchStored, Stored, ActiveRecs, Shape, TypeOK, SpoolsOK,
       Control, Counted, Rotated, Serving, Writing, Rotating, Closing, Starting, Recovering
  <1>7. Unattached'
    BY <1>1, <1>2, <1>3, <1>4 DEF Unattached, Kept, Fresh, Staged, Rotated, Counted, Shape,
       TypeOK, SpoolsOK, Control, Serving, Writing, Rotating, Closing, Starting, Recovering
  <1>8. Counted'
    BY <1>1, <1>2, <1>3, <1>4 DEF Counted, Kept, Fresh, Unattached, Rotated, Shape, TypeOK,
       JobOK, SpoolsOK, Control, Serving, Writing, Rotating, Closing, Starting, Recovering
  <1>9. Rotated'
    BY <1>1, <1>2, <1>3, <1>4, SpoolAssumptions DEF Rotated, Shape, TypeOK, TmpOK, JobOK, PCs,
       Control, Serving, Writing, Rotating, Closing, Starting, Recovering
  <1>10. Fresh'
    BY <1>1, <1>2, <1>3, <1>4 DEF Fresh, Shape, TypeOK, HistoryOK, JobOK
  <1>11. Staged'
    BY <1>1, <1>2, <1>3, <1>4 DEF Staged, Shape, TypeOK, Control, Reserved, Serving, Writing,
       Rotating, Closing, Starting, Recovering
  <1> QED
    BY ShapeRecoverReserve, <1>5, <1>6, <1>7, <1>8, <1>9, <1>10, <1>11 DEF KeptInv

LEMMA KeptRecoverClaim == "reopen" \notin Faults /\ KeptInv /\ RecoverClaim => KeptInv'
  <1> SUFFICES ASSUME "reopen" \notin Faults, Shape, AcceptedStored, BatchStored, Unattached,
     Counted, Rotated, Fresh, Staged, RecoverClaim
               PROVE  KeptInv'
    BY DEF KeptInv
  <1> USE DEF RecoverClaim, Gone, GiveUp, Fault, Fails, NoJob, NewJob, disk, job, work, spools,
     history, budget
  <1>1. TmpRecs' = TmpRecs
    BY TmpSame
  <1>2. FiledRecs' = FiledRecs
    <2>1. \/ files' = files \/ \E gone \in SUBSET {aside} : files' = Without(gone)
          \/ \E n \in FreeNames(slug, "ndjson") : files' = With(n, EmptyFile)
      BY AbandonEffect
    <2>2. aside \in DOMAIN files => files[aside] = EmptyFile
      BY AbsentAssumptions DEF Shape, Reserved, TypeOK, FilesOK
    <2>3. CASE \E gone \in SUBSET {aside} : files' = Without(gone)
      BY <2>2, <2>3, FiledRemove
    <2>4. CASE \E n \in FreeNames(slug, "ndjson") : files' = With(n, EmptyFile)
      BY <2>4, FiledAdd, FreeNamesFresh, EmptyRecords
    <2> QED
      BY <2>1, <2>3, <2>4, FiledSame
  <1>3. \A s \in Slugs : BufRecs'[s] \subseteq BufRecs[s]
    BY DEF BufRecs, Range
  <1>4. stage = NoFile /\ aside = None => TmpRecs[slug] = {}
    <2> SUFFICES ASSUME stage = NoFile, aside = None PROVE TmpRecs[slug] = {}
      OBVIOUS
    <2>1. slug \in Slugs /\ tmp[slug] \in File
      BY DEF Shape, TypeOK, TmpOK, Control, Recovering
    <2>2. ~Damaged(tmp[slug]) /\ StageOf(tmp[slug]).rest = {}
      BY DEF Staged
    <2>3. RecordsOf(tmp[slug]) = {}
      BY <2>1, <2>2, StageRecords, InRecordsOf, TextsType DEF StageOf
    <2> QED
      BY <2>1, <2>3 DEF TmpRecs
  <1>5. AcceptedStored'
    BY <1>1, <1>2, <1>3, <1>4 DEF AcceptedStored, BatchStored, Stored, ActiveRecs, Writing
  <1>6. BatchStored'
    BY <1>1, <1>2, <1>3, <1>4 DEF BatchStored, Stored, ActiveRecs, Shape, TypeOK, SpoolsOK,
       Control, Counted, Rotated, Serving, Writing, Rotating, Closing, Starting, Recovering
  <1>7. Unattached'
    BY <1>1, <1>2, <1>3, <1>4 DEF Unattached, Kept, Fresh, Staged, Rotated, Counted, Shape,
       TypeOK, SpoolsOK, Control, Serving, Writing, Rotating, Closing, Starting, Recovering
  <1>8. Counted'
    BY <1>1, <1>2, <1>3, <1>4 DEF Counted, Kept, Fresh, Unattached, Rotated, Shape, TypeOK,
       JobOK, SpoolsOK, Control, Serving, Writing, Rotating, Closing, Starting, Recovering
  <1>9. Rotated'
    BY <1>1, <1>2, <1>3, <1>4, SpoolAssumptions DEF Rotated, Shape, TypeOK, TmpOK, JobOK, PCs,
       Control, Serving, Writing, Rotating, Closing, Starting, Recovering
  <1>10. Fresh'
    BY <1>1, <1>2, <1>3, <1>4 DEF Fresh, Shape, TypeOK, HistoryOK, JobOK
  <1>11. Staged'
    BY <1>1, <1>2, <1>3, <1>4 DEF Staged, Shape, TypeOK, Control, Reserved, Serving, Writing,
       Rotating, Closing, Starting, Recovering
  <1> QED
    BY ShapeRecoverClaim, <1>5, <1>6, <1>7, <1>8, <1>9, <1>10, <1>11 DEF KeptInv

LEMMA KeptRecoverPublish == "reopen" \notin Faults /\ KeptInv /\ RecoverPublish => KeptInv'
  <1> SUFFICES ASSUME "reopen" \notin Faults, Shape, AcceptedStored, BatchStored, Unattached,
     Counted, Rotated, Fresh, Staged, RecoverPublish
               PROVE  KeptInv'
    BY DEF KeptInv
  <1> USE DEF RecoverPublish, Gone, GiveUp, Fault, Fails, NoJob, NewJob, work, spools, history, budget
  <1>1. TmpRecs' = TmpRecs
    BY TmpSame
  <1>2. /\ FiledRecs \subseteq FiledRecs'
        /\ pc' = "dispose" /\ aside' = None => TmpRecs[slug] \subseteq FiledRecs'
    <2>1. files[target] = EmptyFile
      BY DEF Shape, Reserved
    <2>2. aside \in DOMAIN files => files[aside] = EmptyFile
      BY AbsentAssumptions DEF Shape, Reserved, TypeOK, FilesOK
    <2>3. CASE files' = With(target, stage)
      <3>1. FiledRecs' = FiledRecs \cup RecordsOf(stage)
        BY <2>1, <2>3, FiledAdd
      <3>2. aside' = aside \/ pc' # "dispose"
        OBVIOUS
      <3>3. aside = None => RecordsOf(stage) = RecordsOf(tmp[slug])
        BY StageRecords DEF Shape, TypeOK, TmpOK, Control, Recovering, Staged, Reserved
      <3>4. TmpRecs[slug] = RecordsOf(tmp[slug])
        BY DEF TmpRecs, Shape, TypeOK, Control, Recovering
      <3> QED
        BY <3>1, <3>2, <3>3, <3>4
    <2>4. CASE Abandon({target, aside}) /\ pc' = "down"
      <3>1. \E gone \in SUBSET {target, aside} : files' = Without(gone)
        BY <2>4, AbandonEffect
      <3>2. FiledRecs' = FiledRecs
        BY <2>1, <2>2, <3>1, FiledRemove
      <3> QED
        BY <2>4, <3>2
    <2> QED
      BY <2>3, <2>4
  <1>3. \A s \in Slugs : BufRecs'[s] \subseteq BufRecs[s]
    BY DEF BufRecs, Range
  <1>4. AcceptedStored'
    BY <1>1, <1>2, <1>3 DEF AcceptedStored, BatchStored, Stored, ActiveRecs, Writing
  <1>5. BatchStored'
    BY <1>1, <1>2, <1>3 DEF BatchStored, Stored, ActiveRecs, Shape, TypeOK, SpoolsOK, Control,
       Counted, Rotated, Serving, Writing, Rotating, Closing, Starting, Recovering
  <1>6. Unattached'
    BY <1>1, <1>2, <1>3 DEF Unattached, Kept, Fresh, Staged, Rotated, Counted, Shape, TypeOK,
       SpoolsOK, Control, Serving, Writing, Rotating, Closing, Starting, Recovering
  <1>7. Counted'
    BY <1>1, <1>2, <1>3 DEF Counted, Kept, Fresh, Unattached, Rotated, Shape, TypeOK, JobOK,
       SpoolsOK, Control, Serving, Writing, Rotating, Closing, Starting, Recovering
  <1>8. Rotated'
    BY <1>1, <1>2, <1>3, SpoolAssumptions DEF Rotated, Shape, TypeOK, TmpOK, JobOK, PCs,
       Control, Serving, Writing, Rotating, Closing, Starting, Recovering
  <1>9. Fresh'
    BY <1>1, <1>2, <1>3 DEF Fresh, Shape, TypeOK, HistoryOK, JobOK
  <1>10. Staged'
    BY <1>1, <1>2, <1>3 DEF Staged, Shape, TypeOK, Control, Reserved, Serving, Writing,
       Rotating, Closing, Starting, Recovering
  <1> QED
    BY ShapeRecoverPublish, <1>4, <1>5, <1>6, <1>7, <1>8, <1>9, <1>10 DEF KeptInv

LEMMA KeptRecoverDispose == "reopen" \notin Faults /\ KeptInv /\ RecoverDispose => KeptInv'
  <1> SUFFICES ASSUME "reopen" \notin Faults, Shape, AcceptedStored, BatchStored, Unattached,
     Counted, Rotated, Fresh, Staged, RecoverDispose
               PROVE  KeptInv'
    BY DEF KeptInv
  <1> USE DEF RecoverDispose, Gone, GiveUp, Fault, Fails, NoJob, NewJob, work, spools, history, budget
  <1>1. slug \in Slugs /\ \A s \in Slugs : s # slug => TmpRecs'[s] = TmpRecs[s]
    <2>1. slug \in Slugs
      BY DEF Shape, Control, Recovering
    <2> QED
      BY <2>1, TmpSame, TmpUpdate, ZenonT(60) DEF Shape, TypeOK, TmpRecs
  <1>2. /\ FiledRecs \subseteq FiledRecs' /\ TmpRecs[slug] \subseteq TmpRecs'[slug] \cup FiledRecs'
        /\ pc' = "scan" => TmpRecs'[slug] = {}
    <2>1. slug \in Slugs /\ tmp[slug] # NoFile
      BY DEF Shape, Control, Recovering
    <2>2. aside \in DOMAIN files => files[aside] = EmptyFile
      BY AbsentAssumptions DEF Shape, Reserved, TypeOK, FilesOK
    <2>3. CASE tmp' = [tmp EXCEPT ![slug] = NoFile] /\ aside = None /\ files' = files
      <3>1. TmpRecs'[slug] = {} /\ FiledRecs' = FiledRecs
        BY <2>1, <2>3, FiledSame DEF Shape, TypeOK, TmpOK, TmpRecs
      <3>2. TmpRecs[slug] \subseteq FiledRecs
        BY <2>3 DEF Staged
      <3> QED
        BY <3>1, <3>2
    <2>4. CASE tmp' = [tmp EXCEPT ![slug] = NoFile] /\ aside # None /\ files' = With(aside, tmp[slug])
      <3>1. FiledRecs' = FiledRecs \cup RecordsOf(tmp[slug])
        BY <2>4, <2>2, FiledAdd
      <3>2. TmpRecs[slug] = RecordsOf(tmp[slug]) /\ TmpRecs'[slug] = {}
        BY <2>1, <2>4 DEF TmpRecs, Shape, TypeOK, TmpOK
      <3> QED
        BY <3>1, <3>2
    <2>5. CASE tmp' = tmp /\ pc' = "down" /\ \E gone \in SUBSET {aside} : files' = Without(gone)
      BY <2>2, <2>5, TmpSame, FiledRemove
    <2> QED
      BY <2>3, <2>4, <2>5, DiscardEffect
  <1>3. \A s \in Slugs : BufRecs'[s] \subseteq BufRecs[s]
    BY DEF BufRecs, Range
  <1>4. AcceptedStored'
    <2>1. Stored \subseteq Stored'
      <3>1. \A s \in Slugs : TmpRecs[s] \subseteq TmpRecs'[s] \cup FiledRecs'
        BY <1>1, <1>2
      <3>2. FiledRecs \subseteq FiledRecs' /\ pruned' = pruned
        BY <1>2
      <3> QED
        BY <3>1, <3>2, StoredGrows
    <2> QED
      BY <2>1 DEF AcceptedStored
  <1>5. BatchStored'
    <2>1. Stored \subseteq Stored'
      <3>1. \A s \in Slugs : TmpRecs[s] \subseteq TmpRecs'[s] \cup FiledRecs'
        BY <1>1, <1>2
      <3>2. FiledRecs \subseteq FiledRecs' /\ pruned' = pruned
        BY <1>2
      <3> QED
        BY <3>1, <3>2, StoredGrows
    <2>2. pc \notin Writing
      BY DEF Serving, Writing, Rotating, Closing, Starting, Recovering
    <2> QED
      BY <2>1, <2>2 DEF BatchStored
  <1>6. Unattached'
    BY <1>1, <1>2, <1>3 DEF Unattached, Kept, Fresh, Staged, Rotated, Counted, Shape, TypeOK,
       SpoolsOK, Control, Serving, Writing, Rotating, Closing, Starting, Recovering
  <1>7. Counted'
    BY <1>1, <1>2, <1>3 DEF Counted, Kept, Fresh, Unattached, Rotated, Shape, TypeOK, JobOK,
       SpoolsOK, Control, Serving, Writing, Rotating, Closing, Starting, Recovering
  <1>8. Rotated'
    BY <1>1, <1>2, <1>3, SpoolAssumptions DEF Rotated, Shape, TypeOK, TmpOK, JobOK, PCs,
       Control, Serving, Writing, Rotating, Closing, Starting, Recovering
  <1>9. Fresh'
    <2>1. \A s \in Slugs : TmpRecs'[s] \subseteq TmpRecs[s]
      <3>1. TmpRecs'[slug] = TmpRecs[slug] \/ TmpRecs'[slug] = {}
        BY <1>2, TmpSame
      <3> QED
        BY <1>1, <3>1
    <2> QED
      BY <2>1, <1>3 DEF Fresh
  <1>10. Staged'
    BY <1>1, <1>2, <1>3 DEF Staged, Shape, TypeOK, Control, Reserved, Serving, Writing,
       Rotating, Closing, Starting, Recovering
  <1> QED
    BY ShapeRecoverDispose, <1>4, <1>5, <1>6, <1>7, <1>8, <1>9, <1>10 DEF KeptInv

LEMMA KeptRecoverDone == "reopen" \notin Faults /\ KeptInv /\ RecoverDone => KeptInv'
  <1> SUFFICES ASSUME "reopen" \notin Faults, Shape, AcceptedStored, BatchStored, Unattached,
     Counted, Rotated, Fresh, Staged, RecoverDone
               PROVE  KeptInv'
    BY DEF KeptInv
  <1> USE DEF RecoverDone, NoJob, NewJob, disk, spools, history, budget
  <1>1. TmpRecs' = TmpRecs
    BY TmpSame
  <1>2. FiledRecs' = FiledRecs
    BY FiledSame
  <1>3. BufRecs' = BufRecs
    BY BufSame
  <1>4. AcceptedStored'
    BY <1>1, <1>2, <1>3 DEF AcceptedStored, BatchStored, Stored, ActiveRecs, Writing
  <1>5. BatchStored'
    BY <1>1, <1>2, <1>3 DEF BatchStored, Stored, ActiveRecs, Shape, TypeOK, SpoolsOK, Control,
       Counted, Rotated, Serving, Writing, Rotating, Closing, Starting, Recovering
  <1>6. Unattached'
    BY <1>1, <1>2, <1>3 DEF Unattached, Kept, Fresh, Staged, Rotated, Counted, Shape, TypeOK,
       SpoolsOK, Control, Serving, Writing, Rotating, Closing, Starting, Recovering
  <1>7. Counted'
    BY <1>1, <1>2, <1>3 DEF Counted, Kept, Fresh, Unattached, Rotated, Shape, TypeOK, JobOK,
       SpoolsOK, Control, Serving, Writing, Rotating, Closing, Starting, Recovering
  <1>8. Rotated'
    BY <1>1, <1>2, <1>3, SpoolAssumptions DEF Rotated, Shape, TypeOK, TmpOK, JobOK, PCs,
       Control, Serving, Writing, Rotating, Closing, Starting, Recovering
  <1>9. Fresh'
    BY <1>1, <1>2, <1>3 DEF Fresh, Shape, TypeOK, HistoryOK, JobOK
  <1>10. Staged'
    BY <1>1, <1>2, <1>3 DEF Staged, Shape, TypeOK, Control, Reserved, Serving, Writing,
       Rotating, Closing, Starting, Recovering
  <1> QED
    BY ShapeRecoverDone, <1>4, <1>5, <1>6, <1>7, <1>8, <1>9, <1>10 DEF KeptInv

LEMMA KeptBeginBatch == "reopen" \notin Faults /\ KeptInv /\ BeginBatch => KeptInv'
  <1> SUFFICES ASSUME "reopen" \notin Faults, Shape, AcceptedStored, BatchStored, Unattached,
     Counted, Rotated, Fresh, Staged, BeginBatch
               PROVE  KeptInv'
    BY DEF KeptInv
  <1> USE DEF BeginBatch, NewJob, disk, spools, budget
  <1>1. TmpRecs' = TmpRecs
    BY TmpSame
  <1>2. FiledRecs' = FiledRecs
    BY FiledSame
  <1>3. BufRecs' = BufRecs
    BY BufSame
  <1>4. AcceptedStored'
    BY <1>1, <1>2, <1>3 DEF AcceptedStored, BatchStored, Stored, ActiveRecs, Writing
  <1>5. BatchStored'
    BY <1>1, <1>2, <1>3 DEF BatchStored, Stored, ActiveRecs, Shape, TypeOK, SpoolsOK, Control,
       Counted, Rotated, Serving, Writing, Rotating, Closing, Starting, Recovering
  <1>6. Unattached'
    BY <1>1, <1>2, <1>3 DEF Unattached, Kept, Fresh, Staged, Rotated, Counted, Shape, TypeOK,
       SpoolsOK, Control, Serving, Writing, Rotating, Closing, Starting, Recovering
  <1>7. Counted'
    BY <1>1, <1>2, <1>3 DEF Counted, Kept, Fresh, Unattached, Rotated, Shape, TypeOK, JobOK,
       SpoolsOK, Control, Serving, Writing, Rotating, Closing, Starting, Recovering
  <1>8. Rotated'
    BY <1>1, <1>2, <1>3, SpoolAssumptions DEF Rotated, Shape, TypeOK, TmpOK, JobOK, PCs,
       Control, Serving, Writing, Rotating, Closing, Starting, Recovering
  <1>9. Fresh'
    BY <1>1, <1>2, <1>3 DEF Fresh, Shape, TypeOK, HistoryOK, JobOK
  <1>10. Staged'
    BY <1>1, <1>2, <1>3 DEF Staged, Shape, TypeOK, Control, Reserved, Serving, Writing,
       Rotating, Closing, Starting, Recovering
  <1> QED
    BY ShapeBeginBatch, <1>4, <1>5, <1>6, <1>7, <1>8, <1>9, <1>10 DEF KeptInv

LEMMA KeptEnsureSpool == "reopen" \notin Faults /\ KeptInv /\ EnsureSpool => KeptInv'
  <1> SUFFICES ASSUME "reopen" \notin Faults, Shape, AcceptedStored, BatchStored, Unattached,
     Counted, Rotated, Fresh, Staged, EnsureSpool
               PROVE  KeptInv'
    BY DEF KeptInv
  <1> USE DEF EnsureSpool, Fault, Fails, Abort, OpenFresh, NoJob, NewJob, spools, history, budget
  <1>1. FiledRecs' = FiledRecs
    BY FiledSame
  <1>2. \A r \in todo : SlugOf[r] \in Slugs
    BY SpoolAssumptions DEF Shape, TypeOK, JobOK
  <1>3. \A s \in Slugs : \/ TmpRecs'[s] = TmpRecs[s] /\ BufRecs'[s] = BufRecs[s] /\ bytes'[s] = bytes[s]
                         \/ s \notin open /\ TmpRecs'[s] = {} /\ BufRecs'[s] = {}
    <2>1. CASE tmp' = tmp /\ buf' = buf /\ bytes' = bytes
      BY <2>1, TmpSame, BufSame
    <2>2. CASE \E s \in Slugs : s \notin open /\ OpenFresh(s)
      <3>1. PICK d \in Slugs : d \notin open /\ OpenFresh(d)
        BY <2>2
      <3> HIDE DEF EnsureSpool
      <3>2. TmpRecs' = [TmpRecs EXCEPT ![d] = {}]
        BY <3>1, TmpUpdate, EmptyRecords, EmptyFileType, AbsentAssumptions DEF Shape, TypeOK
      <3>3. BufRecs'[d] = {} /\ \A s \in Slugs : s # d => BufRecs'[s] = BufRecs[s] /\ bytes'[s] = bytes[s]
        BY <3>1 DEF BufRecs, Range, Shape, TypeOK, SpoolsOK
      <3> QED
        BY <3>1, <3>2, <3>3 DEF TmpRecs
    <2> QED
      BY <2>1, <2>2, <1>2
  <1>4. AcceptedStored'
    <2>1. Kept \cap Stored \subseteq Stored'
      <3>1. \A s \in Slugs : TmpRecs'[s] = TmpRecs[s] \/ TmpRecs[s] \cap Kept = {}
        BY <1>3 DEF Unattached, Serving, Rotating, Closing
      <3> QED
        BY <1>1, <3>1, KeptStored
    <2> QED
      BY <2>1 DEF AcceptedStored, Kept
  <1>5. BatchStored'
    <2>1. Kept \cap Stored \subseteq Stored'
      <3>1. \A s \in Slugs : TmpRecs'[s] = TmpRecs[s] \/ TmpRecs[s] \cap Kept = {}
        BY <1>3 DEF Unattached, Serving, Rotating, Closing
      <3> QED
        BY <1>1, <3>1, KeptStored
    <2>2. pc \notin Writing
      BY DEF Serving, Writing, Rotating, Closing, Starting, Recovering
    <2> QED
      BY <2>1, <2>2 DEF BatchStored, Kept
  <1>6. Unattached'
    BY <1>1, <1>2, <1>3 DEF Unattached, Kept, Fresh, Staged, Rotated, Counted, Shape, TypeOK,
       SpoolsOK, Control, Serving, Writing, Rotating, Closing, Starting, Recovering
  <1>7. Counted'
    <2>1. Kept' \subseteq Kept
      BY DEF Kept
    <2>2. pc' \notin Closing
      BY DEF Closing
    <2>3. \A s \in open' : s \in open \/ (TmpRecs'[s] = {} /\ BufRecs'[s] = {})
      <3> SUFFICES ASSUME NEW s \in open', s \notin open PROVE TmpRecs'[s] = {} /\ BufRecs'[s]
         = {}
        OBVIOUS
      <3>1. OpenFresh(s) /\ s \in Slugs
        BY <1>2
      <3> HIDE DEF EnsureSpool
      <3> QED
        BY <3>1, EmptyRecords, EmptyFileType DEF TmpRecs, BufRecs, Range, Shape, TypeOK, TmpOK,
           SpoolsOK
    <2> QED
      BY <1>3, <2>1, <2>2, <2>3 DEF Counted
  <1>8. Rotated'
    BY <1>1, <1>2, <1>3, SpoolAssumptions DEF Rotated, Shape, TypeOK, TmpOK, JobOK, PCs,
       Control, Serving, Writing, Rotating, Closing, Starting, Recovering
  <1>9. Fresh'
    BY <1>1, <1>2, <1>3 DEF Fresh, Shape, TypeOK, HistoryOK, JobOK
  <1>10. Staged'
    BY <1>1, <1>2, <1>3 DEF Staged, Shape, TypeOK, Control, Reserved, Serving, Writing,
       Rotating, Closing, Starting, Recovering
  <1> QED
    BY ShapeEnsureSpool, <1>4, <1>5, <1>6, <1>7, <1>8, <1>9, <1>10 DEF KeptInv

LEMMA KeptWriteDoc == "reopen" \notin Faults /\ KeptInv /\ WriteDoc => KeptInv'
  <1> SUFFICES ASSUME "reopen" \notin Faults, Shape, AcceptedStored, BatchStored, Unattached,
     Counted, Rotated, Fresh, Staged, WriteDoc
               PROVE  KeptInv'
    BY DEF KeptInv
  <1> USE DEF WriteDoc, Fault, Fails, Abort, Pending, NoJob, NewJob, history, budget
  <1>1. slug \in Slugs /\ tmp[slug] \in File
    BY DEF Shape, TypeOK, TmpOK, SpoolsOK, Attached, Control, Rotating, Closing
  <1>2. FiledRecs' = FiledRecs
    BY FiledSame
  <1>3. TmpRecs' = TmpRecs
    <2>1. CASE tmp' = tmp
      BY <2>1, TmpSame
    <2>2. CASE tmp' = [tmp EXCEPT ![slug] = Put(tmp[slug], Torn)]
      <3>1. RecordsOf(Put(tmp[slug], Torn)) = RecordsOf(tmp[slug])
        BY <1>1, PutTorn
      <3>2. Put(tmp[slug], Torn) # NoFile /\ tmp[slug] # NoFile
        BY <1>1, PutTorn, AbsentAssumptions
      <3> HIDE DEF WriteDoc
      <3> QED
        BY <1>1, <2>2, <3>1, <3>2 DEF TmpRecs, Shape, TypeOK, TmpOK
    <2> QED
      BY <2>1, <2>2
  <1>4. \E r \in todo :
          /\ \A s \in Slugs : s # slug => BufRecs'[s] = BufRecs[s] /\ bytes'[s] = bytes[s]
          /\ BufRecs[slug] \subseteq BufRecs'[slug]
          /\ BufRecs'[slug] \subseteq BufRecs[slug] \cup {r, NL}
          /\ \/ pc' = "idle" /\ todo' = {} /\ batch' = {} /\ bytes' = bytes
             \/ /\ pc' = "check" /\ todo' = todo \ {r} /\ batch' = batch /\ slug' = slug
                /\ r \in BufRecs'[slug] /\ bytes'[slug] > 0
    <2>0. buf[slug] \in Seq(Records \cup {NL}) /\ bytes[slug] \in Nat
      BY <1>1 DEF Shape, TypeOK, SpoolsOK, Buffer
    <2>1. \A r \in Records : Range(buf[slug] \o <<r, NL>>) = Range(buf[slug]) \cup {r, NL}
      <3> SUFFICES ASSUME NEW r \in Records
                   PROVE  Range(buf[slug] \o <<r, NL>>) = Range(buf[slug]) \cup {r, NL}
        OBVIOUS
      <3>1. r \in Records \cup {NL} /\ NL \in Records \cup {NL}
        OBVIOUS
      <3> HIDE DEF WriteDoc
      <3> DEFINE S == Records \cup {NL}
                 l == buf[slug]
      <3>2. l \in Seq(S) /\ r \in S /\ NL \in S
        BY <2>0, <3>1
      <3> HIDE DEF S, l
      <3>3. Range(l \o <<r, NL>>) = Range(l) \cup {r, NL}
        BY <3>2, RangeConcat, SMTT(60)
      <3> QED
        BY <3>3 DEF l
    <2>2. \A r \in Records : Range(Append(buf[slug], r)) = Range(buf[slug]) \cup {r}
      BY <2>0, RangeAppend
    <2>3. PICK r \in Pending :
            \/ buf' = [buf EXCEPT ![slug] = buf[slug] \o <<r, NL>>] /\ bytes' = [bytes EXCEPT ![slug] = bytes[slug] + 2]
                 /\ pc' = "check" /\ todo' = todo \ {r} /\ batch' = batch /\ slug' = slug
            \/ buf' = buf /\ bytes' = bytes /\ pc' = "idle" /\ todo' = {} /\ batch' = {}
            \/ buf' = [buf EXCEPT ![slug] = Append(buf[slug], r)] /\ bytes' = bytes
                 /\ pc' = "idle" /\ todo' = {} /\ batch' = {}
      OBVIOUS
    <2>4. r \in todo /\ r \in Records
      BY DEF Shape, TypeOK, JobOK
    <2>5. \A s \in Slugs : BufRecs[s] = Range(buf[s]) /\ BufRecs'[s] = Range(buf'[s])
      BY DEF BufRecs
    <2>6. buf \in [Slugs -> Buffer] /\ bytes \in [Slugs -> Nat]
      BY DEF Shape, TypeOK, SpoolsOK
    <2> HIDE DEF WriteDoc, Pending
    <2>7. CASE buf' = [buf EXCEPT ![slug] = buf[slug] \o <<r, NL>>] /\ bytes' = [bytes EXCEPT ![slug] = bytes[slug] + 2]
                 /\ pc' = "check" /\ todo' = todo \ {r} /\ batch' = batch /\ slug' = slug
      <3>1. BufRecs'[slug] = BufRecs[slug] \cup {r, NL}
        BY <1>1, <2>1, <2>4, <2>5, <2>6, <2>7
      <3>2. \A s \in Slugs : s # slug => BufRecs'[s] = BufRecs[s] /\ bytes'[s] = bytes[s]
        BY <2>5, <2>6, <2>7
      <3>3. bytes'[slug] > 0
        BY <1>1, <2>0, <2>6, <2>7
      <3> QED
        BY <2>4, <2>7, <3>1, <3>2, <3>3
    <2>8. CASE buf' = buf /\ bytes' = bytes /\ pc' = "idle" /\ todo' = {} /\ batch' = {}
      BY <2>4, <2>8, BufSame
    <2>9. CASE buf' = [buf EXCEPT ![slug] = Append(buf[slug], r)] /\ bytes' = bytes
                 /\ pc' = "idle" /\ todo' = {} /\ batch' = {}
      <3>1. BufRecs'[slug] = BufRecs[slug] \cup {r}
        BY <1>1, <2>2, <2>4, <2>5, <2>6, <2>9
      <3>2. \A s \in Slugs : s # slug => BufRecs'[s] = BufRecs[s]
        BY <2>5, <2>6, <2>9
      <3> QED
        BY <2>4, <2>9, <3>1, <3>2
    <2> QED
      BY <2>3, <2>7, <2>8, <2>9
  <1>5. AcceptedStored'
    BY <1>1, <1>2, <1>3, <1>4 DEF AcceptedStored, BatchStored, Stored, ActiveRecs, Writing
  <1>6. BatchStored'
    <2>1. Stored' = Stored
      BY <1>2, <1>3 DEF Stored, ActiveRecs
    <2>2. PICK r \in todo :
          \/ batch' = {}
          \/ /\ pc' = "check" /\ todo' = todo \ {r} /\ batch' = batch /\ slug' = slug
             /\ r \in BufRecs'[slug] /\ BufRecs[slug] \subseteq BufRecs'[slug]
      BY <1>4
    <2>3. "check" \in Writing
      BY DEF Writing
    <2> HIDE DEF WriteDoc
    <2> QED
      BY <2>1, <2>2, <2>3 DEF BatchStored
  <1>7. Unattached'
    BY <1>1, <1>2, <1>3, <1>4 DEF Unattached, Kept, Fresh, Staged, Rotated, Counted, Shape,
       TypeOK, SpoolsOK, Control, Serving, Writing, Rotating, Closing, Starting, Recovering
  <1>8. Counted'
    <2>1. PICK r \in todo :
          /\ \A s \in Slugs : s # slug => BufRecs'[s] = BufRecs[s] /\ bytes'[s] = bytes[s]
          /\ \/ batch' = {} /\ bytes' = bytes /\ BufRecs'[slug] \subseteq BufRecs[slug] \cup {r, NL}
             \/ batch' = batch /\ todo' = todo \ {r} /\ bytes'[slug] > 0
      BY <1>4
    <2>2. r \notin accepted /\ NL \notin accepted /\ \A s \in Slugs : r \notin TmpRecs[s] /\ r \notin BufRecs[s]
      BY SpoolAssumptions DEF Fresh, Shape, TypeOK, HistoryOK, JobOK
    <2>3. pc' \notin Closing /\ pc \notin Closing /\ open' = open /\ accepted' = accepted
      BY DEF Closing
    <2> HIDE DEF WriteDoc
    <2> QED
      BY <1>3, <2>1, <2>2, <2>3 DEF Counted, Kept
  <1>9. Rotated'
    BY <1>1, <1>2, <1>3, <1>4, SpoolAssumptions DEF Rotated, Shape, TypeOK, TmpOK, JobOK, PCs,
       Control, Serving, Writing, Rotating, Closing, Starting, Recovering
  <1>10. Fresh'
    BY <1>1, <1>2, <1>3, <1>4 DEF Fresh, Shape, TypeOK, HistoryOK, JobOK
  <1>11. Staged'
    BY <1>1, <1>2, <1>3, <1>4 DEF Staged, Shape, TypeOK, Control, Reserved, Serving, Writing,
       Rotating, Closing, Starting, Recovering
  <1> QED
    BY ShapeWriteDoc, <1>5, <1>6, <1>7, <1>8, <1>9, <1>10, <1>11 DEF KeptInv

LEMMA KeptSpill == "reopen" \notin Faults /\ KeptInv /\ Spill => KeptInv'
  <1> SUFFICES ASSUME "reopen" \notin Faults, Shape, AcceptedStored, BatchStored, Unattached,
     Counted, Rotated, Fresh, Staged, Spill
               PROVE  KeptInv'
    BY DEF KeptInv
  <1>0. Shape'
    BY ShapeSpill
  <1>1. slug \in Slugs /\ Drain(slug) /\ pc = "doc"
    BY DEF Spill, Shape, Control, TypeOK, SpoolsOK
  <1>2. AcceptedStored' /\ BatchStored' /\ Unattached' /\ Counted' /\ Rotated' /\ Fresh' /\ Staged'
    <2>1. slug \in Slugs /\ Drain(slug)
      BY <1>1
    <2>2. pc \in {"doc", "rotFlush"} \/ (pc = "exit" /\ slug \in open)
      BY <1>1
    <2> QED
      BY ONLY <2>1, <2>2, KeptDrain, Shape, AcceptedStored, BatchStored, Unattached, Counted,
         Rotated, Fresh, Staged
  <1> QED
    BY <1>0, <1>2 DEF KeptInv

LEMMA KeptRotateIfNeeded == "reopen" \notin Faults /\ KeptInv /\ RotateIfNeeded => KeptInv'
  <1> SUFFICES ASSUME "reopen" \notin Faults, Shape, AcceptedStored, BatchStored, Unattached,
     Counted, Rotated, Fresh, Staged, RotateIfNeeded
               PROVE  KeptInv'
    BY DEF KeptInv
  <1> USE DEF RotateIfNeeded, disk, job, work, history, budget
  <1>1. TmpRecs' = TmpRecs
    BY TmpSame
  <1>2. FiledRecs' = FiledRecs
    BY FiledSame
  <1>3. BufRecs' = BufRecs
    BY BufSame
  <1>4. AcceptedStored'
    BY <1>1, <1>2, <1>3 DEF AcceptedStored, BatchStored, Stored, ActiveRecs, Writing
  <1>5. BatchStored'
    BY <1>1, <1>2, <1>3 DEF BatchStored, Stored, ActiveRecs, Shape, TypeOK, SpoolsOK, Control,
       Counted, Rotated, Serving, Writing, Rotating, Closing, Starting, Recovering
  <1>6. Unattached'
    BY <1>1, <1>2, <1>3 DEF Unattached, Kept, Fresh, Staged, Rotated, Counted, Shape, TypeOK,
       SpoolsOK, Control, Serving, Writing, Rotating, Closing, Starting, Recovering
  <1>7. Counted'
    BY <1>1, <1>2, <1>3 DEF Counted, Kept, Fresh, Unattached, Rotated, Shape, TypeOK, JobOK,
       SpoolsOK, Control, Serving, Writing, Rotating, Closing, Starting, Recovering
  <1>8. Rotated'
    BY <1>1, <1>2, <1>3, SpoolAssumptions DEF Rotated, Shape, TypeOK, TmpOK, JobOK, PCs,
       Control, Serving, Writing, Rotating, Closing, Starting, Recovering
  <1>9. Fresh'
    BY <1>1, <1>2, <1>3 DEF Fresh, Shape, TypeOK, HistoryOK, JobOK
  <1>10. Staged'
    BY <1>1, <1>2, <1>3 DEF Staged, Shape, TypeOK, Control, Reserved, Serving, Writing,
       Rotating, Closing, Starting, Recovering
  <1> QED
    BY ShapeRotateIfNeeded, <1>4, <1>5, <1>6, <1>7, <1>8, <1>9, <1>10 DEF KeptInv

LEMMA KeptFlushGroup == "reopen" \notin Faults /\ KeptInv /\ FlushGroup => KeptInv'
  <1> SUFFICES ASSUME "reopen" \notin Faults, Shape, AcceptedStored, BatchStored, Unattached,
     Counted, Rotated, Fresh, Staged, FlushGroup
               PROVE  KeptInv'
    BY DEF KeptInv
  <1> USE DEF FlushGroup, Fault, Fails, Abort, Pending, NoJob, NewJob, disk, job, work, spools,
     history, budget
  <1>1. TmpRecs' = TmpRecs
    BY TmpSame
  <1>2. FiledRecs' = FiledRecs
    BY FiledSame
  <1>3. BufRecs' = BufRecs
    BY BufSame
  <1>4. AcceptedStored'
    BY <1>1, <1>2, <1>3 DEF AcceptedStored, BatchStored, Stored, ActiveRecs, Writing
  <1>5. BatchStored'
    <2>1. Stored' = Stored
      BY <1>1, <1>2 DEF Stored, ActiveRecs
    <2>2. slug \in Slugs
      BY DEF Shape, Control, TypeOK, SpoolsOK
    <2>3. buf[slug] = <<>> => BufRecs[slug] = {}
      BY <2>2 DEF BufRecs, Range
    <2> QED
      BY <2>1, <2>3 DEF BatchStored
  <1>6. Unattached'
    BY <1>1, <1>2, <1>3 DEF Unattached, Kept, Fresh, Staged, Rotated, Counted, Shape, TypeOK,
       SpoolsOK, Control, Serving, Writing, Rotating, Closing, Starting, Recovering
  <1>7. Counted'
    BY <1>1, <1>2, <1>3 DEF Counted, Kept, Fresh, Unattached, Rotated, Shape, TypeOK, JobOK,
       SpoolsOK, Control, Serving, Writing, Rotating, Closing, Starting, Recovering
  <1>8. Rotated'
    BY <1>1, <1>2, <1>3, SpoolAssumptions DEF Rotated, Shape, TypeOK, TmpOK, JobOK, PCs,
       Control, Serving, Writing, Rotating, Closing, Starting, Recovering
  <1>9. Fresh'
    BY <1>1, <1>2, <1>3 DEF Fresh, Shape, TypeOK, HistoryOK, JobOK
  <1>10. Staged'
    BY <1>1, <1>2, <1>3 DEF Staged, Shape, TypeOK, Control, Reserved, Serving, Writing,
       Rotating, Closing, Starting, Recovering
  <1> QED
    BY ShapeFlushGroup, <1>4, <1>5, <1>6, <1>7, <1>8, <1>9, <1>10 DEF KeptInv

LEMMA KeptEndBatch == "reopen" \notin Faults /\ KeptInv /\ EndBatch => KeptInv'
  <1> SUFFICES ASSUME "reopen" \notin Faults, Shape, AcceptedStored, BatchStored, Unattached,
     Counted, Rotated, Fresh, Staged, EndBatch
               PROVE  KeptInv'
    BY DEF KeptInv
  <1> USE DEF EndBatch, Abort, NoJob, NewJob, disk, spools, budget
  <1>1. TmpRecs' = TmpRecs
    BY TmpSame
  <1>2. FiledRecs' = FiledRecs
    BY FiledSame
  <1>3. BufRecs' = BufRecs
    BY BufSame
  <1>4. AcceptedStored'
    <2>1. Stored' = Stored
      BY <1>1, <1>2 DEF Stored, ActiveRecs
    <2>2. batch \subseteq Stored
      BY DEF BatchStored, Serving, Writing, Rotating, Closing, Starting, Recovering
    <2> QED
      BY <2>1, <2>2 DEF AcceptedStored
  <1>5. BatchStored'
    BY <1>1, <1>2, <1>3 DEF BatchStored, Stored, ActiveRecs, Shape, TypeOK, SpoolsOK, Control,
       Counted, Rotated, Serving, Writing, Rotating, Closing, Starting, Recovering
  <1>6. Unattached'
    BY <1>1, <1>2, <1>3 DEF Unattached, Kept, Fresh, Staged, Rotated, Counted, Shape, TypeOK,
       SpoolsOK, Control, Serving, Writing, Rotating, Closing, Starting, Recovering
  <1>7. Counted'
    BY <1>1, <1>2, <1>3 DEF Counted, Kept, Fresh, Unattached, Rotated, Shape, TypeOK, JobOK,
       SpoolsOK, Control, Serving, Writing, Rotating, Closing, Starting, Recovering
  <1>8. Rotated'
    BY <1>1, <1>2, <1>3, SpoolAssumptions DEF Rotated, Shape, TypeOK, TmpOK, JobOK, PCs,
       Control, Serving, Writing, Rotating, Closing, Starting, Recovering
  <1>9. Fresh'
    BY <1>1, <1>2, <1>3 DEF Fresh, Shape, TypeOK, HistoryOK, JobOK
  <1>10. Staged'
    BY <1>1, <1>2, <1>3 DEF Staged, Shape, TypeOK, Control, Reserved, Serving, Writing,
       Rotating, Closing, Starting, Recovering
  <1> QED
    BY ShapeEndBatch, <1>4, <1>5, <1>6, <1>7, <1>8, <1>9, <1>10 DEF KeptInv

LEMMA KeptRotateFlush == "reopen" \notin Faults /\ KeptInv /\ RotateFlush => KeptInv'
  <1> SUFFICES ASSUME "reopen" \notin Faults, Shape, AcceptedStored, BatchStored, Unattached,
     Counted, Rotated, Fresh, Staged, RotateFlush
               PROVE  KeptInv'
    BY DEF KeptInv
  <1>0. Shape'
    BY ShapeRotateFlush
  <1>1. slug \in Slugs /\ pc = "rotFlush"
    BY DEF RotateFlush, Shape, Control, Rotating, Closing
  <1>2. CASE Drain(slug)
    <2>1. pc \in {"doc", "rotFlush"} \/ (pc = "exit" /\ slug \in open)
      BY <1>1
    <2>2. AcceptedStored' /\ BatchStored' /\ Unattached' /\ Counted' /\ Rotated' /\ Fresh' /\ Staged'
      BY ONLY <1>1, <1>2, <2>1, KeptDrain, Shape, AcceptedStored, BatchStored, Unattached,
         Counted, Rotated, Fresh, Staged
    <2> QED
      BY <1>0, <2>2 DEF KeptInv
  <1>3. CASE ~Drain(slug)
    <2>1. /\ tmp' = tmp /\ buf' = buf /\ files' = files /\ bytes' = bytes
          /\ accepted' = accepted /\ pruned' = pruned /\ offered' = offered
          /\ \/ pc' = "rotPad" /\ open' = open /\ UNCHANGED <<work, target, aside>>
             \/ /\ open' = open \cup {slug}
                /\ \/ pc' = "queue" /\ why = "final" /\ UNCHANGED work
                   \/ pc' = "idle" /\ todo' = {} /\ batch' = {} /\ why' = "none"
      BY <1>3 DEF RotateFlush, Failed, Abort, NoJob, NewJob, Fault, Fails, disk, job, spools, history
    <2>2. TmpRecs' = TmpRecs /\ BufRecs' = BufRecs /\ FiledRecs' = FiledRecs
      BY <2>1, TmpSame, BufSame, FiledSame
    <2>3. Stored' = Stored
      BY <2>1, <2>2 DEF Stored, ActiveRecs
    <2> USE DEF work, Serving, Writing, Rotating, Closing, Starting, Recovering
    <2>4. AcceptedStored' /\ BatchStored'
      BY <1>1, <2>1, <2>2, <2>3 DEF AcceptedStored, BatchStored, Fresh
    <2>5. Unattached' /\ Counted'
      BY <1>1, <2>1, <2>2 DEF Unattached, Counted, Kept
    <2>6. Rotated' /\ Fresh' /\ Staged'
      BY <1>1, <2>1, <2>2 DEF Rotated, Fresh, Staged
    <2> QED
      BY <1>0, <2>4, <2>5, <2>6 DEF KeptInv
  <1> QED
    BY <1>2, <1>3

LEMMA KeptRotatePad == "reopen" \notin Faults /\ KeptInv /\ RotatePad => KeptInv'
  <1> SUFFICES ASSUME "reopen" \notin Faults, Shape, AcceptedStored, BatchStored, Unattached,
     Counted, Rotated, Fresh, Staged, RotatePad
               PROVE  KeptInv'
    BY DEF KeptInv
  <1> USE DEF RotatePad, Fault, Fails, Abort, Failed, Reopen, NoJob, NewJob, job, work, spools,
     history, budget
  <1>1. slug \in Slugs /\ tmp[slug] \in File
    BY DEF Shape, TypeOK, TmpOK, SpoolsOK, Attached, Control, Rotating, Closing
  <1>2. FiledRecs' = FiledRecs
    BY FiledSame
  <1>3. BufRecs' = BufRecs
    BY BufSame
  <1>4. /\ \A s \in Slugs : s # slug => TmpRecs'[s] = TmpRecs[s]
        /\ (TmpRecs'[slug] = TmpRecs[slug] \/ (bytes[slug] = 0 /\ pc' = "rotReplace" /\ TmpRecs'[slug] = {}))
    <2>1. CASE tmp' = tmp
      BY <2>1, TmpSame
    <2>2. CASE tmp' = [tmp EXCEPT ![slug] = NoFile] /\ bytes[slug] = 0 /\ pc' = "rotReplace"
      <3> HIDE DEF RotatePad
      <3> QED
        BY <1>1, <2>2 DEF TmpRecs, Shape, TypeOK, TmpOK
    <2>3. CASE tmp' = [tmp EXCEPT ![slug] = Cut(tmp[slug])] /\ tmp[slug].tail = <<>> /\ tmp[slug].size > 0
      <3>1. RecordsOf(Cut(tmp[slug])) = RecordsOf(tmp[slug]) /\ Cut(tmp[slug]) # NoFile /\ tmp[slug] # NoFile
        BY <1>1, <2>3, CutRecords, CutType, AbsentAssumptions
      <3> HIDE DEF RotatePad
      <3> QED
        BY <1>1, <2>3, <3>1 DEF TmpRecs, Shape, TypeOK, TmpOK
    <2> QED
      BY <2>1, <2>2, <2>3, SpoolAssumptions
  <1>5. AcceptedStored'
    <2>1. Kept \cap Stored \subseteq Stored'
      <3>1. \A s \in Slugs : TmpRecs[s] \cap Kept \subseteq TmpRecs'[s] \cup FiledRecs'
        BY <1>1, <1>4 DEF Counted, Closing
      <3>2. FiledRecs \subseteq FiledRecs' /\ pruned' = pruned
        BY <1>2, <1>3
      <3> QED
        BY <3>1, <3>2, KeptStored
    <2>2. accepted' = accepted /\ ((batch' = batch /\ todo' = todo) \/ batch' = {})
      OBVIOUS
    <2> QED
      BY <2>1, <2>2 DEF AcceptedStored, Kept
  <1>6. BatchStored'
    <2>1. Kept \cap Stored \subseteq Stored'
      <3>1. \A s \in Slugs : TmpRecs[s] \cap Kept \subseteq TmpRecs'[s] \cup FiledRecs'
        BY <1>1, <1>4 DEF Counted, Closing
      <3>2. FiledRecs \subseteq FiledRecs' /\ pruned' = pruned
        BY <1>2, <1>3
      <3> QED
        BY <3>1, <3>2, KeptStored
    <2>2. accepted' = accepted /\ ((batch' = batch /\ todo' = todo) \/ batch' = {})
      OBVIOUS
    <2>3. /\ pc \in Writing /\ BufRecs' = BufRecs
          /\ ((pc' \in Writing /\ slug' = slug) \/ batch' = {} \/ why = "final")
      BY <1>2, <1>3 DEF Serving, Writing, Rotating, Closing, Starting, Recovering
    <2> HIDE DEF RotatePad
    <2> QED
      BY <2>1, <2>2, <2>3 DEF BatchStored, Kept, Fresh
  <1>7. Unattached'
    BY <1>1, <1>2, <1>3, <1>4 DEF Unattached, Kept, Fresh, Staged, Rotated, Counted, Shape,
       TypeOK, SpoolsOK, Control, Serving, Writing, Rotating, Closing, Starting, Recovering
  <1>8. Counted'
    BY <1>1, <1>2, <1>3, <1>4 DEF Counted, Kept, Fresh, Unattached, Rotated, Shape, TypeOK,
       JobOK, SpoolsOK, Control, Serving, Writing, Rotating, Closing, Starting, Recovering
  <1>9. Rotated'
    <2>1. tmp \in [Slugs -> File \cup {NoFile}] /\ bytes \in [Slugs -> Nat]
      BY DEF Shape, TypeOK, TmpOK, SpoolsOK
    <2>2. CASE pc' = "rotReplace"
      <3>1. tmp'[slug] = NoFile /\ slug' = slug
        BY <1>1, <2>1, <2>2
      <3>2. TmpRecs'[slug] = {}
        BY <1>1, <3>1 DEF TmpRecs
      <3> QED
        BY <2>2, <3>1, <3>2 DEF Rotated
    <2>3. CASE pc' = "rotReserve"
      BY <1>1, <2>3, SpoolAssumptions DEF Rotated, File
    <2>4. CASE pc' = "rotCut"
      BY <1>1, <2>1, <2>4 DEF Rotated, Cut
    <2>5. CASE pc' \in {"queue", "idle"}
      BY <2>5 DEF Rotated
    <2> QED
      BY <2>2, <2>3, <2>4, <2>5
  <1>10. Fresh'
    BY <1>1, <1>2, <1>3, <1>4 DEF Fresh, Shape, TypeOK, HistoryOK, JobOK
  <1>11. Staged'
    BY <1>1, <1>2, <1>3, <1>4 DEF Staged, Shape, TypeOK, Control, Reserved, Serving, Writing,
       Rotating, Closing, Starting, Recovering
  <1> QED
    BY ShapeRotatePad, <1>5, <1>6, <1>7, <1>8, <1>9, <1>10, <1>11 DEF KeptInv

LEMMA KeptRotatePadFinish == "reopen" \notin Faults /\ KeptInv /\ RotatePadFinish => KeptInv'
  <1> SUFFICES ASSUME "reopen" \notin Faults, Shape, AcceptedStored, BatchStored, Unattached,
     Counted, Rotated, Fresh, Staged, RotatePadFinish
               PROVE  KeptInv'
    BY DEF KeptInv
  <1> USE DEF RotatePadFinish, Abort, Failed, Reopen, NoJob, NewJob, job, work, spools,
     history, budget
  <1>1. slug \in Slugs /\ tmp[slug] \in File
    BY DEF Shape, TypeOK, TmpOK, SpoolsOK, Attached, Control, Rotating, Closing
  <1>2. FiledRecs' = FiledRecs
    BY FiledSame
  <1>3. BufRecs' = BufRecs
    BY BufSame
  <1>4. TmpRecs' = TmpRecs
    <2>1. tmp[slug].last = <<>> /\ tmp[slug] # NoFile
      BY <1>1, AbsentAssumptions DEF Rotated
    <2>2. PICK f \in File : tmp' = [tmp EXCEPT ![slug] = f] /\ RecordsOf(f) = RecordsOf(tmp[slug])
      <3>1. CASE tmp' = [tmp EXCEPT ![slug] = Padded(tmp[slug])]
        BY <1>1, <2>1, <3>1, PaddedType, PaddedRecords
      <3>2. CASE \E n \in tmp[slug].size..(MinPublished - 1) : tmp' = [tmp EXCEPT ![slug] = Sized(tmp[slug], n)]
        <4>1. PICK n \in tmp[slug].size..(MinPublished - 1) : tmp' = [tmp EXCEPT ![slug] = Sized(tmp[slug], n)]
          BY <3>2
        <4>2. n \in Nat
          BY <1>1, SpoolAssumptions DEF File
        <4>3. Sized(tmp[slug], n) \in File
          BY <1>1, <4>2 DEF Sized, File
        <4> QED
          BY <1>1, <4>1, <4>3, SizedRecords
      <3> QED
        BY <3>1, <3>2
    <2>3. f # NoFile
      BY AbsentAssumptions
    <2> HIDE DEF RotatePadFinish
    <2> QED
      BY <1>1, <2>1, <2>2, <2>3 DEF TmpRecs, Shape, TypeOK, TmpOK
  <1>5. AcceptedStored'
    BY <1>1, <1>2, <1>3, <1>4 DEF AcceptedStored, BatchStored, Stored, ActiveRecs, Writing
  <1>6. BatchStored'
    <2>1. Stored \subseteq Stored'
      BY <1>1, <1>2, <1>3, <1>4, StoredGrows
    <2>2. (batch' = batch /\ todo' = todo) \/ batch' = {}
      OBVIOUS
    <2>3. /\ pc \in Writing /\ BufRecs'[slug] = BufRecs[slug]
          /\ ((pc' \in Writing /\ slug' = slug) \/ batch' = {} \/ why \in {"stale", "final"})
      BY <1>1, <1>2, <1>3, <1>4 DEF Shape, Control, Serving, Writing, Rotating, Closing,
         Starting, Recovering
    <2> HIDE DEF RotatePadFinish
    <2> QED
      BY <2>1, <2>2, <2>3 DEF BatchStored, Fresh
  <1>7. Unattached'
    BY <1>1, <1>2, <1>3, <1>4 DEF Unattached, Kept, Fresh, Staged, Rotated, Counted, Shape,
       TypeOK, SpoolsOK, Control, Serving, Writing, Rotating, Closing, Starting, Recovering
  <1>8. Counted'
    BY <1>1, <1>2, <1>3, <1>4 DEF Counted, Kept, Fresh, Unattached, Rotated, Shape, TypeOK,
       JobOK, SpoolsOK, Control, Serving, Writing, Rotating, Closing, Starting, Recovering
  <1>9. Rotated'
    <2>1. tmp \in [Slugs -> File \cup {NoFile}]
      BY DEF Shape, TypeOK, TmpOK
    <2>2. CASE pc' = "rotReserve"
      BY <1>1, <2>1, <2>2, SpoolAssumptions DEF Rotated, Padded
    <2>3. CASE pc' \in {"queue", "idle"}
      BY <2>3 DEF Rotated
    <2> QED
      BY <2>2, <2>3
  <1>10. Fresh'
    BY <1>1, <1>2, <1>3, <1>4 DEF Fresh, Shape, TypeOK, HistoryOK, JobOK
  <1>11. Staged'
    BY <1>1, <1>2, <1>3, <1>4 DEF Staged, Shape, TypeOK, Control, Reserved, Serving, Writing,
       Rotating, Closing, Starting, Recovering
  <1> QED
    BY ShapeRotatePadFinish, <1>5, <1>6, <1>7, <1>8, <1>9, <1>10, <1>11 DEF KeptInv

LEMMA KeptRotateReserve == "reopen" \notin Faults /\ KeptInv /\ RotateReserve => KeptInv'
  <1> SUFFICES ASSUME "reopen" \notin Faults, Shape, AcceptedStored, BatchStored, Unattached,
     Counted, Rotated, Fresh, Staged, RotateReserve
               PROVE  KeptInv'
    BY DEF KeptInv
  <1> USE DEF RotateReserve, Abort, Failed, Reopen, NoJob, NewJob, work, spools, history, budget
  <1>1. slug \in Slugs /\ tmp[slug] \in File
    BY DEF Shape, TypeOK, TmpOK, SpoolsOK, Attached, Control, Rotating, Closing
  <1>2. TmpRecs' = TmpRecs
    BY TmpSame
  <1>3. BufRecs' = BufRecs
    BY BufSame
  <1>4. FiledRecs' = FiledRecs
    <2>1. files' = files \/ \E n \in FreeNames(slug, "ndjson") : files' = With(n, EmptyFile)
      OBVIOUS
    <2> QED
      BY <2>1, FiledSame, FiledAdd, FreeNamesFresh, EmptyRecords
  <1>5. AcceptedStored'
    BY <1>1, <1>2, <1>3, <1>4 DEF AcceptedStored, BatchStored, Stored, ActiveRecs, Writing
  <1>6. BatchStored'
    <2>1. Stored \subseteq Stored'
      BY <1>1, <1>2, <1>3, <1>4, StoredGrows
    <2>2. (batch' = batch /\ todo' = todo) \/ batch' = {}
      OBVIOUS
    <2>3. /\ pc \in Writing /\ BufRecs'[slug] = BufRecs[slug]
          /\ ((pc' \in Writing /\ slug' = slug) \/ batch' = {} \/ why \in {"stale", "final"})
      BY <1>1, <1>2, <1>3, <1>4 DEF Shape, Control, Serving, Writing, Rotating, Closing,
         Starting, Recovering
    <2> HIDE DEF RotateReserve
    <2> QED
      BY <2>1, <2>2, <2>3 DEF BatchStored, Fresh
  <1>7. Unattached'
    BY <1>1, <1>2, <1>3, <1>4 DEF Unattached, Kept, Fresh, Staged, Rotated, Counted, Shape,
       TypeOK, SpoolsOK, Control, Serving, Writing, Rotating, Closing, Starting, Recovering
  <1>8. Counted'
    BY <1>1, <1>2, <1>3, <1>4 DEF Counted, Kept, Fresh, Unattached, Rotated, Shape, TypeOK,
       JobOK, SpoolsOK, Control, Serving, Writing, Rotating, Closing, Starting, Recovering
  <1>9. Rotated'
    BY <1>1, <1>2, <1>3, <1>4, SpoolAssumptions DEF Rotated, Shape, TypeOK, TmpOK, JobOK, PCs,
       Control, Serving, Writing, Rotating, Closing, Starting, Recovering
  <1>10. Fresh'
    BY <1>1, <1>2, <1>3, <1>4 DEF Fresh, Shape, TypeOK, HistoryOK, JobOK
  <1>11. Staged'
    BY <1>1, <1>2, <1>3, <1>4 DEF Staged, Shape, TypeOK, Control, Reserved, Serving, Writing,
       Rotating, Closing, Starting, Recovering
  <1> QED
    BY ShapeRotateReserve, <1>5, <1>6, <1>7, <1>8, <1>9, <1>10, <1>11 DEF KeptInv

LEMMA KeptRotateRename == "reopen" \notin Faults /\ KeptInv /\ RotateRename => KeptInv'
  <1> SUFFICES ASSUME "reopen" \notin Faults, Shape, AcceptedStored, BatchStored, Unattached,
     Counted, Rotated, Fresh, Staged, RotateRename
               PROVE  KeptInv'
    BY DEF KeptInv
  <1> USE DEF RotateRename, Abort, Failed, Reopen, Moved, NoJob, NewJob, job, work, spools,
     history, budget
  <1>1. slug \in Slugs /\ tmp[slug] \in File
    BY DEF Shape, TypeOK, TmpOK, SpoolsOK, Attached, Control, Rotating, Closing
  <1>2. BufRecs' = BufRecs
    BY BufSame
  <1>3. /\ \A s \in Slugs : s # slug => TmpRecs'[s] = TmpRecs[s]
        /\ FiledRecs \subseteq FiledRecs'
        /\ \/ TmpRecs'[slug] = TmpRecs[slug]
           \/ pc' = "rotReplace" /\ TmpRecs'[slug] = {} /\ TmpRecs[slug] \subseteq FiledRecs'
    <2>1. files[target] = EmptyFile
      BY DEF Shape, Reserved
    <2>2. CASE files' = With(target, tmp[slug]) /\ tmp' = [tmp EXCEPT ![slug] = NoFile] /\ pc' = "rotReplace"
      <3>1. FiledRecs' = FiledRecs \cup RecordsOf(tmp[slug])
        BY <2>1, <2>2, FiledAdd
      <3>2. TmpRecs[slug] = RecordsOf(tmp[slug])
        BY <1>1, AbsentAssumptions DEF TmpRecs
      <3> HIDE DEF RotateRename
      <3>3. TmpRecs'[slug] = {} /\ \A s \in Slugs : s # slug => TmpRecs'[s] = TmpRecs[s]
        BY <1>1, <2>2 DEF TmpRecs, Shape, TypeOK, TmpOK
      <3> QED
        BY <2>2, <3>1, <3>2, <3>3
    <2>3. CASE tmp' = tmp /\ \E gone \in SUBSET {target} : files' = Without(gone)
      BY <2>1, <2>3, FiledRemove, TmpSame
    <2> QED
      BY <2>2, <2>3, DiscardEffect
  <1>4. AcceptedStored'
    <2>1. Kept \cap Stored \subseteq Stored'
      <3>1. \A s \in Slugs : TmpRecs[s] \cap Kept \subseteq TmpRecs'[s] \cup FiledRecs'
        BY <1>3
      <3>2. FiledRecs \subseteq FiledRecs' /\ pruned' = pruned
        BY <1>2, <1>3
      <3> QED
        BY <3>1, <3>2, KeptStored
    <2>2. accepted' = accepted /\ ((batch' = batch /\ todo' = todo) \/ batch' = {})
      OBVIOUS
    <2> QED
      BY <2>1, <2>2 DEF AcceptedStored, Kept
  <1>5. BatchStored'
    <2>1. Kept \cap Stored \subseteq Stored'
      <3>1. \A s \in Slugs : TmpRecs[s] \cap Kept \subseteq TmpRecs'[s] \cup FiledRecs'
        BY <1>3
      <3>2. FiledRecs \subseteq FiledRecs' /\ pruned' = pruned
        BY <1>2, <1>3
      <3> QED
        BY <3>1, <3>2, KeptStored
    <2>2. accepted' = accepted /\ ((batch' = batch /\ todo' = todo) \/ batch' = {})
      OBVIOUS
    <2>3. /\ pc \in Writing /\ BufRecs' = BufRecs
          /\ ((pc' \in Writing /\ slug' = slug) \/ batch' = {} \/ why = "final")
      BY <1>2, <1>3 DEF Serving, Writing, Rotating, Closing, Starting, Recovering
    <2> HIDE DEF RotateRename
    <2> QED
      BY <2>1, <2>2, <2>3 DEF BatchStored, Kept, Fresh
  <1>6. Unattached'
    BY <1>1, <1>2, <1>3 DEF Unattached, Kept, Fresh, Staged, Rotated, Counted, Shape, TypeOK,
       SpoolsOK, Control, Serving, Writing, Rotating, Closing, Starting, Recovering
  <1>7. Counted'
    BY <1>1, <1>2, <1>3 DEF Counted, Kept, Fresh, Unattached, Rotated, Shape, TypeOK, JobOK,
       SpoolsOK, Control, Serving, Writing, Rotating, Closing, Starting, Recovering
  <1>8. Rotated'
    <2>2. CASE pc' = "rotReplace"
      <3>1. tmp'[slug] = NoFile /\ slug' = slug
        BY <1>1, <2>2 DEF Shape, TypeOK, TmpOK
      <3>2. TmpRecs'[slug] = {}
        BY <1>1, <3>1 DEF TmpRecs
      <3> QED
        BY <2>2, <3>1, <3>2 DEF Rotated
    <2>3. CASE pc' \in {"queue", "idle"}
      BY <2>3 DEF Rotated
    <2> QED
      BY <2>2, <2>3
  <1>9. Fresh'
    BY <1>1, <1>2, <1>3 DEF Fresh, Shape, TypeOK, HistoryOK, JobOK
  <1>10. Staged'
    BY <1>1, <1>2, <1>3 DEF Staged, Shape, TypeOK, Control, Reserved, Serving, Writing,
       Rotating, Closing, Starting, Recovering
  <1> QED
    BY ShapeRotateRename, <1>4, <1>5, <1>6, <1>7, <1>8, <1>9, <1>10 DEF KeptInv

LEMMA KeptRotateReplace == "reopen" \notin Faults /\ KeptInv /\ RotateReplace => KeptInv'
  <1> SUFFICES ASSUME "reopen" \notin Faults, Shape, AcceptedStored, BatchStored, Unattached,
     Counted, Rotated, Fresh, Staged, RotateReplace
               PROVE  KeptInv'
    BY DEF KeptInv
  <1> USE DEF RotateReplace, Fault, Fails, Abort, OpenFresh, Continue, Failed, NoJob, NewJob, work,
     spools, history, budget
  <1>1. slug \in Slugs /\ buf[slug] = <<>> /\ TmpRecs[slug] = {}
    BY DEF Shape, Control, Rotating, Closing, Rotated
  <1>2. FiledRecs' = FiledRecs
    BY FiledSame
  <1>3. \A s \in Slugs : TmpRecs'[s] = TmpRecs[s] /\ BufRecs'[s] = BufRecs[s] /\ (s # slug => bytes'[s] = bytes[s])
    <2>1. CASE tmp' = tmp /\ buf' = buf /\ bytes' = bytes
      BY <2>1, TmpSame, BufSame
    <2>2. CASE OpenFresh(slug)
      <3> HIDE DEF RotateReplace
      <3>1. TmpRecs'[slug] = {} /\ \A s \in Slugs : s # slug => TmpRecs'[s] = TmpRecs[s]
        BY <1>1, <2>2, EmptyRecords DEF TmpRecs, Shape, TypeOK, TmpOK
      <3>2. buf'[slug] = <<>> /\ \A s \in Slugs : s # slug => buf'[s] = buf[s] /\ bytes'[s] = bytes[s]
        BY <1>1, <2>2 DEF Shape, TypeOK, SpoolsOK
      <3>3. \A s \in Slugs : BufRecs[s] = Range(buf[s]) /\ BufRecs'[s] = Range(buf'[s])
        BY DEF BufRecs
      <3> QED
        BY <1>1, <3>1, <3>2, <3>3
    <2> QED
      BY <2>1, <2>2
  <1>4. BufRecs[slug] = {}
    BY <1>1 DEF BufRecs, Range
  <1>5. AcceptedStored'
    <2>1. Stored \subseteq Stored'
      BY <1>2, <1>3, StoredGrows
    <2> QED
      BY <2>1 DEF AcceptedStored
  <1>6. BatchStored'
    <2>1. Stored \subseteq Stored'
      BY <1>1, <1>2, <1>3, <1>4, StoredGrows
    <2>2. (batch' = batch /\ todo' = todo) \/ batch' = {}
      OBVIOUS
    <2>3. /\ pc \in Writing /\ BufRecs'[slug] = BufRecs[slug]
          /\ ((pc' \in Writing /\ slug' = slug) \/ batch' = {} \/ why \in {"stale", "final"})
      BY <1>1, <1>2, <1>3, <1>4 DEF Shape, Control, Serving, Writing, Rotating, Closing,
         Starting, Recovering
    <2> HIDE DEF RotateReplace
    <2> QED
      BY <2>1, <2>2, <2>3 DEF BatchStored, Fresh
  <1>7. Unattached'
    BY <1>1, <1>2, <1>3, <1>4 DEF Unattached, Kept, Fresh, Staged, Rotated, Counted, Shape,
       TypeOK, SpoolsOK, Control, Serving, Writing, Rotating, Closing, Starting, Recovering
  <1>8. Counted'
    BY <1>1, <1>2, <1>3, <1>4 DEF Counted, Kept, Fresh, Unattached, Rotated, Shape, TypeOK,
       JobOK, SpoolsOK, Control, Serving, Writing, Rotating, Closing, Starting, Recovering
  <1>9. Rotated'
    BY <1>1, <1>2, <1>3, <1>4, SpoolAssumptions DEF Rotated, Shape, TypeOK, TmpOK, JobOK, PCs,
       Control, Serving, Writing, Rotating, Closing, Starting, Recovering
  <1>10. Fresh'
    BY <1>1, <1>2, <1>3, <1>4 DEF Fresh, Shape, TypeOK, HistoryOK, JobOK
  <1>11. Staged'
    BY <1>1, <1>2, <1>3, <1>4 DEF Staged, Shape, TypeOK, Control, Reserved, Serving, Writing,
       Rotating, Closing, Starting, Recovering
  <1> QED
    BY ShapeRotateReplace, <1>5, <1>6, <1>7, <1>8, <1>9, <1>10, <1>11 DEF KeptInv

LEMMA KeptRotateStale == "reopen" \notin Faults /\ KeptInv /\ RotateStale => KeptInv'
  <1> SUFFICES ASSUME "reopen" \notin Faults, Shape, AcceptedStored, BatchStored, Unattached,
     Counted, Rotated, Fresh, Staged, RotateStale
               PROVE  KeptInv'
    BY DEF KeptInv
  <1> USE DEF RotateStale, NewJob, spools, budget
  <1>1. TmpRecs' = TmpRecs
    BY TmpSame
  <1>2. BufRecs' = BufRecs
    BY BufSame
  <1>3. FiledRecs \subseteq FiledRecs' \cup pruned' /\ pruned \subseteq pruned'
    <2>1. PICK old \in SUBSET Quarantines :
            files' = Without(old) /\ pruned' = pruned \cup UNION {RecordsOf(files[n]) : n \in old}
      OBVIOUS
    <2> HIDE DEF RotateStale
    <2>2. \A r : r \in FiledRecs <=> \E m \in DOMAIN files : r \in RecordsOf(files[m])
      BY DEF FiledRecs
    <2>3. \A r : r \in FiledRecs' <=> \E m \in DOMAIN files' : r \in RecordsOf(files'[m])
      BY DEF FiledRecs
    <2>4. DOMAIN files' = DOMAIN files \ old /\ \A m \in DOMAIN files' : files'[m] = files[m]
      BY <2>1 DEF Without, Restrict
    <2>5. \A n \in old : RecordsOf(files[n]) \subseteq pruned'
      BY <2>1
    <2> QED
      BY <2>1, <2>2, <2>3, <2>4, <2>5
  <1>4. AcceptedStored'
    <2>1. Stored \subseteq Stored'
      BY <1>1, <1>3, StoredGrows
    <2> QED
      BY <2>1 DEF AcceptedStored
  <1>5. BatchStored'
    BY <1>1, <1>2, <1>3 DEF BatchStored, Stored, ActiveRecs, Shape, TypeOK, SpoolsOK, Control,
       Counted, Rotated, Serving, Writing, Rotating, Closing, Starting, Recovering
  <1>6. Unattached'
    BY <1>1, <1>2, <1>3 DEF Unattached, Kept, Fresh, Staged, Rotated, Counted, Shape, TypeOK,
       SpoolsOK, Control, Serving, Writing, Rotating, Closing, Starting, Recovering
  <1>7. Counted'
    BY <1>1, <1>2, <1>3 DEF Counted, Kept, Fresh, Unattached, Rotated, Shape, TypeOK, JobOK,
       SpoolsOK, Control, Serving, Writing, Rotating, Closing, Starting, Recovering
  <1>8. Rotated'
    BY <1>1, <1>2, <1>3, SpoolAssumptions DEF Rotated, Shape, TypeOK, TmpOK, JobOK, PCs,
       Control, Serving, Writing, Rotating, Closing, Starting, Recovering
  <1>9. Fresh'
    BY <1>1, <1>2, <1>3 DEF Fresh, Shape, TypeOK, HistoryOK, JobOK
  <1>10. Staged'
    BY <1>1, <1>2, <1>3 DEF Staged, Shape, TypeOK, Control, Reserved, Serving, Writing,
       Rotating, Closing, Starting, Recovering
  <1> QED
    BY ShapeRotateStale, <1>4, <1>5, <1>6, <1>7, <1>8, <1>9, <1>10 DEF KeptInv

LEMMA KeptFinalizeAll == "reopen" \notin Faults /\ KeptInv /\ FinalizeAll => KeptInv'
  <1> SUFFICES ASSUME "reopen" \notin Faults, Shape, AcceptedStored, BatchStored, Unattached,
     Counted, Rotated, Fresh, Staged, FinalizeAll
               PROVE  KeptInv'
    BY DEF KeptInv
  <1> USE DEF FinalizeAll, NewJob, disk, spools, history, budget
  <1>1. TmpRecs' = TmpRecs
    BY TmpSame
  <1>2. FiledRecs' = FiledRecs
    BY FiledSame
  <1>3. BufRecs' = BufRecs
    BY BufSame
  <1>4. AcceptedStored'
    BY <1>1, <1>2, <1>3 DEF AcceptedStored, BatchStored, Stored, ActiveRecs, Writing
  <1>5. BatchStored'
    BY <1>1, <1>2, <1>3 DEF BatchStored, Stored, ActiveRecs, Shape, TypeOK, SpoolsOK, Control,
       Counted, Rotated, Serving, Writing, Rotating, Closing, Starting, Recovering
  <1>6. Unattached'
    BY <1>1, <1>2, <1>3 DEF Unattached, Kept, Fresh, Staged, Rotated, Counted, Shape, TypeOK,
       SpoolsOK, Control, Serving, Writing, Rotating, Closing, Starting, Recovering
  <1>7. Counted'
    BY <1>1, <1>2, <1>3 DEF Counted, Kept, Fresh, Unattached, Rotated, Shape, TypeOK, JobOK,
       SpoolsOK, Control, Serving, Writing, Rotating, Closing, Starting, Recovering
  <1>8. Rotated'
    BY <1>1, <1>2, <1>3, SpoolAssumptions DEF Rotated, Shape, TypeOK, TmpOK, JobOK, PCs,
       Control, Serving, Writing, Rotating, Closing, Starting, Recovering
  <1>9. Fresh'
    BY <1>1, <1>2, <1>3 DEF Fresh, Shape, TypeOK, HistoryOK, JobOK
  <1>10. Staged'
    BY <1>1, <1>2, <1>3 DEF Staged, Shape, TypeOK, Control, Reserved, Serving, Writing,
       Rotating, Closing, Starting, Recovering
  <1> QED
    BY ShapeFinalizeAll, <1>4, <1>5, <1>6, <1>7, <1>8, <1>9, <1>10 DEF KeptInv

LEMMA KeptTakeNext == "reopen" \notin Faults /\ KeptInv /\ TakeNext => KeptInv'
  <1> SUFFICES ASSUME "reopen" \notin Faults, Shape, AcceptedStored, BatchStored, Unattached,
     Counted, Rotated, Fresh, Staged, TakeNext
               PROVE  KeptInv'
    BY DEF KeptInv
  <1> USE DEF TakeNext, NoJob, NewJob, Take, disk, history, budget
  <1>1. TmpRecs' = TmpRecs
    BY TmpSame
  <1>2. FiledRecs' = FiledRecs
    BY FiledSame
  <1>3. BufRecs' = BufRecs
    BY BufSame
  <1>4. AcceptedStored'
    BY <1>1, <1>2, <1>3 DEF AcceptedStored, BatchStored, Stored, ActiveRecs, Writing
  <1>5. BatchStored'
    BY <1>1, <1>2, <1>3 DEF BatchStored, Stored, ActiveRecs, Shape, TypeOK, SpoolsOK, Control,
       Counted, Rotated, Serving, Writing, Rotating, Closing, Starting, Recovering
  <1>6. Unattached'
    BY <1>1, <1>2, <1>3 DEF Unattached, Kept, Fresh, Staged, Rotated, Counted, Shape, TypeOK,
       SpoolsOK, Control, Serving, Writing, Rotating, Closing, Starting, Recovering
  <1>7. Counted'
    BY <1>1, <1>2, <1>3 DEF Counted, Kept, Fresh, Unattached, Rotated, Shape, TypeOK, JobOK,
       SpoolsOK, Control, Serving, Writing, Rotating, Closing, Starting, Recovering
  <1>8. Rotated'
    BY <1>1, <1>2, <1>3, SpoolAssumptions DEF Rotated, Shape, TypeOK, TmpOK, JobOK, PCs,
       Control, Serving, Writing, Rotating, Closing, Starting, Recovering
  <1>9. Fresh'
    BY <1>1, <1>2, <1>3 DEF Fresh, Shape, TypeOK, HistoryOK, JobOK
  <1>10. Staged'
    BY <1>1, <1>2, <1>3 DEF Staged, Shape, TypeOK, Control, Reserved, Serving, Writing,
       Rotating, Closing, Starting, Recovering
  <1> QED
    BY ShapeTakeNext, <1>4, <1>5, <1>6, <1>7, <1>8, <1>9, <1>10 DEF KeptInv

LEMMA KeptExit == "reopen" \notin Faults /\ KeptInv /\ Exit => KeptInv'
  <1> SUFFICES ASSUME "reopen" \notin Faults, Shape, AcceptedStored, BatchStored, Unattached,
     Counted, Rotated, Fresh, Staged, Exit
               PROVE  KeptInv'
    BY DEF KeptInv
  <1>0. Shape'
    BY ShapeExit
  <1>1. pc = "exit" /\ open \subseteq Slugs
    BY DEF Exit, Shape, TypeOK, SpoolsOK
  <1>2. CASE \E s \in open : Drain(s)
    BY <1>0, <1>1, <1>2, KeptDrain DEF KeptInv
  <1>3. CASE ~\E s \in open : Drain(s)
    <2>1. Gone /\ UNCHANGED <<disk, history, budget>>
      BY <1>3 DEF Exit
    <2>2. TmpRecs' = TmpRecs /\ FiledRecs' = FiledRecs
      BY <2>1, TmpSame, FiledSame DEF disk
    <2>3. \A s \in Slugs : BufRecs'[s] = {}
      BY <2>1 DEF Gone, BufRecs, Range
    <2>4. Stored' = Stored
      BY <2>1, <2>2 DEF Stored, ActiveRecs, history
    <2> USE <2>1 DEF Gone, NoJob, NewJob, history, Serving, Writing, Rotating, Closing, Starting, Recovering
    <2>5. AcceptedStored' /\ BatchStored'
      BY <2>4 DEF AcceptedStored, BatchStored
    <2>6. Unattached' /\ Counted'
      BY DEF Unattached, Counted
    <2>7. Rotated' /\ Fresh' /\ Staged'
      BY <2>2, <2>3 DEF Rotated, Fresh, Staged
    <2> QED
      BY <1>0, <2>5, <2>6, <2>7 DEF KeptInv
  <1> QED
    BY <1>2, <1>3

LEMMA KeptInit == Init => KeptInv
  <1> SUFFICES ASSUME Init PROVE KeptInv
    OBVIOUS
  <1> USE DEF Init
  <1>1. Shape
    BY ShapeInit
  <1>2. \A s \in Slugs : TmpRecs[s] = {} /\ BufRecs[s] = {}
    BY DEF TmpRecs, BufRecs, Range
  <1> QED
    BY <1>1, <1>2 DEF KeptInv, AcceptedStored, BatchStored, Unattached, Counted, Rotated, Fresh,
       Staged, Kept, Serving, Writing, Rotating, Closing, Starting, Recovering

LEMMA KeptNext == "reopen" \notin Faults /\ KeptInv /\ [Next]_vars => KeptInv'
  <1> SUFFICES ASSUME "reopen" \notin Faults, KeptInv, [Next]_vars PROVE KeptInv'
    OBVIOUS
  <1>1. CASE Crash
    BY <1>1, KeptCrash
  <1>2. CASE Start
    BY <1>2, KeptStart
  <1>3. CASE Sweep
    BY <1>3, KeptSweep
  <1>4. CASE RecoverRead
    BY <1>4, KeptRecoverRead
  <1>5. CASE RecoverReserve
    BY <1>5, KeptRecoverReserve
  <1>6. CASE RecoverClaim
    BY <1>6, KeptRecoverClaim
  <1>7. CASE RecoverPublish
    BY <1>7, KeptRecoverPublish
  <1>8. CASE RecoverDispose
    BY <1>8, KeptRecoverDispose
  <1>9. CASE RecoverDone
    BY <1>9, KeptRecoverDone
  <1>10. CASE BeginBatch
    BY <1>10, KeptBeginBatch
  <1>11. CASE EnsureSpool
    BY <1>11, KeptEnsureSpool
  <1>12. CASE WriteDoc
    BY <1>12, KeptWriteDoc
  <1>13. CASE Spill
    BY <1>13, KeptSpill
  <1>14. CASE RotateIfNeeded
    BY <1>14, KeptRotateIfNeeded
  <1>15. CASE FlushGroup
    BY <1>15, KeptFlushGroup
  <1>16. CASE EndBatch
    BY <1>16, KeptEndBatch
  <1>17. CASE RotateFlush
    BY <1>17, KeptRotateFlush
  <1>18. CASE RotatePad
    BY <1>18, KeptRotatePad
  <1>19. CASE RotatePadFinish
    BY <1>19, KeptRotatePadFinish
  <1>20. CASE RotateReserve
    BY <1>20, KeptRotateReserve
  <1>21. CASE RotateRename
    BY <1>21, KeptRotateRename
  <1>22. CASE RotateReplace
    BY <1>22, KeptRotateReplace
  <1>23. CASE RotateStale
    BY <1>23, KeptRotateStale
  <1>24. CASE FinalizeAll
    BY <1>24, KeptFinalizeAll
  <1>25. CASE TakeNext
    BY <1>25, KeptTakeNext
  <1>26. CASE Exit
    BY <1>26, KeptExit
  <1>27. CASE UNCHANGED vars
    <2> USE <1>27 DEF vars, disk, job, work, spools, history, budget
    <2>1. Shape'
      BY DEF KeptInv, Shape, TypeOK, TmpOK, FilesOK, StageOK, JobOK,
         SpoolsOK, HistoryOK, Attached, Control, Reserved
    <2>2. TmpRecs' = TmpRecs /\ BufRecs' = BufRecs /\ FiledRecs' = FiledRecs
      BY TmpSame, BufSame, FiledSame
    <2>3. Stored' = Stored
      BY <2>2 DEF Stored, ActiveRecs
    <2> QED
      BY <2>1, <2>2, <2>3 DEF KeptInv, AcceptedStored, BatchStored, Unattached, Counted,
         Rotated,
         Fresh, Staged, Kept
  <1> QED
    BY <1>1, <1>2, <1>3, <1>4, <1>5, <1>6, <1>7, <1>8, <1>9, <1>10, <1>11, <1>12, <1>13, <1>14,
       <1>15, <1>16, <1>17, <1>18, <1>19, <1>20, <1>21, <1>22, <1>23, <1>24, <1>25, <1>26,
       <1>27 DEF Next, Working, Recovery, Batch, Rotation

LEMMA KeptIsNoLoss == KeptInv => NoLoss
  <1> SUFFICES ASSUME KeptInv, NEW r \in accepted
               PROVE  r \in InTmp \cup InFiles(DOMAIN files) \cup pruned
    BY DEF NoLoss
  <1>1. (\E s \in Slugs : r \in TmpRecs[s]) \/ r \in FiledRecs \/ r \in pruned
    BY InStored DEF KeptInv, AcceptedStored
  <1>2. ASSUME NEW s \in Slugs, r \in TmpRecs[s] PROVE r \in InTmp
    BY <1>2 DEF TmpRecs, InTmp
  <1>3. FiledRecs = InFiles(DOMAIN files)
    BY DEF FiledRecs, InFiles
  <1> QED
    BY <1>1, <1>2, <1>3

\* write_docs, close_publish_and_replace and recover_stranded_files: unless the
\* re-opening of an active file fails as well, no accepted record is ever lost,
\* whatever else fails and wherever the process dies (NoLoss).
THEOREM NothingLost ==
  ASSUME "reopen" \notin Faults
  PROVE  Spec => []NoLoss
  <1>1. Init => KeptInv
    BY KeptInit
  <1>2. KeptInv /\ [Next]_vars => KeptInv'
    BY KeptNext
  <1>3. KeptInv => NoLoss
    BY KeptIsNoLoss
  <1> QED
    BY <1>1, <1>2, <1>3, PTL DEF Spec

-----------------------------------------------------------------------------
(* No record is in two finals *)

\* The records a dataset still holds, in its active file or its buffer, those that no
\* step has written yet, and those in finals.
Held(s) == {r \in Records : r \in TmpRecs[s] \/ r \in BufRecs[s]}
Unwritten == todo \cup (Records \ offered)
InFinals == {r \in Records : \E n \in Finals : r \in RecordsOf(files[n])}

OwnRecords == \A s \in Slugs : \A r \in Held(s) : SlugOf[r] = s

UnwrittenNowhere ==
    todo \subseteq offered /\ Unwritten \cap InFinals = {} /\ \A s \in Slugs : Unwritten \cap Held(s) = {}

\* What a dataset holds is in no final, but for the source recovery is about to remove.
Apart ==
    ~interrupted => \A s \in Slugs : (pc = "dispose" /\ s = slug) \/ Held(s) \cap InFinals = {}

\* What recovery has staged comes from its source.
StagedFromSource ==
    pc \in Recovering /\ stage # NoFile => RecordsOf(stage) \subseteq TmpRecs[slug]

DupInv ==
    Shape /\ OwnRecords /\ UnwrittenNowhere /\ Apart /\ StagedFromSource /\ NoDuplicate

LEMMA FinalRecords ==
  ASSUME FilesOK, NEW n \in Finals
  PROVE  RecordsOf(files[n]) \subseteq InFinals
  BY RecordsOfType DEF FilesOK, Finals, InFinals

\* A step that publishes nothing and writes nothing new.
LEMMA DupQuiet ==
  ASSUME DupInv, Shape', StagedFromSource',
         \A n \in Finals' : (n \in Finals /\ files'[n] = files[n]) \/ RecordsOf(files'[n]) = {},
         \A s \in Slugs : Held(s)' \subseteq Held(s),
         Unwritten' \subseteq Unwritten,
         todo' \subseteq offered', interrupted => interrupted',
         \A s \in Slugs : pc = "dispose" /\ s = slug => interrupted' \/ Held(s)' = {}
  PROVE  DupInv'
  <1>1. InFinals' \subseteq InFinals
    BY DEF InFinals
  <1>2. OwnRecords'
    BY DEF DupInv, OwnRecords
  <1>3. UnwrittenNowhere'
    BY <1>1 DEF DupInv, UnwrittenNowhere
  <1>4. Apart'
    <2> SUFFICES ASSUME ~interrupted', NEW s \in Slugs PROVE Held(s)' \cap InFinals' = {}
      BY DEF Apart
    <2>1. CASE pc = "dispose" /\ s = slug
      BY <2>1
    <2>2. CASE ~(pc = "dispose" /\ s = slug)
      BY <1>1, <2>2 DEF DupInv, Apart
    <2> QED
      BY <2>1, <2>2
  <1>5. NoDuplicate'
    BY DEF DupInv, NoDuplicate
  <1> QED
    BY <1>2, <1>3, <1>4, <1>5 DEF DupInv

\* A step that publishes what a dataset held, and nothing else.
LEMMA DupPublish ==
  ASSUME DupInv, Shape', StagedFromSource', NEW n \in DOMAIN files, files[n] = EmptyFile,
         NEW f \in File, files' = With(n, f), slug \in Slugs, pc # "dispose",
         RecordsOf(f) \subseteq TmpRecs[slug],
         \A s \in Slugs : Held(s)' \subseteq Held(s),
         UNCHANGED <<todo, offered, slug, interrupted>>,
         pc' = "dispose" \/ Held(slug)' = {}
  PROVE  DupInv'
  <1>0. OwnRecords /\ UnwrittenNowhere /\ Apart /\ NoDuplicate /\ FilesOK
    BY DEF DupInv, Shape, TypeOK
  <1>1. RecordsOf(f) \subseteq Held(slug)
    BY RecordsOfType DEF Held
  <1>2. DOMAIN files' = DOMAIN files /\ files'[n] = f /\ \A m \in DOMAIN files : m # n => files'[m] = files[m]
    BY DEF With
  <1>3. InFinals' \subseteq InFinals \cup Held(slug)
    BY <1>1, <1>2 DEF InFinals, Finals
  <1>4. OwnRecords'
    BY <1>0 DEF OwnRecords
  <1>5. UnwrittenNowhere'
    BY <1>0, <1>3 DEF UnwrittenNowhere, Unwritten
  <1>6. \A s \in Slugs : s # slug => Held(s) \cap Held(slug) = {}
    BY <1>0 DEF OwnRecords
  <1>7. Apart'
    <2> SUFFICES ASSUME ~interrupted, NEW s \in Slugs, ~(pc' = "dispose" /\ s = slug)
                 PROVE  Held(s)' \cap InFinals' = {}
      BY DEF Apart
    <2>1. CASE s = slug
      BY <2>1
    <2>2. CASE s # slug
      BY <1>0, <1>3, <1>6, <2>2 DEF Apart
    <2> QED
      BY <2>1, <2>2
  <1>8. NoDuplicate'
    <2> SUFFICES ASSUME ~interrupted, NEW m \in Finals', NEW k \in Finals', m # k
                 PROVE  RecordsOf(files'[m]) \cap RecordsOf(files'[k]) = {}
      BY DEF NoDuplicate
    <2>1. m \in Finals /\ k \in Finals
      BY <1>2 DEF Finals
    <2>2. Held(slug) \cap InFinals = {}
      BY <1>0 DEF Apart
    <2>3. CASE m # n /\ k # n
      BY <1>0, <1>2, <2>1, <2>3 DEF NoDuplicate, Finals
    <2>4. CASE m = n
      BY <1>0, <1>1, <1>2, <2>1, <2>2, <2>4, FinalRecords DEF Finals
    <2>5. CASE k = n
      BY <1>0, <1>1, <1>2, <2>1, <2>2, <2>5, FinalRecords DEF Finals
    <2> QED
      BY <2>3, <2>4, <2>5
  <1> QED
    BY <1>4, <1>5, <1>7, <1>8 DEF DupInv

\* A step that writes a document.
LEMMA DupWrite ==
  ASSUME DupInv, Shape', pc' \notin Recovering, pc # "dispose", UNCHANGED <<files, offered, interrupted>>,
         NEW r \in todo, todo' \subseteq todo \ {r}, slug \in Slugs, SlugOf[r] = slug,
         \A s \in Slugs : Held(s)' \subseteq Held(s) \cup (IF s = slug THEN {r} ELSE {})
  PROVE  DupInv'
  <1>0. OwnRecords /\ UnwrittenNowhere /\ Apart /\ NoDuplicate
    BY DEF DupInv
  <1>1. InFinals' = InFinals /\ Finals' = Finals
    BY DEF InFinals, Finals
  <1>2. todo \subseteq offered /\ r \notin Unwritten' /\ Unwritten' \subseteq Unwritten /\ r \in Unwritten
    BY <1>0 DEF Unwritten, UnwrittenNowhere
  <1>3. OwnRecords'
    BY <1>0 DEF OwnRecords
  <1>4. UnwrittenNowhere'
    BY <1>0, <1>1, <1>2 DEF UnwrittenNowhere
  <1>5. Apart'
    BY <1>0, <1>1, <1>2 DEF Apart, UnwrittenNowhere
  <1>6. NoDuplicate'
    BY <1>0, <1>1 DEF NoDuplicate
  <1>7. StagedFromSource'
    BY DEF StagedFromSource
  <1> QED
    BY <1>3, <1>4, <1>5, <1>6, <1>7 DEF DupInv

LEMMA HeldSame ==
  ASSUME tmp' = tmp, buf' = buf
  PROVE  \A s \in Slugs : Held(s)' \subseteq Held(s)
  BY TmpSame, BufSame DEF Held

LEMMA EmptyRange == Range(<<>>) = {}
  BY DEF Range

\* A file replaced by one with no more records, buffers kept or emptied.
LEMMA HeldReplaced ==
  ASSUME TmpOK, NEW c \in Slugs, NEW f, tmp' = [tmp EXCEPT ![c] = f],
         f = NoFile \/ RecordsOf(f) \subseteq TmpRecs[c],
         \A s \in Slugs : buf'[s] = buf[s] \/ buf'[s] = <<>>
  PROVE  /\ \A s \in Slugs : Held(s)' \subseteq Held(s)
         /\ (f = NoFile \/ RecordsOf(f) = {}) /\ buf'[c] = <<>> => Held(c)' = {}
  <1>1. /\ TmpRecs'[c] = (IF f = NoFile THEN {} ELSE RecordsOf(f))
        /\ \A s \in Slugs : s # c => TmpRecs'[s] = TmpRecs[s]
    <2>1. tmp'[c] = f /\ \A s \in Slugs : s # c => tmp'[s] = tmp[s]
      BY DEF TmpOK
    <2> QED
      BY <2>1 DEF TmpRecs
  <1>2. \A s \in Slugs : BufRecs'[s] = Range(buf'[s]) /\ BufRecs[s] = Range(buf[s])
    BY DEF BufRecs
  <1>3. \A s \in Slugs : TmpRecs'[s] \subseteq TmpRecs[s] /\ BufRecs'[s] \subseteq BufRecs[s]
    BY <1>1, <1>2, EmptyRange
  <1> QED
    BY <1>1, <1>2, <1>3, EmptyRange DEF Held

LEMMA HeldDrained ==
  ASSUME Shape, NEW c \in Slugs, Drain(c)
  PROVE  \A s \in Slugs : Held(s)' \subseteq Held(s)
  <1>1. PICK h \in Records \cup {NL} :
           /\ h \in BufRecs[c]
           /\ TmpRecs' = [TmpRecs EXCEPT ![c] = @ \cup ({h} \cap Records)]
           /\ \A q \in Slugs : q # c => BufRecs'[q] = BufRecs[q]
           /\ BufRecs'[c] \subseteq BufRecs[c]
    BY DrainEffect DEF Drain, Shape
  <1>2. TmpRecs'[c] = TmpRecs[c] \cup ({h} \cap Records)
        /\ \A q \in Slugs : q # c => TmpRecs'[q] = TmpRecs[q]
    BY <1>1 DEF TmpRecs
  <1> QED
    BY <1>1, <1>2 DEF Held

LEMMA HeldCrash ==
  ASSUME Shape, Crash
  PROVE  \A s \in Slugs : Held(s)' \subseteq Held(s)
  <1>1. PICK T \in SUBSET {s \in Slugs : buf[s] # <<>> /\ buf[s][1] # NL} : tmp' = TornTmp(T)
    BY DEF Crash
  <1>2. ASSUME NEW s \in Slugs PROVE TmpRecs'[s] = TmpRecs[s] /\ BufRecs'[s] = {}
    <2>1. buf'[s] = <<>>
      BY DEF Crash, Gone
    <2>2. tmp'[s] = IF s \in T THEN Put(tmp[s], Torn) ELSE tmp[s]
      BY <1>1 DEF TornTmp
    <2>3. s \in T => tmp[s] \in File /\ tmp[s] # NoFile
      BY DEF Shape, Attached, TypeOK, TmpOK
    <2>4. s \in T => Put(tmp[s], Torn) # NoFile /\ RecordsOf(Put(tmp[s], Torn)) = RecordsOf(tmp[s])
      BY <2>3, PutTorn, AbsentAssumptions
    <2> QED
      BY <2>1, <2>2, <2>3, <2>4, EmptyRange DEF TmpRecs, BufRecs
  <1> QED
    BY <1>2 DEF Held

\* What padding does to a file adds no record.
LEMMA PaddingRecords ==
  ASSUME NEW f \in File, NEW k
  PROVE  /\ RecordsOf(Cut(f)) \subseteq RecordsOf(f)
         /\ RecordsOf(Padded(f)) \subseteq RecordsOf(f)
         /\ RecordsOf(Sized(f, k)) \subseteq RecordsOf(f)
         /\ RecordsOf(StageOf(f)) \subseteq RecordsOf(f)
  <1>1. \A r : r \in RecordsOf(Cut(f)) => r \in RecordsOf(f)
    BY InRecordsOf, TextsType DEF Cut
  <1>2. \A r : r \in RecordsOf(Padded(f)) => r \in RecordsOf(f)
    BY InRecordsOf, TextsType DEF Padded
  <1>3. \A r : r \in RecordsOf(StageOf(f)) => r \in RecordsOf(f)
    <2> SUFFICES ASSUME NEW r \in RecordsOf(StageOf(f)) PROVE r \in RecordsOf(f)
      OBVIOUS
    <2>1. /\ StageOf(f).rest \subseteq Lines(f)
          /\ StageOf(f).last = <<>> /\ StageOf(f).tail = <<>>
      BY DEF StageOf
    <2>2. \E l \in Lines(f) : r \in Texts(l)
      BY <2>1, InRecordsOf, TextsType
    <2> QED
      BY <2>2 DEF RecordsOf
  <1> QED
    BY <1>1, <1>2, <1>3, SizedRecords

\* Reservations, removals and quarantine files add no record to a final.
LEMMA FinalsQuiet ==
  ASSUME Reserved,
         \/ files' = files
         \/ \E n : files' = With(n, EmptyFile)
         \/ \E S : files' = Without(S)
         \/ aside # None /\ \E f : files' = With(aside, f)
  PROVE  \A n \in Finals' : (n \in Finals /\ files'[n] = files[n]) \/ RecordsOf(files'[n]) = {}
  <1>1. CASE files' = files
    BY <1>1 DEF Finals
  <1>2. CASE \E n : files' = With(n, EmptyFile)
    BY <1>2, EmptyRecords DEF Finals, With
  <1>3. CASE \E S : files' = Without(S)
    BY <1>3 DEF Finals, Without, Restrict
  <1>4. CASE aside # None /\ \E f : files' = With(aside, f)
    BY <1>4 DEF Finals, With, Reserved
  <1> QED
    BY <1>1, <1>2, <1>3, <1>4

LEMMA DupRecovery ==
  ASSUME DupInv, Recovery
  PROVE  DupInv'
  <1>0. /\ Shape /\ TypeOK /\ TmpOK /\ Control /\ Reserved /\ StagedFromSource /\ Shape'
        /\ todo \subseteq offered
    <2>1. Shape'
      BY ShapeNext DEF DupInv, Next, Working
    <2> QED
      BY <2>1 DEF DupInv, Shape, TypeOK, UnwrittenNowhere
  <1>1. /\ todo' \in {todo, {}} /\ offered' = offered /\ (interrupted => interrupted')
        /\ \A s \in Slugs : buf[s] = <<>> /\ (buf'[s] = buf[s] \/ buf'[s] = <<>>)
    BY <1>0 DEF Recovery, Sweep, RecoverRead, RecoverReserve, RecoverClaim, RecoverPublish,
       RecoverDispose, RecoverDone, GiveUp, Gone, NoJob, NewJob, Take, job, work, history, spools,
       Control, Starting
  <1>2. Unwritten' \subseteq Unwritten /\ todo' \subseteq offered'
    BY <1>0, <1>1 DEF Unwritten
  <1>3. buf' = buf
    BY <1>0, <1>1 DEF Recovery, Sweep, RecoverRead, RecoverReserve, RecoverClaim, RecoverPublish,
       RecoverDispose, RecoverDone, GiveUp, Gone, spools, TypeOK, SpoolsOK
  <1> USE DEF Recovering, GiveUp, Gone, disk
  <1>4. CASE Sweep \/ RecoverDone
    <2>1. tmp' = tmp /\ files' = files /\ pc' \notin Recovering /\ pc # "dispose"
      BY <1>4 DEF Sweep, RecoverDone
    <2> QED
      BY <1>0, <1>1, <1>2, <1>3, <2>1, HeldSame, FinalsQuiet, DupQuiet DEF StagedFromSource
  <1>5. CASE RecoverRead
    <2>1. tmp' = tmp /\ files' = files /\ pc # "dispose"
      BY <1>5 DEF RecoverRead
    <2>2. pc' \in Recovering /\ stage' # NoFile =>
             slug' \in queue /\ stage' = StageOf(tmp[slug'])
      BY <1>5 DEF RecoverRead, Take
    <2>3. StagedFromSource'
      <3> SUFFICES ASSUME pc' \in Recovering, stage' # NoFile PROVE RecordsOf(stage') \subseteq TmpRecs'[slug']
        BY DEF StagedFromSource
      <3>1. slug' \in Slugs /\ tmp[slug'] # NoFile /\ tmp[slug'] \in File
        BY <1>0, <1>5, <2>2 DEF RecoverRead, Control, TypeOK, JobOK, TmpOK
      <3>2. TmpRecs'[slug'] = RecordsOf(tmp[slug'])
        BY <2>1, <3>1 DEF TmpRecs
      <3> QED
        BY <2>2, <3>1, <3>2, PaddingRecords
    <2> QED
      BY <1>0, <1>1, <1>2, <1>3, <2>1, <2>3, HeldSame, FinalsQuiet, DupQuiet
  <1>6. CASE RecoverReserve \/ RecoverClaim
    <2>1. /\ tmp' = tmp /\ pc \in {"reserve", "claim"}
          /\ files' = files \/ (\E n : files' = With(n, EmptyFile)) \/ \E S : files' = Without(S)
          /\ (pc' \in Recovering => slug' = slug /\ stage' \in {stage, NoFile}) \/ pc' = "down"
      BY <1>6, AbandonEffect DEF RecoverReserve, RecoverClaim, job, work
    <2>2. StagedFromSource'
      BY <1>0, <2>1, TmpSame DEF StagedFromSource
    <2> QED
      BY <1>0, <1>1, <1>2, <1>3, <2>1, <2>2, HeldSame, FinalsQuiet, DupQuiet
  <1>7. CASE RecoverPublish
    <2>1. tmp' = tmp /\ pc = "publish" /\ StagedFromSource'
      BY <1>7 DEF RecoverPublish, StagedFromSource
    <2>2. CASE \E S : files' = Without(S)
      BY <1>0, <1>1, <1>2, <1>3, <2>1, <2>2, HeldSame, FinalsQuiet, DupQuiet
    <2>3. CASE files' = With(target, stage) /\ pc' = "dispose" /\ UNCHANGED <<work, history>>
      <3>1. /\ target \in DOMAIN files /\ files[target] = EmptyFile /\ stage # NoFile /\ stage \in File
            /\ slug \in Slugs
        BY <1>0, <2>1 DEF Reserved, TypeOK, StageOK, Control
      <3>2. RecordsOf(stage) \subseteq TmpRecs[slug]
        BY <1>0, <2>1, <3>1 DEF StagedFromSource
      <3> QED
        BY <1>0, <1>3, <2>1, <2>3, <3>1, <3>2, HeldSame, DupPublish DEF work, history
    <2> QED
      BY <1>7, <2>2, <2>3, AbandonEffect DEF RecoverPublish
  <1>8. CASE RecoverDispose
    <2>1. pc = "dispose" /\ slug \in Slugs /\ pc' \notin Recovering /\ StagedFromSource'
      BY <1>0, <1>8 DEF RecoverDispose, Control, StagedFromSource
    <2>2. CASE tmp' = tmp /\ interrupted' /\ \E S : files' = Without(S)
      BY <1>0, <1>1, <1>2, <1>3, <2>1, <2>2, HeldSame, FinalsQuiet, DupQuiet
    <2>3. CASE tmp' = [tmp EXCEPT ![slug] = NoFile] /\ slug' = slug
               /\ files' = IF aside = None THEN files ELSE With(aside, tmp[slug])
      <3>1. PICK c \in Slugs : c = slug
        BY <2>1
      <3>2. tmp' = [tmp EXCEPT ![c] = NoFile] /\ buf'[c] = <<>>
        BY <1>1, <1>3, <2>3, <3>1
      <3>3. (\A s \in Slugs : Held(s)' \subseteq Held(s)) /\ Held(c)' = {}
        BY <1>0, <1>1, <3>2, HeldReplaced
      <3> QED
        BY <1>0, <1>1, <1>2, <2>1, <2>3, <3>1, <3>3, FinalsQuiet, DupQuiet
    <2> QED
      BY <1>8, <2>2, <2>3, DiscardEffect DEF RecoverDispose, work
  <1> QED
    BY <1>4, <1>5, <1>6, <1>7, <1>8 DEF Recovery

LEMMA DupBatch ==
  ASSUME DupInv, Batch
  PROVE  DupInv'
  <1>0. Shape /\ TypeOK /\ TmpOK /\ SpoolsOK /\ Control /\ Reserved /\ Shape' /\ todo \subseteq offered
    <2>1. Shape'
      BY ShapeNext DEF DupInv, Next, Working
    <2> QED
      BY <2>1 DEF DupInv, Shape, TypeOK, UnwrittenNowhere
  <1>1. /\ todo' \subseteq todo /\ UNCHANGED <<files, offered, interrupted>>
        /\ pc \in {"group", "doc", "check"} /\ pc' \notin Recovering
    BY DEF Batch, EnsureSpool, WriteDoc, Spill, Drain, RotateIfNeeded, FlushGroup, EndBatch, Abort,
       NoJob, NewJob, job, work, history, disk, Recovering
  <1>2. Unwritten' \subseteq Unwritten /\ todo' \subseteq offered' /\ StagedFromSource' /\ pc # "dispose"
    BY <1>0, <1>1 DEF Unwritten, StagedFromSource
  <1>3. ASSUME \A s \in Slugs : Held(s)' \subseteq Held(s) PROVE DupInv'
    BY <1>0, <1>1, <1>2, <1>3, FinalsQuiet, DupQuiet
  <1>4. CASE EnsureSpool
    <2>1. PICK s \in Slugs : UNCHANGED <<tmp, spools>> \/ OpenFresh(s)
      BY <1>0, <1>4, SpoolAssumptions DEF EnsureSpool, TypeOK, JobOK
    <2>2. CASE UNCHANGED <<tmp, spools>>
      BY <1>3, <2>2, HeldSame DEF spools
    <2>3. CASE OpenFresh(s)
      <3>1. tmp' = [tmp EXCEPT ![s] = EmptyFile] /\ \A u \in Slugs : buf'[u] = buf[u] \/ buf'[u] = <<>>
        BY <1>0, <2>3 DEF OpenFresh, SpoolsOK
      <3> QED
        BY <1>0, <1>3, <3>1, EmptyRecords, HeldReplaced
    <2> QED
      BY <2>1, <2>2, <2>3
  <1>5. CASE WriteDoc
    <2>1. slug \in Slugs
      BY <1>0, <1>5 DEF WriteDoc, Control, SpoolsOK
    <2>2. PICK r \in Pending :
            \/ tmp' = tmp /\ buf' = [buf EXCEPT ![slug] = @ \o <<r, NL>>] /\ todo' = todo \ {r}
            \/ tmp' = tmp /\ buf' = buf
            \/ tmp' = tmp /\ buf' = [buf EXCEPT ![slug] = Append(@, r)] /\ todo' = {}
            \/ tmp' = [tmp EXCEPT ![slug] = Put(@, Torn)] /\ buf' = buf
      BY <1>5 DEF WriteDoc, Abort, NoJob, NewJob
    <2>3. r \in todo /\ SlugOf[r] = slug /\ r \in Records
      BY <1>0 DEF Pending, TypeOK, JobOK
    <2>4. CASE tmp' = tmp /\ buf' = buf
      BY <1>3, <2>4, HeldSame
    <2>5. CASE tmp' = [tmp EXCEPT ![slug] = Put(@, Torn)] /\ buf' = buf
      <3>1. PICK c \in Slugs : c = slug
        BY <2>1
      <3>2. tmp[c] # NoFile /\ tmp[c] \in File
        BY <1>0, <1>5, <3>1 DEF WriteDoc, Control, Shape, Attached, TmpOK
      <3>3. RecordsOf(Put(tmp[c], Torn)) \subseteq TmpRecs[c]
        BY <3>2, PutTorn DEF TmpRecs
      <3>4. tmp' = [tmp EXCEPT ![c] = Put(tmp[c], Torn)]
        BY <2>5, <3>1
      <3> QED
        BY <1>0, <1>3, <2>5, <3>3, <3>4, HeldReplaced
    <2>6. ASSUME NEW b \in Seq(Records \cup {NL}), Range(b) \subseteq Range(buf[slug]) \cup {r, NL},
                 tmp' = tmp, buf' = [buf EXCEPT ![slug] = b], todo' \subseteq todo \ {r}
          PROVE  DupInv'
      <3>1. \A s \in Slugs : BufRecs'[s] \subseteq BufRecs[s] \cup (IF s = slug THEN {r, NL} ELSE {})
        BY <1>0, <2>1, <2>6 DEF BufRecs, SpoolsOK
      <3>2. \A s \in Slugs : Held(s)' \subseteq Held(s) \cup (IF s = slug THEN {r} ELSE {})
        BY <2>6, <3>1, TmpSame, SpoolAssumptions DEF Held
      <3> QED
        BY <1>0, <1>1, <1>2, <2>1, <2>3, <2>6, <3>2, DupWrite
    <2>7. buf[slug] \in Seq(Records \cup {NL}) /\ r \in Records \cup {NL} /\ NL \in Records \cup {NL}
      BY <1>0, <2>1, <2>3 DEF SpoolsOK, Buffer
    <2>8. /\ buf[slug] \o <<r, NL>> \in Seq(Records \cup {NL})
          /\ Append(buf[slug], r) \in Seq(Records \cup {NL})
          /\ Range(buf[slug] \o <<r, NL>>) \subseteq Range(buf[slug]) \cup {r, NL}
          /\ Range(Append(buf[slug], r)) \subseteq Range(buf[slug]) \cup {r, NL}
      BY <2>7, RangeAppend, RangeConcat
    <2>9. CASE tmp' = tmp /\ buf' = [buf EXCEPT ![slug] = @ \o <<r, NL>>] /\ todo' = todo \ {r}
      BY <2>6, <2>8, <2>9
    <2>10. CASE tmp' = tmp /\ buf' = [buf EXCEPT ![slug] = Append(@, r)] /\ todo' = {}
      BY <2>6, <2>8, <2>10
    <2> QED
      BY <2>2, <2>4, <2>5, <2>9, <2>10
  <1>6. CASE Spill
    <2>1. slug \in Slugs /\ Drain(slug)
      BY <1>0, <1>6 DEF Spill, Control, SpoolsOK
    <2> QED
      BY <1>0, <1>3, <2>1, HeldDrained
  <1>7. CASE RotateIfNeeded \/ FlushGroup \/ EndBatch
    BY <1>3, <1>7, HeldSame DEF RotateIfNeeded, FlushGroup, EndBatch, disk, spools
  <1> QED
    BY <1>4, <1>5, <1>6, <1>7 DEF Batch

LEMMA DupRotation ==
  ASSUME DupInv, Rotation
  PROVE  DupInv'
  <1>0. Shape /\ TypeOK /\ TmpOK /\ SpoolsOK /\ Control /\ Reserved /\ Shape' /\ todo \subseteq offered
    <2>1. Shape'
      BY ShapeNext DEF DupInv, Next, Working
    <2> QED
      BY <2>1 DEF DupInv, Shape, TypeOK, UnwrittenNowhere
  <1>1. /\ todo' \in {todo, {}} /\ UNCHANGED <<offered, interrupted>>
        /\ pc \in Rotating \cup {"queue"} /\ pc' \notin Recovering
    BY DEF Rotation, RotateFlush, Drain, RotatePad, RotatePadFinish, RotateReserve, RotateRename,
       RotateReplace, TakeNext, Reopen, Failed, Continue, Abort, NoJob, NewJob, Take, job, work,
       history, Recovering, Rotating, Closing
  <1>2. Unwritten' \subseteq Unwritten /\ todo' \subseteq offered' /\ StagedFromSource' /\ pc # "dispose"
    BY <1>0, <1>1 DEF Unwritten, StagedFromSource, Rotating, Closing
  <1>3. ASSUME \A s \in Slugs : Held(s)' \subseteq Held(s),
               \/ files' = files
               \/ \E n : files' = With(n, EmptyFile)
               \/ \E S : files' = Without(S)
        PROVE  DupInv'
    BY <1>0, <1>1, <1>2, <1>3, FinalsQuiet, DupQuiet
  <1>4. pc \in Rotating => slug \in Slugs
    BY <1>0 DEF Control
  <1>5. pc \in Closing => tmp[slug] \in File /\ TmpRecs[slug] = RecordsOf(tmp[slug])
    BY <1>0 DEF Control, TmpOK, TmpRecs
  <1> USE DEF Rotating, Closing
  <1>6. CASE RotateFlush
    <2>1. slug \in Slugs /\ files' = files /\ (Drain(slug) \/ UNCHANGED <<tmp, buf>>)
      BY <1>4, <1>6 DEF RotateFlush, Drain, disk, spools
    <2>2. \A s \in Slugs : Held(s)' \subseteq Held(s)
      BY <1>0, <2>1, HeldDrained, HeldSame
    <2> QED
      BY <1>3, <2>1, <2>2
  <1>7. CASE RotatePad \/ RotatePadFinish
    <2>1. PICK c \in Slugs : c = slug
      BY <1>4, <1>7 DEF RotatePad, RotatePadFinish
    <2>2. tmp[c] \in File /\ TmpRecs[c] = RecordsOf(tmp[c])
      BY <1>5, <1>7, <2>1 DEF RotatePad, RotatePadFinish
    <2>3. files' = files /\ buf' = buf
      BY <1>7 DEF RotatePad, RotatePadFinish, Reopen, spools
    <2>4. \/ tmp' = tmp \/ tmp' = [tmp EXCEPT ![c] = NoFile]
          \/ tmp' = [tmp EXCEPT ![c] = Cut(tmp[c])]
          \/ tmp' = [tmp EXCEPT ![c] = Padded(tmp[c])]
          \/ \E n : tmp' = [tmp EXCEPT ![c] = Sized(tmp[c], n)]
      BY <1>7, <2>1 DEF RotatePad, RotatePadFinish
    <2>5. ASSUME NEW f, f = NoFile \/ RecordsOf(f) \subseteq RecordsOf(tmp[c]), tmp' = [tmp EXCEPT ![c] = f]
          PROVE  \A s \in Slugs : Held(s)' \subseteq Held(s)
      BY <1>0, <2>2, <2>3, <2>5, HeldReplaced
    <2>6. \A s \in Slugs : Held(s)' \subseteq Held(s)
      BY <2>2, <2>3, <2>4, <2>5, HeldSame, PaddingRecords
    <2> QED
      BY <1>3, <2>3, <2>6
  <1>8. CASE RotateReserve
    <2>1. UNCHANGED <<tmp, buf>> /\ (files' = files \/ \E n : files' = With(n, EmptyFile))
      BY <1>8 DEF RotateReserve, Reopen, spools
    <2> QED
      BY <1>3, <2>1, HeldSame
  <1>9. CASE RotateRename
    <2>1. CASE (\E S : files' = Without(S)) /\ UNCHANGED <<tmp, buf>>
      BY <1>3, <2>1, HeldSame
    <2>2. CASE files' = With(target, tmp[slug]) /\ tmp' = Moved /\ UNCHANGED <<job, spools>>
      <3>1. PICK c \in Slugs : c = slug
        BY <1>4, <1>9 DEF RotateRename
      <3>2. /\ target \in DOMAIN files /\ files[target] = EmptyFile /\ tmp[c] \in File
            /\ TmpRecs[c] = RecordsOf(tmp[c]) /\ buf'[c] = <<>> /\ buf' = buf
            /\ tmp' = [tmp EXCEPT ![c] = NoFile] /\ slug' = slug /\ todo' = todo
        BY <1>0, <1>5, <1>9, <2>2, <3>1 DEF RotateRename, Reserved, Control, Moved, job, work, spools
      <3>3. (\A s \in Slugs : Held(s)' \subseteq Held(s)) /\ Held(c)' = {}
        BY <1>0, <3>2, HeldReplaced
      <3>4. Held(slug)' = {}
        BY <3>1, <3>2, <3>3
      <3> QED
        BY <1>0, <1>1, <1>2, <2>2, <3>1, <3>2, <3>3, <3>4, DupPublish
    <2> QED
      BY <1>9, <2>1, <2>2, DiscardEffect DEF RotateRename, Reopen
  <1>10. CASE RotateReplace \/ TakeNext
    <2>1. files' = files /\ (UNCHANGED <<tmp, buf>> \/ (slug \in Slugs /\ OpenFresh(slug)))
      BY <1>4, <1>10 DEF RotateReplace, TakeNext, disk, spools
    <2>2. CASE slug \in Slugs /\ OpenFresh(slug)
      <3>1. tmp' = [tmp EXCEPT ![slug] = EmptyFile] /\ \A u \in Slugs : buf'[u] = buf[u] \/ buf'[u] = <<>>
        BY <1>0, <2>2 DEF OpenFresh, SpoolsOK
      <3>2. \A s \in Slugs : Held(s)' \subseteq Held(s)
        BY <1>0, <2>2, <3>1, EmptyRecords, HeldReplaced
      <3> QED
        BY <1>3, <2>1, <3>2
    <2> QED
      BY <1>3, <2>1, <2>2, HeldSame
  <1> QED
    BY <1>6, <1>7, <1>8, <1>9, <1>10 DEF Rotation

LEMMA DupOther ==
  ASSUME DupInv, Crash \/ Start \/ BeginBatch \/ RotateStale \/ FinalizeAll \/ Exit \/ UNCHANGED vars
  PROVE  DupInv'
  <1>0. /\ Shape /\ TypeOK /\ TmpOK /\ SpoolsOK /\ Reserved /\ Shape' /\ StagedFromSource
        /\ todo \subseteq offered
    <2>1. Shape'
      BY ShapeNext DEF DupInv, Next, Working
    <2> QED
      BY <2>1 DEF DupInv, Shape, TypeOK, UnwrittenNowhere
  <1>1. CASE UNCHANGED vars
    <2>1. UNCHANGED <<tmp, files, stage, pc, slug, todo, buf, offered, interrupted>>
      BY <1>1 DEF vars, disk, job, work, spools, history
    <2>2. /\ TmpRecs' = TmpRecs /\ BufRecs' = BufRecs /\ InFinals' = InFinals /\ Finals' = Finals
          /\ Unwritten' = Unwritten
      BY <2>1, TmpSame, BufSame DEF InFinals, Finals, Unwritten
    <2>3. \A s : Held(s)' = Held(s)
      BY <2>2 DEF Held
    <2> QED
      BY <1>0, <2>1, <2>2, <2>3 DEF DupInv, OwnRecords, UnwrittenNowhere, Apart, StagedFromSource,
         NoDuplicate
  <1>2. CASE Crash \/ Start \/ BeginBatch \/ RotateStale \/ FinalizeAll \/ Exit
    <2>0. (interrupted => interrupted') /\ (pc = "dispose" => interrupted')
      <3>1. CASE Crash
        BY <3>1, Zenon DEF Crash
      <3>2. CASE Start \/ BeginBatch \/ RotateStale \/ FinalizeAll \/ Exit
        BY <3>2 DEF Start, BeginBatch, RotateStale, FinalizeAll, Exit, Drain, history
      <3> QED
        BY <1>2, <3>1, <3>2
    <2>1. pc' \notin Recovering /\ (files' = files \/ \E S : files' = Without(S))
      BY <1>2 DEF Crash, Start, BeginBatch, RotateStale, FinalizeAll, Exit, Drain, Gone, disk,
         Recovering
    <2>2. Unwritten' \subseteq Unwritten /\ todo' \subseteq offered'
      BY <1>0, <1>2 DEF Crash, Start, BeginBatch, RotateStale, FinalizeAll, Exit, Drain, Gone, NoJob,
         NewJob, job, work, history, Unwritten, TypeOK, HistoryOK
    <2>3. \A s \in Slugs : Held(s)' \subseteq Held(s)
      <3>1. CASE Crash
        BY <1>0, <3>1, HeldCrash
      <3>2. CASE Start \/ BeginBatch \/ RotateStale \/ FinalizeAll
        BY <3>2, HeldSame DEF Start, BeginBatch, RotateStale, FinalizeAll, disk, spools
      <3>3. CASE Exit
        <4>1. CASE \E s \in open : Drain(s)
          BY <1>0, <4>1, HeldDrained DEF SpoolsOK
        <4>2. CASE tmp' = tmp /\ Gone
          <5>1. \A s \in Slugs : BufRecs'[s] = {}
            BY <4>2, EmptyRange DEF Gone, BufRecs
          <5> QED
            BY <4>2, <5>1, TmpSame DEF Held
        <4> QED
          BY <3>3, <4>1, <4>2 DEF Exit, disk
      <3> QED
        BY <1>2, <3>1, <3>2, <3>3
    <2>4. StagedFromSource'
      BY <2>1 DEF StagedFromSource
    <2> QED
      BY <1>0, <2>0, <2>1, <2>2, <2>3, <2>4, FinalsQuiet, DupQuiet
  <1> QED
    BY <1>1, <1>2

\* write_docs, close_publish_and_replace and recover_stranded_file: whatever fails and
\* however often the process dies, a record is in one final at most, unless recovery
\* was stopped after publishing a source's records and before it removed the source.
THEOREM RecordsPublishedOnce == Spec => []NoDuplicate
  <1>1. Init => DupInv
    <2> SUFFICES ASSUME Init PROVE DupInv
      OBVIOUS
    <2>1. Finals = {} /\ InFinals = {} /\ pc = "down" /\ todo = {}
      BY DEF Init, Finals, InFinals
    <2>2. \A s \in Slugs : Held(s) = {}
      BY EmptyRange DEF Init, Held, TmpRecs, BufRecs
    <2> QED
      BY <2>1, <2>2, ShapeInit DEF DupInv, OwnRecords, UnwrittenNowhere, Apart, StagedFromSource,
         NoDuplicate, Recovering
  <1>2. DupInv /\ [Next]_vars => DupInv'
    BY DupBatch, DupRecovery, DupRotation, DupOther DEF Next, Working
  <1>3. DupInv => NoDuplicate
    BY DEF DupInv
  <1> QED
    BY <1>1, <1>2, <1>3, PTL DEF Spec
=============================================================================
