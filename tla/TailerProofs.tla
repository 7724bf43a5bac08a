---------------------------- MODULE TailerProofs ----------------------------
(***************************************************************************)
(* Proofs about Tailer, for any number of lines, log files, batches,       *)
(* failures and crashes, whether or not Steam tears, removes or truncates  *)
(* files.  Two things Steam may do are excluded, because the properties    *)
(* are false with them: a rotation between the stat and the open that      *)
(* follows ("race"), and, for the checkpoint, a second rotation before the *)
(* tailer has reached the newest file ("double").                          *)
(***************************************************************************)
EXTENDS Tailer, SequenceTheorems, TLAPS

Texts == Event \cup {Junk}
LogFile == [ino : Inodes, lines : Seq(Texts), partial : Texts \cup {None},
            at : {"log", "rotated", "gone"}]

-----------------------------------------------------------------------------
(* The inductive invariant *)

\* The log directory: no inode twice, and only the newest file is at the log path.
Directory ==
    /\ gens \in Seq(LogFile)
    /\ \A g, h \in DOMAIN gens : gens[g].ino = gens[h].ino => g = h
    /\ \A g \in DOMAIN gens : gens[g].at = "log" => g = Len(gens)

\* The n-th line of file g, the unterminated one and the next to come included.
Slots(g) == 1..(Len(gens[g].lines) + 1)
Entry(g, n) ==
    IF n = Len(gens[g].lines) + 1 THEN gens[g].partial ELSE gens[g].lines[n]

\* Every event is written once, in one place.
WrittenOnce ==
    /\ \A g \in DOMAIN gens : \A n \in Slots(g) : Entry(g, n) \in Event => Entry(g, n) <= written
    /\ \A g, h \in DOMAIN gens : \A n \in Slots(g), m \in Slots(h) :
          Entry(g, n) \in Event /\ Entry(g, n) = Entry(h, m) => g = h /\ n = m

\* What each point of the main loop knows of the tailer's fields.
Control ==
    /\ pc = "down" => state = None
    /\ pc \in {"down", "stat", "choose", "read"} => inflight = None
    /\ pc \in {"choose", "read", "ship", "ack"} => state # None
    /\ pc \in {"ship", "ack"} => inflight # None
    /\ pc \notin {"ship", "ack"} => batch = {}
    /\ inflight # None => state # None
    /\ Polling => current # None /\ \E g \in At("log") : gens[g].ino = current.ino
    /\ pc = "read" => /\ source.ino = state.ino
                      /\ source.at = "log" => state.ino = current.ino

\* The document of an event that is still in a file has the id of its place there.
Placed ==
    \A d \in indexed \cup batch :
        /\ d.event <= written
        /\ \A g \in DOMAIN gens : \A n \in Slots(g) :
              Entry(g, n) = d.event => d.ino = gens[g].ino /\ d.off = 2 * (n - 1)

OneDocument == \A d, e \in indexed \cup batch : d.event = e.event => d = e

TailInv ==
    TypeOK /\ InflightMatches /\ Directory /\ WrittenOnce /\ Control /\ Placed /\ OneDocument

Dealt == Delivered \cup {Junk, None}

\* A checkpoint is in the newest file, or in the one before it.
Recent(s) ==
    \E g \in DOMAIN gens : /\ gens[g].ino = s.ino /\ g >= Len(gens) - 1
                           /\ At("log") = {} => g = Len(gens)

\* Every line before a checkpoint is dealt with: those of earlier files, and those
\* of its own file that begin before it.  It is past the end only of an empty file.
Clear(s) ==
    \A g \in DOMAIN gens : gens[g].ino = s.ino =>
        /\ \A h \in DOMAIN gens : h < g => \A n \in DOMAIN gens[h].lines : gens[h].lines[n] \in Dealt
        /\ \A n \in Slots(g) : 2 * (n - 1) < s.off => Entry(g, n) \in Dealt
        /\ s.off <= Length(gens[g]) \/ Length(gens[g]) = 0

\* What a removed file held is accounted for.
RemovedGone ==
    \A g \in DOMAIN gens : gens[g].at = "gone"
        => \A n \in DOMAIN gens[g].lines : gens[g].lines[n] \in Dealt

\* The batch covers the lines up to its end.
Covered ==
    pc \in {"ship", "ack"} =>
        /\ pc = "ack" => batch \subseteq indexed
        /\ \A g \in DOMAIN gens : gens[g].ino = state.ino =>
              /\ inflight.end <= 2 * Len(gens[g].lines)
              /\ \A n \in DOMAIN gens[g].lines :
                    2 * (n - 1) < inflight.end
                        => gens[g].lines[n] \in Dealt \cup {d.event : d \in batch}

ClearInv ==
    /\ \A s \in {state, disk} \ {None} : Recent(s) /\ Clear(s)
    /\ RemovedGone /\ Covered

-----------------------------------------------------------------------------
(* Reading *)

LEMMA TextFacts ==
  /\ Junk \notin Event /\ None \notin Event /\ Junk # None
  /\ BatchLines \in Nat \ {0} /\ MaxLines \in Nat /\ None \notin Place /\ None \notin Token
BY TailerAssumptions, AbsentAssumption DEF Event

LEMMA LogFileFacts ==
  ASSUME NEW f \in LogFile
  PROVE  /\ f.ino \in Inodes /\ f.lines \in Seq(Texts) /\ f.partial \in Texts \cup {None}
         /\ f.at \in {"log", "rotated", "gone"} /\ Len(f.lines) \in Nat
         /\ DOMAIN f.lines = 1..Len(f.lines)
         /\ \A n \in 1..Len(f.lines) : f.lines[n] \in Texts
         /\ Length(f) \in Nat /\ Length(f) >= 2 * Len(f.lines) /\ Length(f) <= 2 * Len(f.lines) + 1
         /\ f.partial = None => Length(f) = 2 * Len(f.lines)
         /\ f.partial # None => Length(f) = 2 * Len(f.lines) + 1
<1>1. /\ f.ino \in Inodes /\ f.lines \in Seq(Texts) /\ f.partial \in Texts \cup {None}
      /\ f.at \in {"log", "rotated", "gone"}
  BY DEF LogFile
<1>2. Len(f.lines) \in Nat /\ DOMAIN f.lines = 1..Len(f.lines)
      /\ \A n \in 1..Len(f.lines) : f.lines[n] \in Texts
  BY <1>1
<1>3. /\ f.partial = None => Length(f) = 2 * Len(f.lines)
      /\ f.partial # None => Length(f) = 2 * Len(f.lines) + 1
  <2> DEFINE k == Len(f.lines)
  <2>1. Length(f) = 2 * k + (IF f.partial = None THEN 0 ELSE 1) /\ k \in Nat
    BY <1>2 DEF Length
  <2> HIDE DEF k
  <2>2. /\ f.partial = None => Length(f) = 2 * k
        /\ f.partial # None => Length(f) = 2 * k + 1
    BY <2>1
  <2> QED
    BY <2>2 DEF k
<1>4. /\ Length(f) \in Nat /\ Length(f) >= 2 * Len(f.lines)
      /\ Length(f) <= 2 * Len(f.lines) + 1
  BY <1>2, <1>3
<1> QED
  BY <1>1, <1>2, <1>3, <1>4

\* What read_batch makes of a file: the lines it finds begin at or after the offset,
\* a first line cut by the offset is Junk, and none up to the end is left out.
ReadsTrue(f, off, read) ==
    \E last \in 1..Len(f.lines) :
        /\ off < 2 * last
        /\ read[Len(read)].end = 2 * last
        /\ \A l \in Range(read) : l.event # Junk =>
              /\ l.event \in Event
              /\ \E n \in 1..last : l.event = f.lines[n] /\ l.off = 2 * (n - 1)
        /\ \A n \in 1..last : \/ f.lines[n] = Junk
                              \/ 2 * (n - 1) < off
                              \/ \E l \in Range(read) : l.event = f.lines[n]

LEMMA ReadFacts ==
  ASSUME NEW f \in LogFile, NEW off \in Nat, NEW ls, ls = LinesFrom(f, off), NEW read,
         read = SubSeq(ls, 1, IF Len(ls) < BatchLines THEN Len(ls) ELSE BatchLines),
         read # <<>>
  PROVE  ReadsTrue(f, off, read)
<1> DEFINE q == off \div 2
           N == Len(f.lines) - q
           Read == [off : Nat, end : Nat, event : Texts]
           Item(k) == [off |-> IF k = 1 THEN off ELSE 2 * ((q + k) - 1), end |-> 2 * (q + k),
                       event |-> IF k = 1 /\ off % 2 = 1 THEN Junk ELSE f.lines[q + k]]
<1>1. q \in Nat /\ Len(f.lines) \in Nat /\ N \in Int /\ 2 * q <= off /\ off <= 2 * q + 1
      /\ (off % 2 = 1 => off = 2 * q + 1) /\ (off % 2 # 1 => off = 2 * q)
  BY LogFileFacts
<1>2. ls = [k \in 1..N |-> Item(k)]
  BY DEF LinesFrom
<1>3. \A k \in 1..N : q + k \in 1..Len(f.lines) /\ f.lines[q + k] \in Texts
  BY <1>1, LogFileFacts
<1>4. \A k \in 1..N : Item(k) \in Read
  BY <1>1, <1>3 DEF Texts
<1> HIDE DEF Item, q
<1>5. N \in Nat /\ N # 0
  <2>1. CASE N <= 0
    <3>1. 1..N = {}
      BY <1>1, <2>1
    <3>2. ls = <<>>
      BY <1>2, <3>1
    <3>3. Len(ls) = 0
      BY <3>2
    <3>4. read = <<>>
      BY <3>2, <3>3, TextFacts
    <3> QED
      BY <3>4
  <2> QED
    BY <1>1, <2>1
<1> HIDE DEF N, Read
<1>6. ls \in Seq(Read) /\ Len(ls) = N /\ \A k \in 1..N : ls[k] = Item(k)
  <2>1. ls \in [1..N -> Read] /\ DOMAIN ls = 1..N /\ \A k \in 1..N : ls[k] = Item(k)
    BY <1>2, <1>4
  <2>2. ls \in Seq(Read)
    BY <1>5, <2>1
  <2> QED
    BY <1>5, <2>1, <2>2
<1> DEFINE M == IF Len(ls) < BatchLines THEN Len(ls) ELSE BatchLines
<1>7. M \in 1..N
  BY <1>5, <1>6, TextFacts
<1> HIDE DEF M
<1>8. Len(read) = M /\ DOMAIN read = 1..M /\ \A k \in 1..M : read[k] = Item(k)
  <2>1. read = SubSeq(ls, 1, M) /\ M \in Nat /\ N \in Nat /\ M <= N /\ M >= 1
    BY <1>5, <1>7 DEF M
  <2>2. \A k \in 1..M : ls[k] \in Read /\ ls[k] = Item(k)
    BY <1>4, <1>6, <2>1
  <2>3. /\ SubSeq(ls, 1, M) \in Seq(Read)
        /\ Len(SubSeq(ls, 1, M)) = IF 1 <= M THEN M - 1 + 1 ELSE 0
        /\ \A k \in 1..(M - 1 + 1) : SubSeq(ls, 1, M)[k] = ls[1 + k - 1]
    BY <2>1, <2>2, SubSeqProperties
  <2>4. /\ read \in Seq(Read) /\ Len(read) = M /\ M - 1 + 1 = M
    <3>1. M - 1 + 1 = M /\ (IF 1 <= M THEN M - 1 + 1 ELSE 0) = M
      BY <2>1
    <3>2. Len(SubSeq(ls, 1, M)) = M
      BY <2>3, <3>1
    <3> QED
      BY <2>1, <2>3, <3>1, <3>2
  <2>5. DOMAIN read = 1..M
    BY <2>4
  <2>6. \A k \in 1..M : k \in Int /\ 1 + k - 1 = k
    BY <2>1
  <2>7. \A k \in 1..M : read[k] = ls[k]
    BY <2>1, <2>3, <2>4, <2>6
  <2> QED
    BY <2>2, <2>4, <2>5, <2>7
<1> DEFINE last == q + M
<1>9. last \in 1..Len(f.lines) /\ off < 2 * last
  BY <1>1, <1>5, <1>7 DEF N
<1>10. \A k \in 1..M : /\ k \in Nat /\ k >= 1 /\ q + k \in 1..last /\ q + k \in 1..Len(f.lines)
  BY <1>1, <1>5, <1>7, <1>3, SMTT(30) DEF N
<1>11. \A k \in 1..M : /\ Item(k).end = 2 * (q + k)
                       /\ Item(k).off = (IF k = 1 THEN off ELSE 2 * ((q + k) - 1))
                       /\ Item(k).event = (IF k = 1 /\ off % 2 = 1 THEN Junk ELSE f.lines[q + k])
  BY DEF Item
<1>12. read[Len(read)].end = 2 * last
  <2>1. M \in 1..M
    BY <1>5, <1>7
  <2> QED
    BY <1>8, <1>11, <2>1
<1>13. ASSUME NEW l \in Range(read), l.event # Junk
       PROVE  /\ l.event \in Event
              /\ \E n \in 1..last : l.event = f.lines[n] /\ l.off = 2 * (n - 1)
  <2>1. PICK k \in 1..M : l = Item(k)
    BY <1>8, <1>13 DEF Range
  <2>2. l.event = f.lines[q + k] /\ ~(k = 1 /\ off % 2 = 1)
    BY <1>11, <1>13, <2>1
  <2>3. l.event \in Texts /\ l.event \in Event
    BY <1>10, <1>13, <2>2, LogFileFacts DEF Texts
  <2>4. l.off = 2 * ((q + k) - 1)
    BY <1>1, <1>10, <1>11, <2>1, <2>2, SMTT(30)
  <2> QED
    BY <1>10, <2>2, <2>3, <2>4
<1>14. ASSUME NEW n \in 1..last
       PROVE  \/ f.lines[n] = Junk
              \/ 2 * (n - 1) < off
              \/ \E l \in Range(read) : l.event = f.lines[n]
  <2>1. CASE n <= q
    BY <1>1, <1>9, <2>1
  <2>2. CASE n > q /\ n - q = 1 /\ off % 2 = 1
    BY <1>1, <2>2
  <2>3. CASE n > q /\ ~(n - q = 1 /\ off % 2 = 1)
    <3>1. n - q \in 1..M /\ q + (n - q) = n
      BY <1>1, <1>5, <1>7, <1>9, <2>3
    <3>2. Item(n - q).event = f.lines[n]
      BY <1>11, <2>3, <3>1
    <3>3. Item(n - q) \in Range(read)
      BY <1>8, <3>1 DEF Range
    <3> QED
      BY <3>2, <3>3
  <2> QED
    BY <1>1, <2>1, <2>2, <2>3
<1> HIDE DEF last
<1> QED
  BY <1>9, <1>12, <1>13, <1>14 DEF ReadsTrue
-----------------------------------------------------------------------------
(* What Steam does to one file *)

Writes(g, f) ==
    /\ gens[g].at = "log" /\ gens[g].partial = None
    /\ f.at = "log" /\ f.lines = gens[g].lines
    /\ written < MaxLines /\ written' = written + 1 /\ f.partial \in {written + 1, Junk}
    /\ ~Unnoticed(gens[g]) /\ gone' = gone

Ends(g, f) ==
    /\ gens[g].at = "log" /\ gens[g].partial # None
    /\ f.at = "log" /\ f.partial = None
    /\ f.lines = Append(gens[g].lines, gens[g].partial)
    /\ written' = written /\ gone' = gone

Rotates(g, f) ==
    /\ "race" \in Env \/ ~Polling
    /\ "double" \in Env \/ Reached(g)
    /\ gens[g].at = "log" /\ f.at = "rotated"
    /\ f.lines = gens[g].lines /\ f.partial = gens[g].partial
    /\ written' = written /\ gone' = gone

Removes(g, f) ==
    /\ gens[g].at = "rotated" /\ f.at = "gone"
    /\ f.lines = gens[g].lines /\ f.partial = gens[g].partial
    /\ written' = written /\ gone' = gone \cup EventsIn(gens[g])

Truncates(g, f) ==
    /\ ~Polling /\ inflight = None
    /\ gens[g].at = "log" /\ f.at = "log" /\ f.lines = <<>> /\ f.partial = None
    /\ written' = written /\ gone' = gone \cup EventsIn(gens[g])

Changes(g, f) ==
    Writes(g, f) \/ Ends(g, f) \/ Rotates(g, f) \/ Removes(g, f) \/ Truncates(g, f)

Creates(f) ==
    /\ At("log") = {}
    /\ \A g \in DOMAIN gens : gens[g].ino # f.ino
    /\ f.lines = <<>> /\ f.partial = None /\ f.at = "log"
    /\ gens' = Append(gens, f)
    /\ written' = written /\ gone' = gone

LEMMA SteamCases ==
  ASSUME TypeOK, Directory, Steam
  PROVE  /\ UNCHANGED <<pc, state, inflight, poll, disk, indexed, skipped, budget>>
         /\ \/ \E g \in DOMAIN gens : \E f \in LogFile :
                  gens' = [gens EXCEPT ![g] = f] /\ f.ino = gens[g].ino /\ Changes(g, f)
            \/ \E f \in LogFile : Creates(f)
<1>1. UNCHANGED <<pc, state, inflight, poll, disk, indexed, skipped, budget>>
  BY DEF Steam, StartLine, EndLine, Create, Rotate, Remove, Truncate
<1>2. \A g \in DOMAIN gens : gens[g] \in LogFile
  BY DEF Directory
<1>3. written + 1 \in Nat /\ (written < MaxLines => written + 1 \in Event)
  BY TextFacts DEF TypeOK, Event
<1>4. CASE StartLine
  <2>1. PICK g \in At("log") : \E text \in {written + 1, Junk} :
          /\ gens[g].partial = None /\ ~Unnoticed(gens[g])
          /\ gens' = [gens EXCEPT ![g].partial = text]
    BY <1>4 DEF StartLine
  <2>2. PICK text \in {written + 1, Junk} :
          /\ gens[g].partial = None /\ ~Unnoticed(gens[g])
          /\ gens' = [gens EXCEPT ![g].partial = text]
    BY <2>1
  <2> DEFINE f == [gens[g] EXCEPT !.partial = text]
  <2>3. g \in DOMAIN gens /\ gens[g].at = "log" /\ gens[g] \in LogFile
    BY <1>2 DEF At
  <2>4. text \in Texts /\ written < MaxLines /\ written' = written + 1 /\ gone' = gone
    BY <1>3, <1>4, <2>2 DEF StartLine, Texts
  <2>5. /\ f \in LogFile /\ f.ino = gens[g].ino /\ f.at = "log" /\ f.lines = gens[g].lines
        /\ f.partial = text
    BY <2>3, <2>4 DEF LogFile
  <2>6. gens' = [gens EXCEPT ![g] = f]
    BY <2>2
  <2> HIDE DEF f
  <2> QED
    BY <1>1, <2>2, <2>3, <2>4, <2>5, <2>6 DEF Changes, Writes
<1>5. CASE EndLine
  <2>1. PICK g \in At("log") :
          /\ gens[g].partial # None
          /\ gens' = [gens EXCEPT ![g].lines = Append(gens[g].lines, gens[g].partial),
                                  ![g].partial = None]
    BY <1>5 DEF EndLine
  <2> DEFINE f == [gens[g] EXCEPT !.lines = Append(gens[g].lines, gens[g].partial),
                                  !.partial = None]
  <2>2. g \in DOMAIN gens /\ gens[g].at = "log" /\ gens[g] \in LogFile
    BY <1>2 DEF At
  <2>3. gens[g].lines \in Seq(Texts) /\ gens[g].partial \in Texts
    BY <2>1, <2>2 DEF LogFile
  <2>4. Append(gens[g].lines, gens[g].partial) \in Seq(Texts)
    BY <2>3
  <2>5. /\ f \in LogFile /\ f.ino = gens[g].ino /\ f.at = "log" /\ f.partial = None
        /\ f.lines = Append(gens[g].lines, gens[g].partial)
    BY <2>2, <2>4 DEF LogFile
  <2>6. gens' = [gens EXCEPT ![g] = f]
    BY <2>1, <2>2 DEF LogFile
  <2>7. written' = written /\ gone' = gone
    BY <1>5 DEF EndLine
  <2> HIDE DEF f
  <2> QED
    BY <1>1, <2>1, <2>2, <2>5, <2>6, <2>7 DEF Changes, Ends
<1>6. CASE Rotate
  <2>1. PICK g \in At("log") : /\ "double" \in Env \/ Reached(g)
                               /\ gens' = [gens EXCEPT ![g].at = "rotated"]
    BY <1>6 DEF Rotate
  <2> DEFINE f == [gens[g] EXCEPT !.at = "rotated"]
  <2>2. g \in DOMAIN gens /\ gens[g].at = "log" /\ gens[g] \in LogFile
    BY <1>2 DEF At
  <2>3. /\ f \in LogFile /\ f.ino = gens[g].ino /\ f.at = "rotated"
        /\ f.partial = gens[g].partial /\ f.lines = gens[g].lines
    BY <2>2 DEF LogFile
  <2>4. gens' = [gens EXCEPT ![g] = f]
    BY <2>1
  <2>5. written' = written /\ gone' = gone /\ ("race" \in Env \/ ~Polling)
    BY <1>6 DEF Rotate
  <2> HIDE DEF f
  <2> QED
    BY <1>1, <2>1, <2>2, <2>3, <2>4, <2>5 DEF Changes, Rotates
<1>7. CASE Remove
  <2>1. PICK g \in At("rotated") : /\ gens' = [gens EXCEPT ![g].at = "gone"]
                                   /\ gone' = gone \cup EventsIn(gens[g])
    BY <1>7 DEF Remove
  <2> DEFINE f == [gens[g] EXCEPT !.at = "gone"]
  <2>2. g \in DOMAIN gens /\ gens[g].at = "rotated" /\ gens[g] \in LogFile
    BY <1>2 DEF At
  <2>3. /\ f \in LogFile /\ f.ino = gens[g].ino /\ f.at = "gone"
        /\ f.partial = gens[g].partial /\ f.lines = gens[g].lines
    BY <2>2 DEF LogFile
  <2>4. gens' = [gens EXCEPT ![g] = f]
    BY <2>1
  <2>5. written' = written
    BY <1>7 DEF Remove
  <2> HIDE DEF f
  <2> QED
    BY <1>1, <2>1, <2>2, <2>3, <2>4, <2>5 DEF Changes, Removes
<1>8. CASE Truncate
  <2>1. PICK g \in At("log") : /\ gens' = [gens EXCEPT ![g].lines = <<>>, ![g].partial = None]
                               /\ gone' = gone \cup EventsIn(gens[g])
    BY <1>8 DEF Truncate
  <2> DEFINE f == [gens[g] EXCEPT !.lines = <<>>, !.partial = None]
  <2>2. g \in DOMAIN gens /\ gens[g].at = "log" /\ gens[g] \in LogFile
    BY <1>2 DEF At
  <2>3. <<>> \in Seq(Texts)
    OBVIOUS
  <2>4. /\ f \in LogFile /\ f.ino = gens[g].ino /\ f.at = "log" /\ f.partial = None
        /\ f.lines = <<>>
    BY <2>2, <2>3 DEF LogFile
  <2>5. gens' = [gens EXCEPT ![g] = f]
    BY <2>1, <2>2 DEF LogFile
  <2>6. written' = written /\ ~Polling /\ inflight = None
    BY <1>8 DEF Truncate
  <2> HIDE DEF f
  <2> QED
    BY <1>1, <2>1, <2>2, <2>4, <2>5, <2>6 DEF Changes, Truncates
<1>9. CASE Create
  <2>1. PICK i \in Inodes \ {gens[g].ino : g \in DOMAIN gens} :
          gens' = Append(gens, [ino |-> i, lines |-> <<>>, partial |-> None, at |-> "log"])
    BY <1>9 DEF Create
  <2> DEFINE f == [ino |-> i, lines |-> <<>>, partial |-> None, at |-> "log"]
  <2>2. <<>> \in Seq(Texts)
    OBVIOUS
  <2>3. /\ f \in LogFile /\ f.ino = i /\ f.at = "log" /\ f.partial = None
        /\ f.lines = <<>>
    BY <2>1, <2>2 DEF LogFile
  <2>4. \A g \in DOMAIN gens : gens[g].ino # i
    BY <2>1
  <2>5. At("log") = {} /\ written' = written /\ gone' = gone
    BY <1>9 DEF Create
  <2>6. gens' = Append(gens, f)
    BY <2>1
  <2> HIDE DEF f
  <2> QED
    BY <1>1, <2>3, <2>4, <2>5, <2>6 DEF Creates
<1> QED
  BY <1>4, <1>5, <1>6, <1>7, <1>8, <1>9 DEF Steam

\* A change of one file leaves the others, and their number, alone.
LEMMA FileChanged ==
  ASSUME Directory, NEW g \in DOMAIN gens, NEW f \in LogFile, gens' = [gens EXCEPT ![g] = f]
  PROVE  /\ gens \in Seq(LogFile) /\ gens' \in Seq(LogFile) /\ Len(gens') = Len(gens)
         /\ Len(gens) \in Nat /\ DOMAIN gens = 1..Len(gens) /\ DOMAIN gens' = DOMAIN gens
         /\ gens'[g] = f /\ \A h \in DOMAIN gens : h # g => gens'[h] = gens[h]
         /\ \A h \in DOMAIN gens : gens[h] \in LogFile /\ gens'[h] \in LogFile
<1>1. gens \in Seq(LogFile)
  BY DEF Directory
<1>2. Len(gens) \in Nat /\ DOMAIN gens = 1..Len(gens) /\ \A h \in DOMAIN gens : gens[h] \in LogFile
  BY <1>1
<1>3. DOMAIN gens' = DOMAIN gens /\ gens'[g] = f /\ \A h \in DOMAIN gens : h # g => gens'[h] = gens[h]
  OBVIOUS
<1>4. gens' \in [1..Len(gens) -> LogFile]
  BY <1>2
<1>5. gens' \in Seq(LogFile) /\ Len(gens') = Len(gens)
  BY <1>2, <1>3, <1>4
<1> QED
  BY <1>1, <1>2, <1>3, <1>5

LEMMA FileAdded ==
  ASSUME Directory, NEW f \in LogFile, gens' = Append(gens, f)
  PROVE  /\ gens \in Seq(LogFile) /\ gens' \in Seq(LogFile) /\ Len(gens') = Len(gens) + 1
         /\ Len(gens) \in Nat /\ DOMAIN gens = 1..Len(gens)
         /\ DOMAIN gens' = DOMAIN gens \cup {Len(gens) + 1}
         /\ gens'[Len(gens) + 1] = f /\ \A h \in DOMAIN gens : gens'[h] = gens[h]
         /\ \A h \in DOMAIN gens : gens[h] \in LogFile
<1>1. gens \in Seq(LogFile)
  BY DEF Directory
<1>2. Len(gens) \in Nat /\ DOMAIN gens = 1..Len(gens) /\ \A h \in DOMAIN gens : gens[h] \in LogFile
  BY <1>1
<1>3. gens' \in Seq(LogFile) /\ Len(gens') = Len(gens) + 1 /\ gens'[Len(gens) + 1] = f
      /\ \A h \in 1..Len(gens) : gens'[h] = gens[h]
  BY <1>1
<1>4. DOMAIN gens' = 1..(Len(gens) + 1)
  BY <1>3
<1> QED
  BY <1>1, <1>2, <1>3, <1>4

LEMMA EventsInFacts ==
  ASSUME NEW f \in LogFile
  PROVE  /\ EventsIn(f) \subseteq Event
         /\ \A n \in DOMAIN f.lines : f.lines[n] \in EventsIn(f) \cup {Junk}
         /\ f.partial \in EventsIn(f) \cup {Junk, None}
<1>1. \A n \in DOMAIN f.lines : f.lines[n] \in Texts
  BY LogFileFacts
<1>2. f.partial \in Texts \cup {None}
  BY LogFileFacts
<1>3. Range(f.lines) = {f.lines[n] : n \in DOMAIN f.lines}
  BY DEF Range
<1>4. None \notin Texts
  BY TextFacts DEF Texts
<1> QED
  BY <1>1, <1>2, <1>3, <1>4 DEF EventsIn, Texts

-----------------------------------------------------------------------------
(* The directory and the places of the events *)

\* After a step of Steam every line is where it was, is no event, or is the new one.
LEMMA SteamEntries ==
  ASSUME TypeOK, Directory, Steam
  PROVE  \E G, N : \A g \in DOMAIN gens' : \A n \in Slots(g)' :
            \/ /\ g \in DOMAIN gens /\ n \in Slots(g) /\ gens'[g].ino = gens[g].ino
               /\ Entry(g, n)' = Entry(g, n)
            \/ Entry(g, n)' \in {Junk, None}
            \/ Entry(g, n)' = written + 1 /\ written' = written + 1 /\ g = G /\ n = N
<1>1. CASE \E g \in DOMAIN gens : \E f \in LogFile :
              gens' = [gens EXCEPT ![g] = f] /\ f.ino = gens[g].ino /\ Changes(g, f)
  <2>1. PICK g \in DOMAIN gens, f \in LogFile :
          gens' = [gens EXCEPT ![g] = f] /\ f.ino = gens[g].ino /\ Changes(g, f)
    BY <1>1
  <2>2. /\ DOMAIN gens' = DOMAIN gens /\ gens'[g] = f /\ gens[g] \in LogFile
        /\ \A h \in DOMAIN gens : h # g => gens'[h] = gens[h]
    BY <2>1, FileChanged
  <2> DEFINE k == Len(gens[g].lines)
  <2>3. k \in Nat /\ gens[g].lines \in Seq(Texts)
    BY <2>2, LogFileFacts
  <2>4. ASSUME NEW n \in Slots(g)'
        PROVE  \/ n \in Slots(g) /\ Entry(g, n)' = Entry(g, n)
               \/ Entry(g, n)' \in {Junk, None}
               \/ Entry(g, n)' = written + 1 /\ written' = written + 1 /\ n = k + 1
    <3>1. /\ n \in 1..(Len(f.lines) + 1)
          /\ Entry(g, n)' = IF n = Len(f.lines) + 1 THEN f.partial ELSE f.lines[n]
          /\ Slots(g) = 1..(k + 1)
          /\ Entry(g, n) = IF n = k + 1 THEN gens[g].partial ELSE gens[g].lines[n]
      BY <2>2, <2>4 DEF Slots, Entry
    <3>2. CASE Writes(g, f)
      BY <3>1, <3>2 DEF Writes
    <3>3. CASE Ends(g, f)
      <4>1. f.lines = Append(gens[g].lines, gens[g].partial) /\ f.partial = None
            /\ gens[g].partial \in Texts
        BY <2>2, <3>3, LogFileFacts DEF Ends
      <4>2. /\ Len(f.lines) = k + 1 /\ f.lines[k + 1] = gens[g].partial
            /\ \A m \in 1..k : f.lines[m] = gens[g].lines[m]
        BY <2>3, <4>1
      <4> HIDE DEF k
      <4>3. CASE n = k + 2
        BY <2>3, <3>1, <4>1, <4>2, <4>3
      <4>4. CASE n = k + 1
        BY <2>3, <3>1, <4>1, <4>2, <4>4
      <4>5. CASE n \in 1..k
        BY <2>3, <3>1, <4>1, <4>2, <4>5
      <4>6. n \in 1..(k + 2)
        BY <2>3, <3>1, <4>2
      <4>7. n = k + 2 \/ n = k + 1 \/ n \in 1..k
        BY <2>3, <4>6
      <4> QED
        BY <4>3, <4>4, <4>5, <4>7
    <3>4. CASE Rotates(g, f) \/ Removes(g, f)
      BY <3>1, <3>4 DEF Rotates, Removes
    <3>5. CASE Truncates(g, f)
      <4>1. Len(f.lines) = 0 /\ f.partial = None
        BY <3>5 DEF Truncates
      <4>2. n = 1
        BY <3>1, <4>1
      <4> QED
        BY <3>1, <4>1, <4>2
    <3> QED
      BY <2>1, <3>2, <3>3, <3>4, <3>5 DEF Changes
  <2>5. ASSUME NEW h \in DOMAIN gens, h # g, NEW n \in Slots(h)'
        PROVE  n \in Slots(h) /\ Entry(h, n)' = Entry(h, n) /\ gens'[h].ino = gens[h].ino
    BY <2>2, <2>5 DEF Slots, Entry
  <2>6. gens'[g].ino = gens[g].ino
    BY <2>1, <2>2
  <2>7. \A h \in DOMAIN gens' : \A n \in Slots(h)' :
            \/ /\ h \in DOMAIN gens /\ n \in Slots(h) /\ gens'[h].ino = gens[h].ino
               /\ Entry(h, n)' = Entry(h, n)
            \/ Entry(h, n)' \in {Junk, None}
            \/ Entry(h, n)' = written + 1 /\ written' = written + 1 /\ h = g /\ n = k + 1
    BY <2>2, <2>4, <2>5, <2>6
  <2> QED
    BY <2>7
<1>2. CASE \E f \in LogFile : Creates(f)
  <2>1. PICK f \in LogFile : Creates(f)
    BY <1>2
  <2>2. gens' = Append(gens, f) /\ f.lines = <<>> /\ f.partial = None
    BY <2>1 DEF Creates
  <2>3. /\ DOMAIN gens' = DOMAIN gens \cup {Len(gens) + 1} /\ gens'[Len(gens) + 1] = f
        /\ \A h \in DOMAIN gens : gens'[h] = gens[h]
    BY <2>2, FileAdded
  <2>4. ASSUME NEW g \in DOMAIN gens', NEW n \in Slots(g)'
        PROVE  \/ /\ g \in DOMAIN gens /\ n \in Slots(g) /\ gens'[g].ino = gens[g].ino
                  /\ Entry(g, n)' = Entry(g, n)
               \/ Entry(g, n)' \in {Junk, None}
    <3>1. CASE g \in DOMAIN gens
      BY <2>3, <2>4, <3>1 DEF Slots, Entry
    <3>2. CASE gens'[g] = f
      <4>1. Len(f.lines) = 0
        BY <2>2
      <4>2. n \in 1..(0 + 1) /\ Entry(g, n)' = IF n = 0 + 1 THEN None ELSE f.lines[n]
        BY <2>2, <2>4, <3>2, <4>1 DEF Slots, Entry
      <4>3. n = 1
        BY <4>2
      <4> QED
        BY <4>2, <4>3
    <3> QED
      BY <2>3, <3>1, <3>2
  <2> QED
    BY <2>4
<1> QED
  BY <1>1, <1>2, SteamCases

LEMMA SteamDirectory ==
  ASSUME TypeOK, Directory, Steam
  PROVE  Directory'
<1>1. CASE \E g \in DOMAIN gens : \E f \in LogFile :
              gens' = [gens EXCEPT ![g] = f] /\ f.ino = gens[g].ino /\ Changes(g, f)
  <2>1. PICK g \in DOMAIN gens, f \in LogFile :
          gens' = [gens EXCEPT ![g] = f] /\ f.ino = gens[g].ino /\ Changes(g, f)
    BY <1>1
  <2>2. /\ gens' \in Seq(LogFile) /\ Len(gens') = Len(gens)
        /\ DOMAIN gens' = DOMAIN gens /\ gens'[g] = f
        /\ \A h \in DOMAIN gens : h # g => gens'[h] = gens[h]
    BY <2>1, FileChanged
  <2>3. \A h \in DOMAIN gens : gens'[h].ino = gens[h].ino
    BY <2>1, <2>2
  <2>4. f.at = "log" => gens[g].at = "log"
    BY <2>1 DEF Changes, Writes, Ends, Rotates, Removes, Truncates
  <2> QED
    BY <2>2, <2>3, <2>4 DEF Directory
<1>2. CASE \E f \in LogFile : Creates(f)
  <2>1. PICK f \in LogFile : Creates(f)
    BY <1>2
  <2>2. /\ gens' = Append(gens, f) /\ \A h \in DOMAIN gens : gens[h].ino # f.ino /\ gens[h].at # "log"
    BY <2>1 DEF Creates, At
  <2>3. /\ gens' \in Seq(LogFile) /\ Len(gens') = Len(gens) + 1
        /\ DOMAIN gens' = DOMAIN gens \cup {Len(gens) + 1} /\ gens'[Len(gens) + 1] = f
        /\ \A h \in DOMAIN gens : gens'[h] = gens[h]
    BY <2>2, FileAdded
  <2> QED
    BY <2>2, <2>3 DEF Directory
<1> QED
  BY <1>1, <1>2, SteamCases

LEMMA SteamWritten ==
  ASSUME TypeOK, Directory, WrittenOnce, Placed, Steam
  PROVE  WrittenOnce' /\ Placed'
<1>1. PICK G, N : \A g \in DOMAIN gens' : \A n \in Slots(g)' :
            \/ /\ g \in DOMAIN gens /\ n \in Slots(g) /\ gens'[g].ino = gens[g].ino
               /\ Entry(g, n)' = Entry(g, n)
            \/ Entry(g, n)' \in {Junk, None}
            \/ Entry(g, n)' = written + 1 /\ written' = written + 1 /\ g = G /\ n = N
  BY SteamEntries
<1>2. written \in Nat /\ written' \in {written, written + 1}
  BY SteamCases DEF TypeOK, Changes, Writes, Ends, Rotates, Removes, Truncates, Creates
<1>3. \A e \in Event : e \in Nat /\ e # Junk /\ e # None
  BY TextFacts DEF Event
<1>4. UNCHANGED <<indexed, batch>>
  BY SteamCases DEF poll
<1>5. \A d \in indexed \cup batch : d.event \in Event /\ d.event <= written
  BY DEF TypeOK, Document, Placed
<1>6. \A g \in DOMAIN gens : \A n \in Slots(g) : Entry(g, n) \in Event => Entry(g, n) # written + 1
  BY <1>2, <1>3 DEF WrittenOnce
<1>7. ASSUME NEW g \in DOMAIN gens', NEW n \in Slots(g)', Entry(g, n)' \in Event
      PROVE  Entry(g, n)' <= written'
  BY <1>1, <1>2, <1>3, <1>7 DEF WrittenOnce
<1>8. ASSUME NEW g \in DOMAIN gens', NEW h \in DOMAIN gens', NEW n \in Slots(g)', NEW m \in Slots(h)',
             Entry(g, n)' \in Event, Entry(g, n)' = Entry(h, m)'
      PROVE  g = h /\ n = m
  <2>1. Entry(g, n)' # Junk /\ Entry(g, n)' # None
    BY <1>3, <1>8
  <2>2. CASE /\ g \in DOMAIN gens /\ n \in Slots(g) /\ Entry(g, n)' = Entry(g, n)
             /\ h \in DOMAIN gens /\ m \in Slots(h) /\ Entry(h, m)' = Entry(h, m)
    BY <1>8, <2>2 DEF WrittenOnce
  <2> QED
    BY <1>1, <1>6, <1>8, <2>1, <2>2
<1>9. ASSUME NEW d \in indexed \cup batch, NEW g \in DOMAIN gens', NEW n \in Slots(g)',
             Entry(g, n)' = d.event
      PROVE  d.ino = gens'[g].ino /\ d.off = 2 * (n - 1)
  <2>1. d.event # written + 1 /\ d.event # Junk /\ d.event # None
    BY <1>2, <1>3, <1>5
  <2>2. g \in DOMAIN gens /\ n \in Slots(g) /\ gens'[g].ino = gens[g].ino
        /\ Entry(g, n)' = Entry(g, n)
    BY <1>1, <1>9, <2>1
  <2> QED
    BY <1>9, <2>2 DEF Placed
<1>10. \A d \in indexed \cup batch : d.event <= written'
  BY <1>2, <1>3, <1>5
<1>11. WrittenOnce'
  BY <1>7, <1>8 DEF WrittenOnce
<1>12. Placed'
  BY <1>4, <1>9, <1>10 DEF Placed
<1> QED
  BY <1>11, <1>12

LEMMA DirectoryTyped ==
  ASSUME Directory
  PROVE  \A g \in DOMAIN gens :
            /\ gens[g] \in LogFile
            /\ gens[g].ino \in Inodes
            /\ gens[g].lines \in Seq(Event \cup {Junk})
            /\ gens[g].partial \in Event \cup {Junk, None}
            /\ gens[g].at \in {"log", "rotated", "gone"}
            /\ Length(gens[g]) \in Nat /\ Len(gens[g].lines) \in Nat
<1> SUFFICES ASSUME NEW g \in DOMAIN gens PROVE
            /\ gens[g] \in LogFile
            /\ gens[g].ino \in Inodes
            /\ gens[g].lines \in Seq(Event \cup {Junk})
            /\ gens[g].partial \in Event \cup {Junk, None}
            /\ gens[g].at \in {"log", "rotated", "gone"}
            /\ Length(gens[g]) \in Nat /\ Len(gens[g].lines) \in Nat
    OBVIOUS
<1>1. gens[g] \in LogFile
  BY DEF Directory
<1> QED
  BY <1>1, LogFileFacts DEF Texts

NoRace == "race" \notin Env

LEMMA SteamTail ==
  ASSUME NoRace, TailInv, Steam
  PROVE  TailInv'
<1>0. TypeOK /\ InflightMatches /\ Directory /\ WrittenOnce /\ Control /\ Placed /\ OneDocument
  BY DEF TailInv
<1>1. UNCHANGED <<pc, state, inflight, current, source, batch, disk, indexed, skipped, faults, crashes>>
  BY <1>0, SteamCases DEF poll, budget
<1>2. Directory' /\ WrittenOnce' /\ Placed'
  BY <1>0, SteamDirectory, SteamWritten
<1>3. written' \in 0..MaxLines /\ gone' \subseteq Event
  <2>1. \A g \in DOMAIN gens : EventsIn(gens[g]) \subseteq Event
    BY <1>0, DirectoryTyped, EventsInFacts
  <2>2. written \in 0..MaxLines /\ gone \subseteq Event
    BY <1>0 DEF TypeOK
  <2>3. written' = written \/ (written < MaxLines /\ written' = written + 1)
    BY <1>0, SteamCases DEF Changes, Writes, Ends, Rotates, Removes, Truncates, Creates
  <2>4. gone' = gone \/ \E g \in DOMAIN gens : gone' = gone \cup EventsIn(gens[g])
    BY <1>0, SteamCases DEF Changes, Writes, Ends, Rotates, Removes, Truncates, Creates
  <2> QED
    BY <2>1, <2>2, <2>3, <2>4, TextFacts
<1>4. TypeOK'
  <2>1. \A g \in DOMAIN gens' :
            /\ gens'[g].ino \in Inodes
            /\ gens'[g].lines \in Seq(Event \cup {Junk})
            /\ gens'[g].partial \in Event \cup {Junk, None}
            /\ gens'[g].at \in {"log", "rotated", "gone"}
    <3>1. Directory' => \A g \in DOMAIN gens' : gens'[g] \in LogFile
      BY DEF Directory
    <3> QED
      BY <1>2, <3>1, LogFileFacts DEF Texts
  <2> QED
    BY <1>0, <1>1, <1>3, <2>1 DEF TypeOK
<1>5. ASSUME Polling
      PROVE  \E g \in DOMAIN gens' : gens'[g].at = "log" /\ gens'[g].ino = current.ino
  <2>1. PICK l \in DOMAIN gens : gens[l].at = "log" /\ gens[l].ino = current.ino
    BY <1>0, <1>5 DEF Control, At
  <2>2. PICK g \in DOMAIN gens, f \in LogFile :
          gens' = [gens EXCEPT ![g] = f] /\ f.ino = gens[g].ino /\ Changes(g, f)
    BY <1>0, <2>1, SteamCases DEF Creates, At
  <2>3. ~Rotates(g, f) /\ ~Truncates(g, f)
    BY <1>5 DEF Rotates, Truncates, NoRace
  <2>4. gens[g].at = "log" => f.at = "log"
    BY <2>2, <2>3 DEF Changes, Writes, Ends, Removes
  <2>5. DOMAIN gens' = DOMAIN gens /\ gens'[g] = f /\ (l # g => gens'[l] = gens[l])
    BY <1>0, <2>2, FileChanged
  <2> QED
    BY <2>1, <2>2, <2>4, <2>5
<1>6. Control'
  BY <1>0, <1>1, <1>5 DEF Control, Polling, At
<1>7. InflightMatches' /\ OneDocument'
  BY <1>0, <1>1 DEF InflightMatches, OneDocument
<1> QED
  BY <1>2, <1>4, <1>6, <1>7 DEF TailInv

-----------------------------------------------------------------------------
(* The tailer *)

\* A step of the agent leaves the log alone.
LEMMA AgentLeavesLog ==
  ASSUME Directory, WrittenOnce, UNCHANGED log
  PROVE  /\ Directory' /\ WrittenOnce'
         /\ \A where \in {"log", "rotated"} : At(where)' = At(where)
         /\ \A g \in DOMAIN gens : Slots(g)' = Slots(g) /\ \A n : Entry(g, n)' = Entry(g, n)
BY DEF log, Directory, WrittenOnce, Slots, Entry, At

\* EndPoll in terms of the variables, with nothing in flight or a batch that stays.
LEMMA TypeOKKept ==
  ASSUME TypeOK, UNCHANGED log, pc' \in {"down", "tick", "stat", "choose", "read", "ship", "ack"},
         state' \in Place \cup {None}, current' \in Place \cup {None}, disk' \in Place \cup {None},
         source' \in [at : {"log", "rotated"}, ino : Inodes] \cup {None},
         inflight' \in Token \cup {None},
         batch' \subseteq Document, indexed' \subseteq Document, skipped' \subseteq Event,
         faults' \in Nat, crashes' \in Nat
  PROVE  TypeOK'
BY DEF TypeOK, log

LEMMA Budgets ==
  ASSUME TypeOK
  PROVE  /\ UNCHANGED budget => faults' \in Nat /\ crashes' \in Nat
         /\ \A f : Fault(f) => faults' \in Nat /\ crashes' \in Nat
         /\ \A s \in Place : Persisted(s) \/ NotPersisted(s)
               => disk' \in {disk, s} /\ faults' \in Nat /\ crashes' \in Nat
<1>1. faults \in Nat /\ crashes \in Nat
  BY DEF TypeOK
<1>2. UNCHANGED budget => faults' \in Nat /\ crashes' \in Nat
  BY <1>1 DEF budget
<1>3. \A f : Fault(f) => faults' \in Nat /\ crashes' \in Nat
  BY <1>1 DEF Fault
<1> QED
  BY <1>2, <1>3 DEF Persisted, NotPersisted

LEMMA StatTail ==
  ASSUME TailInv, PollStat
  PROVE  TailInv'
<1>0. TypeOK /\ InflightMatches /\ Directory /\ WrittenOnce /\ Control /\ Placed /\ OneDocument
  BY DEF TailInv
<1>1. pc = "stat" /\ UNCHANGED <<gens, written, gone, inflight, indexed>> /\ UNCHANGED log
  BY DEF PollStat, log
<1>2. inflight = None /\ batch = {} /\ state \in Place \cup {None} /\ current \in Place \cup {None}
      /\ disk \in Place \cup {None} /\ skipped \subseteq Event /\ indexed \subseteq Document
      /\ source \in [at : {"log", "rotated"}, ino : Inodes] \cup {None}
  BY <1>0, <1>1 DEF Control, TypeOK
<1>3. \A g \in At("log") : /\ g \in DOMAIN gens /\ gens[g].at = "log"
                           /\ [ino |-> gens[g].ino, off |-> Length(gens[g])] \in Place
                           /\ [ino |-> gens[g].ino, off |-> Length(gens[g])].ino = gens[g].ino
  BY <1>0, DirectoryTyped DEF At, Place
<1>4. \A h \in DOMAIN gens : EventsIn(gens[h]) \subseteq Event
  BY <1>0, DirectoryTyped, EventsInFacts
<1>5. Directory' /\ WrittenOnce' /\ At("log")' = At("log")
  BY <1>0, <1>1, AgentLeavesLog
<1>6. /\ state' \in Place \cup {None} /\ current' \in Place \cup {None}
      /\ disk' \in Place \cup {None} /\ faults' \in Nat /\ crashes' \in Nat
      /\ source' \in {source, None} /\ batch' = {} /\ skipped' \subseteq Event
      /\ \/ pc' = "tick"
         \/ /\ pc' = "choose" /\ state' # None
            /\ \E g \in At("log") : current' # None /\ gens[g].ino = current'.ino
  <2>1. CASE At("log") = {} /\ EndPoll /\ UNCHANGED <<state, disk, skipped, budget>>
    BY <1>0, <1>2, <2>1, Budgets DEF EndPoll
  <2>2. ASSUME NEW g \in At("log"), state = None,
               state' = [ino |-> gens[g].ino, off |-> Length(gens[g])],
               skipped' = skipped \cup UNION {EventsIn(gens[h]) : h \in 1..g},
               Persisted(state') \/ NotPersisted(state'), EndPoll
        PROVE  /\ state' \in Place /\ disk' \in Place \cup {None} /\ faults' \in Nat
               /\ crashes' \in Nat /\ skipped' \subseteq Event
    <3>1. state' \in Place
      BY <1>3, <2>2
    <3>2. disk' \in Place \cup {None} /\ faults' \in Nat /\ crashes' \in Nat
      BY <1>0, <1>2, <2>2, <3>1, Budgets
    <3>3. 1..g \subseteq DOMAIN gens
      <4>1. g \in DOMAIN gens /\ gens \in Seq(LogFile)
        BY <1>0, <1>3 DEF Directory
      <4> QED
        BY <4>1
    <3> QED
      BY <1>2, <1>4, <2>2, <3>1, <3>2, <3>3
  <2>3. ASSUME NEW g \in At("log"), state # None,
               current' = [ino |-> gens[g].ino, off |-> Length(gens[g])],
               pc' = "choose", UNCHANGED <<state, source, batch, disk, skipped, budget>>
        PROVE  /\ current' \in Place /\ current' # None /\ faults' \in Nat /\ crashes' \in Nat
               /\ gens[g].ino = current'.ino
    BY <1>0, <1>3, <2>3, Budgets, TextFacts
  <2>4. ASSUME NEW g \in At("log"), state # None, state' = [state EXCEPT !.off = 0],
               \/ /\ Persisted(state')
                  /\ current' = [ino |-> gens[g].ino, off |-> Length(gens[g])]
                  /\ pc' = "choose"
                  /\ UNCHANGED <<source, batch>>
               \/ NotPersisted(state') /\ EndPoll
        PROVE  /\ state' \in Place /\ state' # None /\ disk' \in Place \cup {None}
               /\ faults' \in Nat /\ crashes' \in Nat /\ current' \in Place \cup {None}
               /\ source' \in {source, None} /\ batch' = {}
               /\ \/ pc' = "tick"
                  \/ pc' = "choose" /\ current' # None /\ gens[g].ino = current'.ino
    <3>1. state' \in Place /\ state' # None
      BY <1>2, <2>4, TextFacts DEF Place
    <3>2. disk' \in Place \cup {None} /\ faults' \in Nat /\ crashes' \in Nat
      BY <1>0, <1>2, <2>4, <3>1, Budgets
    <3> QED
      BY <1>2, <1>3, <2>4, <3>1, <3>2, TextFacts DEF EndPoll
  <2> QED
    BY <1>2, <2>1, <2>2, <2>3, <2>4 DEF PollStat, EndPoll
<1>7. TypeOK'
  BY <1>0, <1>1, <1>2, <1>6, TypeOKKept
<1>8. Control'
  BY <1>1, <1>2, <1>5, <1>6 DEF Control, Polling
<1>9. InflightMatches' /\ Placed' /\ OneDocument'
  <2>1. indexed' \cup batch' = indexed \cup batch
    BY <1>1, <1>2, <1>6
  <2> QED
    BY <1>0, <1>1, <1>2, <2>1, AgentLeavesLog DEF InflightMatches, Placed, OneDocument
<1> QED
  BY <1>5, <1>7, <1>8, <1>9 DEF TailInv

LEMMA ChooseTail ==
  ASSUME TailInv, PollChoose
  PROVE  TailInv'
<1>0. TypeOK /\ InflightMatches /\ Directory /\ WrittenOnce /\ Control /\ Placed /\ OneDocument
  BY DEF TailInv
<1>1. pc = "choose" /\ UNCHANGED <<gens, written, gone, inflight, indexed, skipped>> /\ UNCHANGED log
  BY DEF PollChoose, log
<1>2. inflight = None /\ batch = {} /\ state \in Place /\ current \in Place
      /\ disk \in Place \cup {None} /\ indexed \subseteq Document /\ skipped \subseteq Event
      /\ \E g \in At("log") : gens[g].ino = current.ino
  BY <1>0, <1>1 DEF Control, TypeOK, Polling
<1>3. Directory' /\ WrittenOnce' /\ At("log")' = At("log")
  BY <1>0, <1>1, AgentLeavesLog
<1>4. /\ state.ino \in Inodes /\ current.ino \in Inodes
      /\ [ino |-> current.ino, off |-> 0] \in Place
      /\ [ino |-> current.ino, off |-> 0].ino = current.ino
  BY <1>2 DEF Place
<1>5. \A w \in {"log", "rotated"}, i \in Inodes :
        /\ [at |-> w, ino |-> i] \in [at : {"log", "rotated"}, ino : Inodes]
        /\ [at |-> w, ino |-> i].at = w /\ [at |-> w, ino |-> i].ino = i
  OBVIOUS
<1>6. /\ state' \in Place /\ current' \in Place \cup {None} /\ batch' = {}
      /\ disk' \in Place \cup {None} /\ faults' \in Nat /\ crashes' \in Nat
      /\ \/ pc' \in {"tick", "stat"} /\ source' \in {source, None}
         \/ /\ pc' = "read" /\ current' = current
            /\ source' \in [at : {"log", "rotated"}, ino : Inodes]
            /\ source'.ino = state'.ino /\ (source'.at = "log" => state'.ino = current.ino)
  <2>1. CASE /\ state.ino = current.ino
             /\ source' = [at |-> "log", ino |-> state.ino] /\ pc' = "read"
             /\ UNCHANGED <<state, current, batch, disk, budget>>
    BY <1>0, <1>2, <1>4, <1>5, <2>1, Budgets, TextFacts
  <2>2. CASE /\ source' = [at |-> "rotated", ino |-> state.ino] /\ pc' = "read"
             /\ UNCHANGED <<state, current, batch, disk, budget>>
    BY <1>0, <1>2, <1>4, <1>5, <2>2, Budgets, TextFacts
  <2>3. CASE /\ state' = [ino |-> current.ino, off |-> 0]
             /\ \/ Persisted(state') /\ pc' = "stat" /\ current' = None /\ UNCHANGED <<source, batch>>
                \/ NotPersisted(state') /\ EndPoll
    BY <1>0, <1>2, <1>4, <2>3, Budgets DEF EndPoll
  <2>4. CASE /\ state' = [ino |-> current.ino, off |-> 0]
             /\ \/ /\ Persisted(state')
                   /\ source' = [at |-> "log", ino |-> current.ino]
                   /\ pc' = "read"
                   /\ UNCHANGED <<current, batch>>
                \/ NotPersisted(state') /\ EndPoll
    BY <1>0, <1>2, <1>4, <1>5, <2>4, Budgets, TextFacts DEF EndPoll
  <2> QED
    BY <1>1, <2>1, <2>2, <2>3, <2>4 DEF PollChoose
<1>7. source' \in [at : {"log", "rotated"}, ino : Inodes] \cup {None}
  BY <1>0, <1>6 DEF TypeOK
<1>8. TypeOK'
  BY <1>0, <1>1, <1>2, <1>6, <1>7, TypeOKKept
<1>9. Control'
  BY <1>1, <1>2, <1>3, <1>6, TextFacts DEF Control, Polling
<1>10. InflightMatches' /\ Placed' /\ OneDocument'
  <2>1. indexed' \cup batch' = indexed \cup batch
    BY <1>1, <1>2, <1>6
  <2> QED
    BY <1>0, <1>1, <1>2, <2>1, AgentLeavesLog DEF InflightMatches, Placed, OneDocument
<1> QED
  BY <1>3, <1>8, <1>9, <1>10 DEF TailInv

\* The file read is the one the checkpoint is in.
LEMMA ReadsOwnFile ==
  ASSUME TailInv, pc = "read", NEW g \in Opened
  PROVE  g \in DOMAIN gens /\ gens[g] \in LogFile /\ gens[g].ino = state.ino
<1>0. TypeOK /\ Directory /\ Control
  BY DEF TailInv
<1>1. CASE source.at = "log"
  <2>1. g \in DOMAIN gens /\ gens[g].at = "log"
    BY <1>1 DEF Opened, At
  <2>2. PICK l \in DOMAIN gens : gens[l].at = "log" /\ gens[l].ino = current.ino
    BY <1>0 DEF Control, Polling, At
  <2>3. state.ino = current.ino /\ l = g
    BY <1>0, <1>1, <2>1, <2>2 DEF Control, Directory
  <2> QED
    BY <1>0, <2>1, <2>2, <2>3, DirectoryTyped
<1>2. CASE source.at # "log"
  BY <1>0, <1>2, DirectoryTyped DEF Opened, Found, At
<1> QED
  BY <1>1, <1>2

\* The documents of a batch are new, or are the ones indexed before for their lines.
LEMMA BatchPlaced ==
  ASSUME TailInv, pc = "read", NEW g \in Opened, NEW last \in 1..Len(gens[g].lines), NEW docs,
         \A d \in docs : \E n \in 1..last :
            d = [ino |-> source.ino, off |-> 2 * (n - 1), event |-> gens[g].lines[n]]
            /\ gens[g].lines[n] \in Event
  PROVE  /\ docs \subseteq Document
         /\ \A d \in docs : \E n \in Slots(g) :
               d.event \in Event /\ Entry(g, n) = d.event /\ d.ino = gens[g].ino /\ d.off = 2 * (n - 1)
<1>0. TypeOK /\ Control
  BY DEF TailInv
<1>1. g \in DOMAIN gens /\ gens[g].ino = state.ino /\ source.ino = state.ino
      /\ Len(gens[g].lines) \in Nat /\ gens[g].ino \in Inodes
  BY ReadsOwnFile, LogFileFacts DEF TailInv, Control
<1>2. ASSUME NEW d \in docs
      PROVE  /\ d \in Document
             /\ \E n \in Slots(g) : d.event \in Event /\ Entry(g, n) = d.event
                                    /\ d.ino = gens[g].ino /\ d.off = 2 * (n - 1)
  <2>1. PICK n \in 1..last :
            d = [ino |-> source.ino, off |-> 2 * (n - 1), event |-> gens[g].lines[n]]
            /\ gens[g].lines[n] \in Event
    BY <1>2
  <2>2. n \in Slots(g) /\ n # Len(gens[g].lines) + 1 /\ 2 * (n - 1) \in Nat
    BY <1>1 DEF Slots
  <2>3. Entry(g, n) = gens[g].lines[n]
    BY <2>2 DEF Entry
  <2>4. d \in Document
    BY <1>1, <2>1, <2>2 DEF Document
  <2>5. d.event = gens[g].lines[n] /\ d.ino = source.ino /\ d.off = 2 * (n - 1)
    BY <2>1
  <2> QED
    BY <1>1, <2>1, <2>2, <2>3, <2>4, <2>5
<1> QED
  BY <1>2

LEMMA DocumentsEqual ==
  ASSUME NEW d \in Document, NEW e \in Document, d.ino = e.ino, d.off = e.off, d.event = e.event
  PROVE  d = e
BY DEF Document

\* The three outcomes of read_batch.
Reads(g, last, docs) ==
    /\ last \in 1..Len(gens[g].lines) /\ state.off < 2 * last
    /\ \A d \in docs : \E n \in 1..last :
          d = [ino |-> source.ino, off |-> 2 * (n - 1), event |-> gens[g].lines[n]]
          /\ gens[g].lines[n] \in Event
    /\ \A n \in 1..last : \/ gens[g].lines[n] = Junk
                          \/ 2 * (n - 1) < state.off
                          \/ \E d \in docs : d.event = gens[g].lines[n]

\* What poll does with the lines read and the batch made of them.
Outcome(read, b) ==
    \/ /\ read = <<>>
       /\ EndPoll
       /\ UNCHANGED <<state, inflight, disk, budget>>
    \/ /\ read # <<>> /\ b.docs # {}
       /\ batch' = b.docs
       /\ inflight' = [ino |-> source.ino, start |-> state.off, end |-> b.end]
       /\ pc' = "ship"
       /\ UNCHANGED <<state, current, source, disk, budget>>
    \/ /\ read # <<>> /\ b.docs = {}
       /\ \/ state' = [state EXCEPT !.off = b.end] /\ Persisted(state')
          \/ NotPersisted([state EXCEPT !.off = b.end]) /\ UNCHANGED state
       /\ EndPoll
       /\ UNCHANGED inflight

LEMMA ReadCases ==
  ASSUME TailInv, PollRead
  PROVE  /\ pc = "read" /\ UNCHANGED log /\ UNCHANGED <<indexed, skipped>>
         /\ \/ EndPoll /\ UNCHANGED <<state, inflight, disk, budget>>
            \/ \E g \in Opened : \E last, docs :
                  /\ Reads(g, last, docs)
                  /\ \/ /\ batch' = docs /\ pc' = "ship"
                        /\ inflight' = [ino |-> source.ino, start |-> state.off, end |-> 2 * last]
                        /\ UNCHANGED <<state, current, source, disk, budget>>
                     \/ /\ docs = {} /\ EndPoll /\ UNCHANGED inflight
                        /\ \/ state' = [state EXCEPT !.off = 2 * last] /\ Persisted(state')
                           \/ NotPersisted([state EXCEPT !.off = 2 * last]) /\ UNCHANGED state
<1>0. TypeOK /\ Control
  BY DEF TailInv
<1>1. pc = "read" /\ UNCHANGED log /\ UNCHANGED <<indexed, skipped>>
  BY DEF PollRead
<1>2. state \in Place /\ state.off \in Nat
  BY <1>0, <1>1 DEF TypeOK, Control, Place
<1>3. CASE Opened = {} /\ EndPoll /\ UNCHANGED <<state, inflight, disk, budget>>
  BY <1>1, <1>3
<1>4. ASSUME NEW g \in Opened, NEW ls, ls = LinesFrom(gens[g], state.off), NEW read,
             read = SubSeq(ls, 1, IF Len(ls) < BatchLines THEN Len(ls) ELSE BatchLines),
             read # <<>>
      PROVE  \E last : Reads(g, last, BatchOf(read).docs) /\ BatchOf(read).end = 2 * last
  <2> DEFINE f == gens[g]
             off == state.off
  <2>1. f \in LogFile /\ off \in Nat /\ ls = LinesFrom(f, off)
    BY <1>1, <1>2, <1>4, ReadsOwnFile
  <2> HIDE DEF f, off
  <2>0. ReadsTrue(f, off, read)
    BY <1>4, <2>1, ReadFacts
  <2>2. PICK last \in 1..Len(f.lines) :
            /\ off < 2 * last
            /\ read[Len(read)].end = 2 * last
            /\ \A l \in Range(read) : l.event # Junk =>
                  /\ l.event \in Event
                  /\ \E n \in 1..last : l.event = f.lines[n] /\ l.off = 2 * (n - 1)
            /\ \A n \in 1..last : \/ f.lines[n] = Junk
                                  \/ 2 * (n - 1) < off
                                  \/ \E l \in Range(read) : l.event = f.lines[n]
    BY <2>0, Zenon DEF ReadsTrue
  <2>3. /\ BatchOf(read).end = read[Len(read)].end
        /\ BatchOf(read).docs = {[ino |-> source.ino, off |-> l.off, event |-> l.event] :
                                    l \in {m \in Range(read) : m.event # Junk}}
    BY DEF BatchOf
  <2> DEFINE docs == BatchOf(read).docs
  <2>4. ASSUME NEW d \in docs
        PROVE  \E n \in 1..last :
                  d = [ino |-> source.ino, off |-> 2 * (n - 1), event |-> f.lines[n]]
                  /\ f.lines[n] \in Event
    <3>1. PICK l \in Range(read) :
             l.event # Junk /\ d = [ino |-> source.ino, off |-> l.off, event |-> l.event]
      BY <2>3, <2>4
    <3>2. l.event \in Event /\ \E n \in 1..last : l.event = f.lines[n] /\ l.off = 2 * (n - 1)
      BY <2>2, <3>1, Zenon
    <3>3. PICK n \in 1..last : l.event = f.lines[n] /\ l.off = 2 * (n - 1)
      BY <3>2
    <3> QED
      BY <3>1, <3>2, <3>3, Zenon
  <2>5. ASSUME NEW n \in 1..last, f.lines[n] # Junk, ~(2 * (n - 1) < off)
        PROVE  \E d \in docs : d.event = f.lines[n]
    <3>1. PICK l \in Range(read) : l.event = f.lines[n]
      BY <2>2, <2>5, Zenon
    <3>2. [ino |-> source.ino, off |-> l.off, event |-> l.event] \in docs
      BY <2>3, <2>5, <3>1
    <3>3. [ino |-> source.ino, off |-> l.off, event |-> l.event].event = f.lines[n]
      BY <3>1
    <3> QED
      BY <3>2, <3>3
  <2> HIDE DEF docs
  <2>6. Reads(g, last, docs)
    BY <2>2, <2>4, <2>5, Zenon DEF Reads, f, off
  <2> QED
    BY <2>2, <2>3, <2>6 DEF docs
<1>5. ASSUME NEW g \in Opened, NEW ls, ls = LinesFrom(gens[g], state.off), NEW read,
             read = SubSeq(ls, 1, IF Len(ls) < BatchLines THEN Len(ls) ELSE BatchLines),
             NEW b, b = BatchOf(read), Outcome(read, b)
      PROVE  \/ EndPoll /\ UNCHANGED <<state, inflight, disk, budget>>
             \/ \E last, docs :
                  /\ Reads(g, last, docs)
                  /\ \/ /\ batch' = docs /\ pc' = "ship"
                        /\ inflight' = [ino |-> source.ino, start |-> state.off, end |-> 2 * last]
                        /\ UNCHANGED <<state, current, source, disk, budget>>
                     \/ /\ docs = {} /\ EndPoll /\ UNCHANGED inflight
                        /\ \/ state' = [state EXCEPT !.off = 2 * last] /\ Persisted(state')
                           \/ NotPersisted([state EXCEPT !.off = 2 * last]) /\ UNCHANGED state
  <2>1. CASE read = <<>>
    BY <1>5, <2>1 DEF Outcome
  <2>2. CASE read # <<>>
    <3>1. PICK last : Reads(g, last, b.docs) /\ b.end = 2 * last
      BY <1>4, <1>5, <2>2
    <3> DEFINE docs == b.docs
    <3>2. \/ /\ batch' = docs /\ pc' = "ship"
             /\ inflight' = [ino |-> source.ino, start |-> state.off, end |-> 2 * last]
             /\ UNCHANGED <<state, current, source, disk, budget>>
          \/ /\ docs = {} /\ EndPoll /\ UNCHANGED inflight
             /\ \/ state' = [state EXCEPT !.off = 2 * last] /\ Persisted(state')
                \/ NotPersisted([state EXCEPT !.off = 2 * last]) /\ UNCHANGED state
      BY <1>5, <2>2, <3>1 DEF Outcome
    <3> HIDE DEF docs
    <3> QED
      BY <3>1, <3>2 DEF docs
  <2> QED
    BY <2>1, <2>2
<1> DEFINE ls(g) == LinesFrom(gens[g], state.off)
           read(g) == SubSeq(ls(g), 1, IF Len(ls(g)) < BatchLines THEN Len(ls(g)) ELSE BatchLines)
<1>6. CASE \E g \in Opened : Outcome(read(g), BatchOf(read(g)))
  <2>1. PICK g \in Opened : Outcome(read(g), BatchOf(read(g)))
    BY <1>6
  <2> QED
    BY <1>1, <1>5, <2>1
<1> QED
  BY <1>1, <1>3, <1>6 DEF PollRead, Outcome

LEMMA ReadTail ==
  ASSUME TailInv, PollRead
  PROVE  TailInv'
<1>0. TypeOK /\ InflightMatches /\ Directory /\ WrittenOnce /\ Control /\ Placed /\ OneDocument
  BY DEF TailInv
<1>1. pc = "read" /\ UNCHANGED log /\ UNCHANGED <<indexed, skipped>>
      /\ UNCHANGED <<gens, written, gone>>
  BY ReadCases DEF log
<1>2. inflight = None /\ batch = {} /\ state \in Place /\ state.off \in Nat /\ state.ino \in Inodes
      /\ disk \in Place \cup {None} /\ current \in Place \cup {None} /\ indexed \subseteq Document
      /\ skipped \subseteq Event /\ source.ino = state.ino
      /\ source \in [at : {"log", "rotated"}, ino : Inodes] \cup {None}
  BY <1>0, <1>1 DEF Control, TypeOK, Place
<1>3. Directory' /\ WrittenOnce'
  BY <1>0, <1>1, AgentLeavesLog
<1>4. CASE EndPoll /\ UNCHANGED <<state, inflight, disk, budget>>
  <2>1. pc' = "tick" /\ current' = None /\ source' = None /\ batch' = {}
        /\ UNCHANGED <<state, inflight, disk>> /\ faults' \in Nat /\ crashes' \in Nat
    BY <1>0, <1>4, Budgets DEF EndPoll
  <2>2. TypeOK'
    BY <1>0, <1>1, <1>2, <2>1, TypeOKKept
  <2>3. Control' /\ InflightMatches'
    BY <1>2, <2>1 DEF Control, Polling, InflightMatches
  <2>4. Placed' /\ OneDocument'
    BY <1>0, <1>1, <1>2, <2>1, AgentLeavesLog DEF Placed, OneDocument
  <2> QED
    BY <1>3, <2>2, <2>3, <2>4 DEF TailInv
<1>5. ASSUME NEW g \in Opened, NEW last, NEW docs, Reads(g, last, docs),
             batch' = docs, pc' = "ship",
             inflight' = [ino |-> source.ino, start |-> state.off, end |-> 2 * last],
             UNCHANGED <<state, current, source, disk, budget>>
      PROVE  TailInv'
  <2>1. g \in DOMAIN gens /\ gens[g] \in LogFile /\ gens[g].ino = state.ino
    BY <1>1, ReadsOwnFile
  <2>2. last \in 1..Len(gens[g].lines) /\ last \in Nat
    BY <1>5, <2>1, LogFileFacts DEF Reads
  <2>3. /\ docs \subseteq Document
        /\ \A d \in docs : \E n \in Slots(g) :
              d.event \in Event /\ Entry(g, n) = d.event /\ d.ino = gens[g].ino /\ d.off = 2 * (n - 1)
    BY <1>1, <1>5, <2>2, BatchPlaced DEF Reads
  <2>4. /\ inflight' \in Token /\ inflight' # None
        /\ inflight'.ino = state.ino /\ inflight'.start = state.off
    BY <1>2, <1>5, <2>2, TextFacts DEF Token
  <2>5. faults' \in Nat /\ crashes' \in Nat
    BY <1>0, <1>5, Budgets
  <2>6. TypeOK'
    BY <1>0, <1>1, <1>2, <1>5, <2>3, <2>4, <2>5, TypeOKKept
  <2>7. Control' /\ InflightMatches'
    BY <1>2, <1>5, <2>4, TextFacts DEF Control, Polling, InflightMatches
  <2>8. \A d \in docs, h \in DOMAIN gens : \A m \in Slots(h) :
          Entry(h, m) = d.event => d.ino = gens[h].ino /\ d.off = 2 * (m - 1)
    <3> SUFFICES ASSUME NEW d \in docs, NEW h \in DOMAIN gens, NEW m \in Slots(h), Entry(h, m) = d.event
                 PROVE  d.ino = gens[h].ino /\ d.off = 2 * (m - 1)
      OBVIOUS
    <3>1. PICK n \in Slots(g) : d.event \in Event /\ Entry(g, n) = d.event /\ d.ino = gens[g].ino
                                /\ d.off = 2 * (n - 1)
      BY <2>3
    <3>2. g = h /\ n = m
      BY <1>0, <2>1, <3>1 DEF WrittenOnce
    <3> QED
      BY <3>1, <3>2
  <2>9. \A d \in docs : d.event <= written
    BY <1>0, <2>1, <2>3 DEF WrittenOnce
  <2>10. Placed'
    BY <1>0, <1>1, <1>2, <1>5, <2>8, <2>9, AgentLeavesLog DEF Placed
  <2>11. ASSUME NEW d \in docs, NEW e \in docs \cup indexed, d.event = e.event PROVE d = e
    <3>1. PICK n \in Slots(g) : d.event \in Event /\ Entry(g, n) = d.event /\ d.ino = gens[g].ino
                                /\ d.off = 2 * (n - 1)
      BY <2>3
    <3>2. e.ino = gens[g].ino /\ e.off = 2 * (n - 1)
      BY <1>0, <2>1, <2>8, <2>11, <3>1 DEF Placed
    <3>3. d \in Document /\ e \in Document
      BY <1>2, <2>3
    <3> QED
      BY <2>11, <3>1, <3>2, <3>3, DocumentsEqual
  <2>12. OneDocument'
    BY <1>0, <1>1, <1>5, <2>11 DEF OneDocument
  <2> QED
    BY <1>3, <2>6, <2>7, <2>10, <2>12 DEF TailInv
<1>6. ASSUME NEW g \in Opened, NEW last, NEW docs, Reads(g, last, docs), docs = {}, EndPoll,
             UNCHANGED inflight,
             \/ state' = [state EXCEPT !.off = 2 * last] /\ Persisted(state')
             \/ NotPersisted([state EXCEPT !.off = 2 * last]) /\ UNCHANGED state
      PROVE  TailInv'
  <2>1. gens[g] \in LogFile
    BY <1>1, ReadsOwnFile
  <2>2. last \in Nat
    BY <1>6, <2>1, LogFileFacts DEF Reads
  <2>3. [state EXCEPT !.off = 2 * last] \in Place
    BY <1>2, <2>2 DEF Place
  <2>4. state' \in Place /\ disk' \in Place \cup {None} /\ faults' \in Nat /\ crashes' \in Nat
    BY <1>0, <1>2, <1>6, <2>3, Budgets
  <2>5. pc' = "tick" /\ current' = None /\ source' = None /\ batch' = {} /\ inflight' = None
    BY <1>2, <1>6 DEF EndPoll
  <2>6. TypeOK'
    BY <1>0, <1>1, <1>2, <2>4, <2>5, TypeOKKept
  <2>7. Control' /\ InflightMatches'
    BY <2>5 DEF Control, Polling, InflightMatches
  <2>8. Placed' /\ OneDocument'
    BY <1>0, <1>1, <1>2, <2>5, AgentLeavesLog DEF Placed, OneDocument
  <2> QED
    BY <1>3, <2>6, <2>7, <2>8 DEF TailInv
<1> QED
  BY <1>4, <1>5, <1>6, ReadCases

LEMMA ShipTail ==
  ASSUME TailInv, Ship
  PROVE  TailInv'
<1>0. TypeOK /\ InflightMatches /\ Directory /\ WrittenOnce /\ Control /\ Placed /\ OneDocument
  BY DEF TailInv
<1>1. pc = "ship" /\ UNCHANGED log /\ UNCHANGED <<state, disk, skipped>> /\ UNCHANGED <<gens, written, gone>>
  BY DEF Ship, log
<1>2. Directory' /\ WrittenOnce'
  BY <1>0, <1>1, AgentLeavesLog
<1>3. /\ inflight # None /\ state # None /\ state \in Place /\ disk \in Place \cup {None}
      /\ inflight \in Token \cup {None} /\ current \in Place \cup {None} /\ indexed \subseteq Document
      /\ batch \subseteq Document /\ skipped \subseteq Event
      /\ source \in [at : {"log", "rotated"}, ino : Inodes] \cup {None}
  BY <1>0, <1>1 DEF Control, TypeOK
<1>4. indexed' \cup batch' \subseteq indexed \cup batch /\ indexed' \subseteq Document
      /\ faults' \in Nat /\ crashes' \in Nat
      /\ \/ pc' = "ack" /\ UNCHANGED <<inflight, current, source, batch>>
         \/ pc' = "tick" /\ inflight' = None /\ current' = None /\ source' = None /\ batch' = {}
  <2>1. CASE indexed' = indexed \cup batch /\ pc' = "ack" /\ UNCHANGED <<inflight, poll, budget>>
    BY <1>0, <1>3, <2>1, Budgets DEF poll
  <2>2. CASE /\ Fault("bulk") /\ \E applied \in SUBSET batch : indexed' = indexed \cup applied
             /\ inflight' = None /\ EndPoll
    BY <1>0, <1>3, <2>2, Budgets DEF EndPoll
  <2> QED
    BY <2>1, <2>2 DEF Ship
<1>5. TypeOK'
  BY <1>0, <1>1, <1>3, <1>4, TypeOKKept
<1>6. Control' /\ InflightMatches'
  BY <1>0, <1>1, <1>3, <1>4 DEF Control, Polling, InflightMatches
<1>7. Placed' /\ OneDocument'
  BY <1>0, <1>1, <1>4, AgentLeavesLog DEF Placed, OneDocument
<1> QED
  BY <1>2, <1>5, <1>6, <1>7 DEF TailInv

LEMMA AckTail ==
  ASSUME TailInv, Ack
  PROVE  TailInv'
<1>0. TypeOK /\ InflightMatches /\ Directory /\ WrittenOnce /\ Control /\ Placed /\ OneDocument
  BY DEF TailInv
<1>1. pc = "ack" /\ UNCHANGED log /\ UNCHANGED <<indexed, skipped>> /\ UNCHANGED <<gens, written, gone>>
      /\ pc' = "tick" /\ current' = None /\ source' = None /\ batch' = {}
  BY DEF Ack, log, EndPoll
<1>2. Directory' /\ WrittenOnce'
  BY <1>0, <1>1, AgentLeavesLog
<1>3. /\ inflight # None /\ inflight \in Token /\ state # None /\ state \in Place
      /\ disk \in Place \cup {None} /\ indexed \subseteq Document /\ skipped \subseteq Event
  BY <1>0, <1>1 DEF Control, TypeOK
<1>4. Acked \in Place
  BY <1>3 DEF Acked, Place, Token
<1>5. \/ state' = Acked /\ inflight' = None
      \/ UNCHANGED <<state, inflight>>
  BY DEF Ack
<1>6. disk' \in Place \cup {None} /\ faults' \in Nat /\ crashes' \in Nat
  BY <1>0, <1>3, <1>4, Budgets DEF Ack
<1>7. TypeOK'
  BY <1>0, <1>1, <1>3, <1>4, <1>5, <1>6, TypeOKKept
<1>8. Control' /\ InflightMatches'
  BY <1>0, <1>1, <1>3, <1>4, <1>5 DEF Control, Polling, InflightMatches
<1>9. Placed' /\ OneDocument'
  BY <1>0, <1>1, AgentLeavesLog DEF Placed, OneDocument
<1> QED
  BY <1>2, <1>7, <1>8, <1>9 DEF TailInv

LEMMA OtherTail ==
  ASSUME TailInv, Start \/ Tick \/ Crash \/ UNCHANGED vars
  PROVE  TailInv'
<1>0. TypeOK /\ InflightMatches /\ Directory /\ WrittenOnce /\ Control /\ Placed /\ OneDocument
  BY DEF TailInv
<1>1. UNCHANGED log /\ UNCHANGED <<indexed, skipped, disk>> /\ UNCHANGED <<gens, written, gone>>
  BY DEF Start, Tick, Crash, vars, log
<1>2. Directory' /\ WrittenOnce'
  BY <1>0, <1>1, AgentLeavesLog
<1>3. /\ state \in Place \cup {None} /\ disk \in Place \cup {None} /\ inflight \in Token \cup {None}
      /\ current \in Place \cup {None} /\ indexed \subseteq Document
      /\ batch \subseteq Document /\ skipped \subseteq Event
      /\ source \in [at : {"log", "rotated"}, ino : Inodes] \cup {None}
      /\ faults \in Nat /\ crashes \in Nat
      /\ pc \in {"down", "tick", "stat", "choose", "read", "ship", "ack"}
  BY <1>0 DEF TypeOK
<1>4. CASE Start
  <2>1. pc = "down" /\ pc' = "tick" /\ state' = disk /\ inflight = None
        /\ UNCHANGED <<inflight, current, source, batch, faults, crashes>> /\ batch = {}
    BY <1>0, <1>4 DEF Start, poll, budget, Control
  <2>2. TypeOK'
    BY <1>0, <1>1, <1>3, <2>1, TypeOKKept
  <2>3. Control' /\ InflightMatches' /\ Placed' /\ OneDocument'
    BY <1>0, <1>1, <2>1, AgentLeavesLog DEF Control, Polling, InflightMatches, Placed, OneDocument
  <2> QED
    BY <1>2, <2>2, <2>3 DEF TailInv
<1>5. CASE Tick
  <2>1. pc = "tick" /\ pc' = "stat" /\ inflight = None
        /\ UNCHANGED <<state, inflight, current, source, batch, faults, crashes>> /\ batch = {}
    BY <1>0, <1>5 DEF Tick, poll, budget, Control
  <2>2. TypeOK'
    BY <1>0, <1>1, <1>3, <2>1, TypeOKKept
  <2>3. Control' /\ InflightMatches' /\ Placed' /\ OneDocument'
    BY <1>0, <1>1, <2>1, AgentLeavesLog DEF Control, Polling, InflightMatches, Placed, OneDocument
  <2> QED
    BY <1>2, <2>2, <2>3 DEF TailInv
<1>6. CASE Crash
  <2>1. pc' = "down" /\ state' = None /\ inflight' = None /\ current' = None /\ source' = None
        /\ batch' = {} /\ faults' = faults /\ crashes' = crashes + 1
    BY <1>6 DEF Crash
  <2>2. TypeOK'
    BY <1>0, <1>1, <1>3, <2>1, TypeOKKept
  <2>3. Control' /\ InflightMatches' /\ Placed' /\ OneDocument'
    BY <1>0, <1>1, <2>1, AgentLeavesLog DEF Control, Polling, InflightMatches, Placed, OneDocument
  <2> QED
    BY <1>2, <2>2, <2>3 DEF TailInv
<1>7. CASE UNCHANGED vars
  BY <1>0, <1>7 DEF vars, log, poll, budget, TailInv, TypeOK, InflightMatches, Directory,
                    WrittenOnce, Control, Polling, At, Placed, OneDocument, Slots, Entry
<1> QED
  BY <1>4, <1>5, <1>6, <1>7

LEMMA InitTail == Init => TailInv
<1> SUFFICES ASSUME Init PROVE TailInv
    OBVIOUS
<1>1. gens = <<>> /\ DOMAIN gens = {} /\ gens \in Seq(LogFile)
  BY DEF Init
<1>2. Directory /\ WrittenOnce
  BY <1>1 DEF Directory, WrittenOnce
<1>3. TypeOK
  BY <1>1, TextFacts DEF Init, TypeOK
<1>4. Control /\ InflightMatches /\ Placed /\ OneDocument
  BY DEF Init, Control, Polling, InflightMatches, Placed, OneDocument
<1> QED
  BY <1>2, <1>3, <1>4 DEF TailInv

LEMMA StepTail ==
  ASSUME NoRace, TailInv, [Next]_vars
  PROVE  TailInv'
BY SteamTail, StatTail, ChooseTail, ReadTail, ShipTail, AckTail, OtherTail DEF Next, Working

\* poll, line_identity and ack_success: whatever fails, wherever the agent dies, and
\* whether or not Steam removes, tears or truncates its files or rotates twice, an
\* event gets one document however often it is sent, and an acknowledgement is never
\* refused, as long as the log is not rotated between the stat and the open of one poll.
THEOREM TailerCorrect ==
  ASSUME NoRace
  PROVE  Spec => []TailerInv
<1>1. TailInv => TailerInv
  <2>1. OneDocument => NoDuplicate
    BY DEF OneDocument, NoDuplicate
  <2> QED
    BY <2>1 DEF TailInv, TailerInv
<1>2. TailInv /\ [Next]_vars => TailInv'
  BY StepTail
<1> QED
  BY <1>1, <1>2, InitTail, PTL DEF Spec
-----------------------------------------------------------------------------
(* The checkpoint *)

NoDouble == "double" \notin Env

LEMMA DealtGrows ==
  ASSUME indexed \subseteq indexed', skipped \subseteq skipped', gone \subseteq gone'
  PROVE  Dealt \subseteq Dealt'
BY DEF Dealt, Delivered

LEMMA PlaceFacts ==
  ASSUME TypeOK, NEW s \in {state, disk} \ {None}
  PROVE  s \in Place /\ s.ino \in Inodes /\ s.off \in Nat
BY DEF TypeOK, Place

LEMMA SteamChecks ==
  ASSUME NoDouble, TailInv, ClearInv, Steam, NEW s \in {state, disk} \ {None}
  PROVE  Recent(s)' /\ Clear(s)'
<1>0. TypeOK /\ Directory /\ Recent(s) /\ Clear(s)
  BY DEF TailInv, ClearInv
<1>1. s.off \in Nat
  BY <1>0, PlaceFacts
<1>2. UNCHANGED <<pc, state, inflight, poll, disk, indexed, skipped, budget>>
  BY <1>0, SteamCases
<1>3. Dealt \subseteq Dealt'
  <2>1. gone \subseteq gone'
    BY <1>0, SteamCases DEF Changes, Writes, Ends, Rotates, Removes, Truncates, Creates
  <2> QED
    BY <1>2, <2>1, DealtGrows
<1>4. PICK c \in DOMAIN gens : /\ gens[c].ino = s.ino /\ c >= Len(gens) - 1
                               /\ At("log") = {} => c = Len(gens)
  BY <1>0 DEF Recent
<1>5. /\ \A h \in DOMAIN gens : h < c => \A n \in DOMAIN gens[h].lines : gens[h].lines[n] \in Dealt
      /\ \A n \in Slots(c) : 2 * (n - 1) < s.off => Entry(c, n) \in Dealt
      /\ s.off <= Length(gens[c]) \/ Length(gens[c]) = 0
  BY <1>0, <1>4 DEF Clear
<1>6. CASE \E g \in DOMAIN gens : \E f \in LogFile :
              gens' = [gens EXCEPT ![g] = f] /\ f.ino = gens[g].ino /\ Changes(g, f)
  <2>1. PICK g \in DOMAIN gens, f \in LogFile :
          gens' = [gens EXCEPT ![g] = f] /\ f.ino = gens[g].ino /\ Changes(g, f)
    BY <1>6
  <2>2. /\ DOMAIN gens' = DOMAIN gens /\ gens'[g] = f /\ gens[g] \in LogFile /\ gens[c] \in LogFile
        /\ Len(gens') = Len(gens) /\ Len(gens) \in Nat /\ DOMAIN gens = 1..Len(gens)
        /\ \A h \in DOMAIN gens : h # g => gens'[h] = gens[h]
    BY <1>0, <1>4, <2>1, FileChanged
  <2>3. \A h \in DOMAIN gens : gens'[h].ino = gens[h].ino
    BY <2>1, <2>2
  <2>4. Recent(s)'
    <3>1. CASE gens[g].at = "log" /\ f.at # "log"
      <4>1. Rotates(g, f)
        BY <2>1, <3>1 DEF Changes, Writes, Ends, Removes, Truncates
      <4>2. gens[g].ino = s.ino
        BY <4>1 DEF Rotates, Reached, NoDouble
      <4>3. g = Len(gens)
        BY <1>0, <3>1 DEF Directory
      <4>4. g >= Len(gens') - 1
        BY <2>2, <4>3
      <4> QED
        BY <2>2, <2>3, <4>2, <4>3, <4>4 DEF Recent
    <3>2. CASE ~(gens[g].at = "log" /\ f.at # "log")
      <4>1. At("log") # {} => At("log")' # {}
        BY <2>2, <3>2 DEF At
      <4> QED
        BY <1>4, <2>2, <2>3, <4>1 DEF Recent
    <3> QED
      BY <3>1, <3>2
  <2>5. ASSUME NEW h \in DOMAIN gens, h < c, NEW n \in DOMAIN gens'[h].lines
        PROVE  gens'[h].lines[n] \in Dealt'
    <3>1. CASE h # g
      BY <1>3, <1>5, <2>2, <2>5, <3>1
    <3>2. CASE h = g
      <4>1. gens[g].at # "log"
        BY <1>0, <1>4, <2>2, <2>5, <3>2 DEF Directory
      <4>2. f.lines = gens[g].lines
        BY <2>1, <4>1 DEF Changes, Writes, Ends, Rotates, Removes, Truncates
      <4> QED
        BY <1>3, <1>5, <2>2, <2>5, <3>2, <4>2
    <3> QED
      BY <3>1, <3>2
  <2>6. /\ \A n \in Slots(c)' : 2 * (n - 1) < s.off => Entry(c, n)' \in Dealt'
        /\ s.off <= Length(gens'[c]) \/ Length(gens'[c]) = 0
    <3>1. CASE c # g \/ Rotates(g, f) \/ Removes(g, f)
      <4>1. gens'[c].lines = gens[c].lines /\ gens'[c].partial = gens[c].partial
        BY <2>2, <3>1 DEF Rotates, Removes
      <4>2. Slots(c)' = Slots(c) /\ Length(gens'[c]) = Length(gens[c])
        BY <4>1 DEF Slots, Length
      <4>3. \A n \in Slots(c) : Entry(c, n)' = Entry(c, n)
        BY <4>1 DEF Entry
      <4> QED
        BY <1>3, <1>5, <4>2, <4>3
    <3>2. CASE c = g /\ Truncates(g, f)
      <4>1. f.lines = <<>> /\ f.partial = None /\ Len(f.lines) = 0
        BY <3>2 DEF Truncates
      <4>2. Length(f) = 0
        BY <4>1, LogFileFacts
      <4>3. \A n \in Slots(c)' : n = 1
        BY <2>2, <3>2, <4>1 DEF Slots
      <4>4. Entry(c, 1)' = None
        BY <2>2, <3>2, <4>1 DEF Entry
      <4> QED
        BY <2>2, <3>2, <4>2, <4>3, <4>4 DEF Dealt
    <3>3. CASE c = g /\ Writes(g, f)
      <4> DEFINE k == Len(gens[c].lines)
      <4>1. k \in Nat /\ Length(gens[c]) = 2 * k /\ f.lines = gens[c].lines
            /\ s.off <= Length(gens[c])
        <5>1. gens[c].partial = None /\ f.lines = gens[c].lines /\ ~Unnoticed(gens[c])
          BY <3>3 DEF Writes
        <5>2. Length(gens[c]) \in Nat /\ Length(gens[c]) = 2 * k /\ k \in Nat
          BY <2>2, <5>1, LogFileFacts
        <5>3. ~(s.off > Length(gens[c]))
          BY <1>4, <5>1 DEF Unnoticed
        <5> QED
          BY <1>1, <5>1, <5>2, <5>3
      <4>2. Slots(c)' = 1..(k + 1) /\ Slots(c) = 1..(k + 1)
        BY <2>2, <3>3, <4>1 DEF Slots
      <4>3. \A n \in 1..k : Entry(c, n)' = Entry(c, n)
        <5> SUFFICES ASSUME NEW n \in 1..k PROVE Entry(c, n)' = Entry(c, n)
          OBVIOUS
        <5>1. n # k + 1
          BY <4>1
        <5> QED
          BY <2>2, <3>3, <4>1, <5>1 DEF Entry
      <4>4. 2 * k <= Length(f) /\ Length(f) \in Nat
        BY <4>1, LogFileFacts
      <4> HIDE DEF k
      <4>5. ASSUME NEW n \in 1..(k + 1), 2 * (n - 1) < s.off PROVE n \in 1..k
        BY <1>1, <4>1, <4>5
      <4>6. s.off <= Length(f)
        BY <1>1, <4>1, <4>4
      <4>7. \A n \in 1..k : n \in Slots(c)
        BY <4>1, <4>2
      <4> QED
        BY <1>3, <1>5, <2>2, <3>3, <4>2, <4>3, <4>5, <4>6, <4>7
    <3>4. CASE c = g /\ Ends(g, f)
      <4> DEFINE k == Len(gens[c].lines)
      <4>1. k \in Nat /\ Length(gens[c]) = 2 * k + 1 /\ f.partial = None
            /\ f.lines = Append(gens[c].lines, gens[c].partial)
            /\ gens[c].lines \in Seq(Texts) /\ gens[c].partial \in Texts
        BY <2>2, <3>4, LogFileFacts DEF Ends
      <4>2. /\ Len(f.lines) = k + 1 /\ f.lines[k + 1] = gens[c].partial
            /\ \A n \in 1..k : f.lines[n] = gens[c].lines[n]
        BY <4>1
      <4>3. Length(f) = 2 * (k + 1)
        BY <4>1, <4>2, LogFileFacts
      <4>4. Slots(c)' = 1..(k + 2) /\ Slots(c) = 1..(k + 1)
        BY <2>2, <3>4, <4>1, <4>2 DEF Slots
      <4>5. ASSUME NEW n \in 1..(k + 2)
            PROVE  Entry(c, n)' = None \/ (n \in 1..(k + 1) /\ Entry(c, n)' = Entry(c, n))
        <5>1. /\ Entry(c, n)' = IF n = Len(f.lines) + 1 THEN f.partial ELSE f.lines[n]
              /\ Entry(c, n) = IF n = k + 1 THEN gens[c].partial ELSE gens[c].lines[n]
          BY <2>2, <3>4 DEF Entry
        <5> HIDE DEF k
        <5>2. CASE n = k + 2
          BY <4>1, <4>2, <5>1, <5>2
        <5>3. CASE n = k + 1
          BY <4>1, <4>2, <5>1, <5>3
        <5>4. CASE n \in 1..k
          BY <4>1, <4>2, <5>1, <5>4
        <5> QED
          BY <4>1, <5>2, <5>3, <5>4
      <4> HIDE DEF k
      <4>6. s.off <= Length(f)
        BY <1>1, <1>5, <4>1, <4>3
      <4>7. None \in Dealt'
        BY DEF Dealt
      <4>8. ASSUME NEW n \in Slots(c)', 2 * (n - 1) < s.off PROVE Entry(c, n)' \in Dealt'
        BY <1>3, <1>5, <4>4, <4>5, <4>7, <4>8
      <4> QED
        BY <2>2, <3>4, <4>6, <4>8
    <3> QED
      BY <2>1, <3>1, <3>2, <3>3, <3>4 DEF Changes
  <2>7. \A g1 \in DOMAIN gens' : gens'[g1].ino = s.ino => g1 = c
    BY <1>0, <1>4, <2>2, <2>3 DEF Directory
  <2>8. Clear(s)'
    BY <2>2, <2>5, <2>6, <2>7 DEF Clear
  <2> QED
    BY <2>4, <2>8
<1>7. CASE \E f \in LogFile : Creates(f)
  <2>1. PICK f \in LogFile : Creates(f)
    BY <1>7
  <2>2. /\ gens' = Append(gens, f) /\ f.at = "log" /\ At("log") = {}
        /\ \A h \in DOMAIN gens : gens[h].ino # f.ino
    BY <2>1 DEF Creates
  <2>3. /\ DOMAIN gens' = DOMAIN gens \cup {Len(gens) + 1} /\ gens'[Len(gens) + 1] = f
        /\ \A h \in DOMAIN gens : gens'[h] = gens[h]
        /\ Len(gens') = Len(gens) + 1 /\ Len(gens) \in Nat /\ DOMAIN gens = 1..Len(gens)
    BY <1>0, <2>2, FileAdded
  <2>4. c = Len(gens) /\ c >= Len(gens') - 1 /\ At("log")' # {}
    BY <1>4, <2>2, <2>3 DEF At
  <2>5. Recent(s)'
    BY <1>4, <2>3, <2>4 DEF Recent
  <2>6. \A g1 \in DOMAIN gens' : gens'[g1].ino = s.ino => g1 = c
    BY <1>0, <1>4, <2>2, <2>3 DEF Directory
  <2>7. Slots(c)' = Slots(c) /\ \A n \in Slots(c) : Entry(c, n)' = Entry(c, n)
    BY <1>4, <2>3 DEF Slots, Entry
  <2>8. \A h \in DOMAIN gens' : h < c => h \in DOMAIN gens
    BY <1>4, <2>3
  <2>9. Clear(s)'
    BY <1>3, <1>4, <1>5, <2>3, <2>6, <2>7, <2>8 DEF Clear
  <2> QED
    BY <2>5, <2>9
<1> QED
  BY <1>0, <1>6, <1>7, SteamCases

LEMMA SteamClear ==
  ASSUME NoDouble, TailInv, ClearInv, Steam
  PROVE  ClearInv'
<1>0. TypeOK /\ Directory /\ Control /\ RemovedGone /\ Covered
  BY DEF TailInv, ClearInv
<1>1. UNCHANGED <<pc, state, inflight, batch, disk, indexed, skipped>>
  BY <1>0, SteamCases DEF poll
<1>2. Dealt \subseteq Dealt'
  <2>1. gone \subseteq gone'
    BY <1>0, SteamCases DEF Changes, Writes, Ends, Rotates, Removes, Truncates, Creates
  <2> QED
    BY <1>1, <2>1, DealtGrows
<1>3. \A s \in {state', disk'} \ {None} : (Recent(s) /\ Clear(s))'
  BY <1>1, SteamChecks
<1>4. RemovedGone' /\ Covered'
  <2>1. CASE \E g \in DOMAIN gens : \E f \in LogFile :
              gens' = [gens EXCEPT ![g] = f] /\ f.ino = gens[g].ino /\ Changes(g, f)
    <3>1. PICK g \in DOMAIN gens, f \in LogFile :
            gens' = [gens EXCEPT ![g] = f] /\ f.ino = gens[g].ino /\ Changes(g, f)
      BY <2>1
    <3>2. /\ DOMAIN gens' = DOMAIN gens /\ gens'[g] = f /\ gens[g] \in LogFile
          /\ \A h \in DOMAIN gens : h # g => gens'[h] = gens[h]
      BY <1>0, <3>1, FileChanged
    <3>3. f.at = "gone" => \A n \in DOMAIN f.lines : f.lines[n] \in Dealt'
      <4> HAVE f.at = "gone"
      <4>1. f.lines = gens[g].lines /\ gone' = gone \cup EventsIn(gens[g])
        BY <3>1 DEF Changes, Writes, Ends, Rotates, Removes, Truncates
      <4>2. \A n \in DOMAIN gens[g].lines : gens[g].lines[n] \in EventsIn(gens[g]) \cup {Junk}
        BY <3>2, EventsInFacts
      <4> QED
        BY <4>1, <4>2 DEF Dealt, Delivered
    <3>4. RemovedGone'
      BY <1>0, <1>2, <3>2, <3>3 DEF RemovedGone
    <3>5. ASSUME pc \in {"ship", "ack"}, gens[g].ino = state.ino
          PROVE  /\ inflight.end <= 2 * Len(f.lines)
                 /\ \A n \in DOMAIN f.lines : 2 * (n - 1) < inflight.end
                        => f.lines[n] \in Dealt' \cup {d.event : d \in batch}
      <4>1. inflight # None /\ inflight \in Token /\ inflight.end \in Nat
        BY <1>0, <3>5 DEF Control, TypeOK, Token
      <4>2. /\ inflight.end <= 2 * Len(gens[g].lines)
            /\ \A n \in DOMAIN gens[g].lines : 2 * (n - 1) < inflight.end
                   => gens[g].lines[n] \in Dealt' \cup {d.event : d \in batch}
        BY <1>0, <1>2, <3>5 DEF Covered
      <4>3. CASE f.lines = gens[g].lines
        BY <4>2, <4>3
      <4>4. CASE Ends(g, f)
        <5> DEFINE k == Len(gens[g].lines)
        <5>1. k \in Nat /\ gens[g].lines \in Seq(Texts) /\ gens[g].partial \in Texts
              /\ f.lines = Append(gens[g].lines, gens[g].partial)
          BY <3>2, <4>4, LogFileFacts DEF Ends
        <5>2. /\ Len(f.lines) = k + 1 /\ DOMAIN f.lines = 1..(k + 1)
              /\ \A n \in 1..k : f.lines[n] = gens[g].lines[n] /\ n \in DOMAIN gens[g].lines
          BY <5>1
        <5>3. inflight.end <= 2 * k
          BY <4>2
        <5> HIDE DEF k
        <5>4. inflight.end <= 2 * (k + 1)
              /\ \A n \in 1..(k + 1) : 2 * (n - 1) < inflight.end => n \in 1..k
          BY <4>1, <5>1, <5>3
        <5> QED
          BY <4>2, <5>2, <5>4
      <4> QED
        BY <3>1, <4>1, <4>3, <4>4 DEF Changes, Writes, Rotates, Removes, Truncates
    <3>6. Covered'
      BY <1>0, <1>1, <1>2, <3>1, <3>2, <3>5 DEF Covered
    <3> QED
      BY <3>4, <3>6
  <2>2. CASE \E f \in LogFile : Creates(f)
    <3>1. PICK f \in LogFile : Creates(f)
      BY <2>2
    <3>2. gens' = Append(gens, f) /\ f.at = "log" /\ \A h \in DOMAIN gens : gens[h].ino # f.ino
      BY <3>1 DEF Creates
    <3>3. /\ DOMAIN gens' = DOMAIN gens \cup {Len(gens) + 1} /\ gens'[Len(gens) + 1] = f
          /\ \A h \in DOMAIN gens : gens'[h] = gens[h]
      BY <1>0, <3>2, FileAdded
    <3>4. RemovedGone'
      BY <1>0, <1>2, <3>2, <3>3 DEF RemovedGone
    <3>5. pc \in {"ship", "ack"} => f.ino # state.ino
      BY <1>0, <3>2 DEF Control, ClearInv, Recent
    <3>6. Covered'
      BY <1>0, <1>1, <1>2, <3>3, <3>5 DEF Covered
    <3> QED
      BY <3>4, <3>6
  <2> QED
    BY <1>0, <2>1, <2>2, SteamCases
<1> QED
  BY <1>3, <1>4 DEF ClearInv

\* What the agent's own steps keep of a checkpoint.
LEMMA AgentKeeps ==
  ASSUME UNCHANGED log, indexed \subseteq indexed', skipped \subseteq skipped'
  PROVE  /\ \A s : Recent(s)' <=> Recent(s)
         /\ \A s : Clear(s) => Clear(s)'
         /\ RemovedGone => RemovedGone'
         /\ Dealt \subseteq Dealt'
<1>1. gens' = gens /\ gone' = gone
  BY DEF log
<1>2. Dealt \subseteq Dealt'
  BY <1>1, DealtGrows
<1>3. \A s : Recent(s)' <=> Recent(s)
  BY <1>1 DEF Recent, At
<1>4. \A g, n : Slots(g)' = Slots(g) /\ Entry(g, n)' = Entry(g, n)
  BY <1>1 DEF Slots, Entry
<1>5. \A s : Clear(s) => Clear(s)'
  BY <1>1, <1>2, <1>4 DEF Clear
<1>6. RemovedGone => RemovedGone'
  BY <1>1, <1>2 DEF RemovedGone
<1> QED
  BY <1>2, <1>3, <1>5, <1>6

\* A new checkpoint at the start of the file at the log path is clear when the old
\* one's file has nothing left.
LEMMA NextFileClear ==
  ASSUME TailInv, ClearInv, pc = "choose", state.ino # current.ino,
         \A g \in DOMAIN gens : gens[g].ino = state.ino =>
            \A n \in DOMAIN gens[g].lines : gens[g].lines[n] \in Dealt,
         NEW p, p = [ino |-> current.ino, off |-> 0]
  PROVE  Recent(p) /\ Clear(p)
<1>0. TypeOK /\ Directory /\ Control
  BY DEF TailInv
<1>1. p.ino = current.ino /\ p.off = 0
  OBVIOUS
<1>2. state # None /\ Recent(state) /\ Clear(state)
  BY <1>0 DEF Control, ClearInv
<1>3. PICK l \in DOMAIN gens : gens[l].at = "log" /\ gens[l].ino = current.ino
  BY <1>0 DEF Control, Polling, At
<1>4. l = Len(gens) /\ At("log") # {} /\ DOMAIN gens = 1..Len(gens) /\ Len(gens) \in Nat
  BY <1>0, <1>3 DEF Directory, At
<1>5. PICK c \in DOMAIN gens : gens[c].ino = state.ino /\ c >= Len(gens) - 1
  BY <1>2 DEF Recent
<1>6. c # l
  BY <1>3, <1>5
<1>7. \A h \in DOMAIN gens : h < l => h < c \/ h = c
  BY <1>4, <1>5, <1>6
<1>8. \A h \in DOMAIN gens : h < l => \A n \in DOMAIN gens[h].lines : gens[h].lines[n] \in Dealt
  BY <1>2, <1>5, <1>7 DEF Clear
<1>9. Length(gens[l]) \in Nat
  BY <1>0, DirectoryTyped
<1>10. \A n \in Slots(l) : ~(2 * (n - 1) < 0)
  <2>1. Len(gens[l].lines) \in Nat
    BY <1>0, DirectoryTyped
  <2> QED
    BY <2>1 DEF Slots
<1>11. \A g \in DOMAIN gens : gens[g].ino = p.ino => g = l
  BY <1>0, <1>1, <1>3 DEF Directory
<1>12. Clear(p)
  BY <1>1, <1>8, <1>9, <1>10, <1>11 DEF Clear
<1>13. Len(gens) >= Len(gens) - 1
  BY <1>4
<1>14. Recent(p)
  BY <1>1, <1>3, <1>4, <1>13 DEF Recent
<1> QED
  BY <1>12, <1>14

LEMMA ClearFrom ==
  ASSUME ClearInv, UNCHANGED log, indexed \subseteq indexed', skipped \subseteq skipped', Covered',
         \A s \in {state', disk'} \ {None} : s \in {state, disk} \/ (Recent(s) /\ Clear(s))'
  PROVE  ClearInv'
<1>1. /\ \A s : Recent(s)' <=> Recent(s)
      /\ \A s : Clear(s) => Clear(s)'
      /\ RemovedGone => RemovedGone'
  BY AgentKeeps
<1>2. \A s \in {state', disk'} \ {None} : (Recent(s) /\ Clear(s))'
  BY <1>1 DEF ClearInv
<1> QED
  BY <1>1, <1>2 DEF ClearInv

\* The checkpoint a write may leave, whether it fails or not.
LEMMA Writing ==
  \A s : Persisted(s) \/ NotPersisted(s) => disk' \in {disk, s}
BY DEF Persisted, NotPersisted

\* The first checkpoint is past the events it counts as skipped.
LEMMA FirstClear ==
  ASSUME TailInv, UNCHANGED log, NEW g \in At("log"), NEW p,
         p = [ino |-> gens[g].ino, off |-> Length(gens[g])],
         skipped' = skipped \cup UNION {EventsIn(gens[h]) : h \in 1..g}
  PROVE  (Recent(p) /\ Clear(p))'
<1>0. TypeOK /\ Directory /\ gens' = gens
  BY DEF TailInv, log
<1>1. p.ino = gens[g].ino /\ p.off = Length(gens[g])
  OBVIOUS
<1>2. g \in DOMAIN gens /\ gens[g].at = "log" /\ g = Len(gens) /\ Len(gens) \in Nat
      /\ DOMAIN gens = 1..Len(gens)
  BY <1>0 DEF Directory, At
<1>3. \A h \in DOMAIN gens : h < g \/ h = g => EventsIn(gens[h]) \subseteq skipped'
  BY <1>2
<1>4. \A h \in DOMAIN gens : gens[h] \in LogFile
  BY <1>0, DirectoryTyped
<1>5. skipped' \cup {Junk, None} \subseteq Dealt'
  BY DEF Dealt, Delivered
<1>6. \A h \in DOMAIN gens : h < g => \A n \in DOMAIN gens[h].lines : gens[h].lines[n] \in Dealt'
  BY <1>3, <1>4, <1>5, EventsInFacts
<1>7. \A n \in Slots(g) : Entry(g, n) \in Dealt'
  <2> SUFFICES ASSUME NEW n \in Slots(g) PROVE Entry(g, n) \in Dealt'
    OBVIOUS
  <2>1. Len(gens[g].lines) \in Nat /\ DOMAIN gens[g].lines = 1..Len(gens[g].lines)
    BY <1>2, <1>4, LogFileFacts
  <2>2. n = Len(gens[g].lines) + 1 \/ n \in DOMAIN gens[g].lines
    BY <2>1 DEF Slots
  <2>3. Entry(g, n) \in EventsIn(gens[g]) \cup {Junk, None}
    BY <1>2, <1>4, <2>2, EventsInFacts DEF Entry
  <2> QED
    BY <1>2, <1>3, <1>5, <2>3
<1>8. Length(gens[g]) \in Nat
  BY <1>2, <1>4, LogFileFacts
<1>9. \A h \in DOMAIN gens : gens[h].ino = p.ino => h = g
  BY <1>0, <1>1, <1>2 DEF Directory
<1>10. \A h, n : Slots(h)' = Slots(h) /\ Entry(h, n)' = Entry(h, n)
  BY <1>0 DEF Slots, Entry
<1>11. Clear(p)'
  BY <1>0, <1>1, <1>6, <1>7, <1>8, <1>9, <1>10 DEF Clear
<1>12. Len(gens) >= Len(gens) - 1
  BY <1>2
<1>13. Recent(p)'
  BY <1>0, <1>1, <1>2, <1>12 DEF Recent, At
<1> QED
  BY <1>11, <1>13

LEMMA StatClear ==
  ASSUME TailInv, ClearInv, PollStat
  PROVE  ClearInv'
<1>0. TypeOK /\ Directory
  BY DEF TailInv
<1>1. UNCHANGED log /\ UNCHANGED indexed
  BY DEF PollStat
<1>2. Covered'
  BY DEF PollStat, EndPoll, Covered
<1>3. skipped \subseteq skipped'
  BY DEF PollStat
<1>4. \A s \in {state', disk'} \ {None} : s \in {state, disk} \/ (Recent(s) /\ Clear(s))'
  <2>1. CASE UNCHANGED <<state, disk>>
    BY <2>1
  <2>2. ASSUME NEW g \in At("log"), state' = [ino |-> gens[g].ino, off |-> Length(gens[g])],
               skipped' = skipped \cup UNION {EventsIn(gens[h]) : h \in 1..g},
               disk' \in {disk, state'}
        PROVE  \A s \in {state', disk'} \ {None} : s \in {state, disk} \/ (Recent(s) /\ Clear(s))'
    <3>1. PICK p : p = [ino |-> gens[g].ino, off |-> Length(gens[g])]
      OBVIOUS
    <3>2. (Recent(p) /\ Clear(p))'
      BY <1>1, <2>2, <3>1, FirstClear
    <3> QED
      BY <2>2, <3>1, <3>2
  <2>3. ASSUME state # None, state' = [state EXCEPT !.off = 0], disk' \in {disk, state'}
        PROVE  \A s \in {state', disk'} \ {None} : s \in {state, disk} \/ (Recent(s) /\ Clear(s))'
    <3>1. PICK p : p = [state EXCEPT !.off = 0]
      OBVIOUS
    <3>2. state \in Place
      BY <1>0, <2>3 DEF TypeOK
    <3>3. p.ino = state.ino /\ p.off = 0
      BY <3>1, <3>2 DEF Place
    <3>4. Recent(state) /\ Clear(state)
      BY <2>3 DEF ClearInv
    <3>5. Recent(p)
      BY <3>3, <3>4 DEF Recent
    <3>6. ASSUME NEW g \in DOMAIN gens
          PROVE  0 <= Length(gens[g]) /\ \A n \in Slots(g) : ~(2 * (n - 1) < 0)
      <4>1. Len(gens[g].lines) \in Nat /\ Length(gens[g]) \in Nat
        BY <1>0, DirectoryTyped
      <4> QED
        BY <4>1 DEF Slots
    <3>7. Clear(p)
      BY <3>3, <3>4, <3>6 DEF Clear
    <3>8. (Recent(p) /\ Clear(p))'
      BY <1>1, <1>3, <3>5, <3>7, AgentKeeps
    <3> QED
      BY <2>3, <3>1, <3>8
  <2> QED
    BY <2>1, <2>2, <2>3, Writing DEF PollStat
<1> QED
  BY <1>1, <1>2, <1>3, <1>4, ClearFrom

LEMMA ChooseClear ==
  ASSUME TailInv, ClearInv, PollChoose
  PROVE  ClearInv'
<1>0. TypeOK /\ Directory /\ Control /\ RemovedGone
  BY DEF TailInv, ClearInv
<1>1. pc = "choose" /\ UNCHANGED log /\ UNCHANGED <<indexed, skipped>>
  BY DEF PollChoose
<1>2. Covered'
  BY DEF PollChoose, EndPoll, Covered
<1>3. state # None /\ state \in Place /\ state.off \in Nat /\ Clear(state)
  BY <1>0, <1>1 DEF Control, TypeOK, Place, ClearInv
<1>4. PICK l \in DOMAIN gens : gens[l].at = "log" /\ gens[l].ino = current.ino
  BY <1>0, <1>1 DEF Control, Polling, At
<1>5. ASSUME state.ino # current.ino,
             (Found = {}) \/ \E g \in Found : Drained(gens[g]),
             NEW g \in DOMAIN gens, gens[g].ino = state.ino
      PROVE  \A n \in DOMAIN gens[g].lines : gens[g].lines[n] \in Dealt
  <2>1. CASE gens[g].at = "rotated"
    <3>1. \A h \in Found : h = g
      BY <1>0, <1>5 DEF Found, At, Directory
    <3>2. g \in Found
      BY <1>5, <2>1 DEF Found, At
    <3>3. Length(gens[g]) <= state.off
      BY <1>5, <3>1, <3>2 DEF Drained
    <3>4. gens[g] \in LogFile
      BY <1>0, DirectoryTyped
    <3>5. /\ Len(gens[g].lines) \in Nat /\ DOMAIN gens[g].lines = 1..Len(gens[g].lines)
          /\ Length(gens[g]) >= 2 * Len(gens[g].lines) /\ Length(gens[g]) \in Nat
      BY <3>4, LogFileFacts
    <3>6. \A n \in 1..Len(gens[g].lines) :
             /\ 2 * (n - 1) < state.off /\ n \in Slots(g) /\ n # Len(gens[g].lines) + 1
      BY <1>3, <3>3, <3>5 DEF Slots
    <3>7. \A n \in 1..Len(gens[g].lines) : Entry(g, n) = gens[g].lines[n]
      BY <3>6 DEF Entry
    <3> QED
      BY <1>3, <1>5, <3>5, <3>6, <3>7 DEF Clear
  <2>2. CASE gens[g].at = "log"
    <3>1. g = l
      BY <1>0, <1>4, <2>2 DEF Directory
    <3> QED
      BY <1>4, <1>5, <3>1
  <2>3. CASE gens[g].at = "gone"
    BY <1>0, <2>3 DEF RemovedGone
  <2>4. gens[g].at \in {"log", "rotated", "gone"}
    BY <1>0, DirectoryTyped
  <2> QED
    BY <2>1, <2>2, <2>3, <2>4
<1>6. \A s \in {state', disk'} \ {None} : s \in {state, disk} \/ (Recent(s) /\ Clear(s))'
  <2>1. CASE UNCHANGED <<state, disk>>
    BY <2>1
  <2>2. ASSUME state.ino # current.ino, (Found = {}) \/ \E g \in Found : Drained(gens[g]),
               state' = [ino |-> current.ino, off |-> 0], disk' \in {disk, state'}
        PROVE  \A s \in {state', disk'} \ {None} : s \in {state, disk} \/ (Recent(s) /\ Clear(s))'
    <3>1. PICK p : p = [ino |-> current.ino, off |-> 0]
      OBVIOUS
    <3>2. Recent(p) /\ Clear(p)
      BY <1>1, <1>5, <2>2, <3>1, NextFileClear
    <3>3. (Recent(p) /\ Clear(p))'
      BY <1>1, <3>2, AgentKeeps
    <3> QED
      BY <2>2, <3>1, <3>3
  <2> QED
    BY <2>1, <2>2, Writing DEF PollChoose
<1> QED
  BY <1>1, <1>2, <1>6, ClearFrom
\* A checkpoint moved within its file, past complete lines that are dealt with, is clear.
LEMMA MovedClear ==
  ASSUME TailInv, Recent(state), Clear(state), NEW p, p.ino = state.ino, p.off \in Nat,
         \A g \in DOMAIN gens : gens[g].ino = state.ino =>
            /\ p.off <= 2 * Len(gens[g].lines)
            /\ \A n \in DOMAIN gens[g].lines : 2 * (n - 1) < p.off => gens[g].lines[n] \in Dealt
  PROVE  Recent(p) /\ Clear(p)
<1>1. Recent(p)
  BY DEF Recent
<1>2. ASSUME NEW g \in DOMAIN gens, gens[g].ino = state.ino
      PROVE  /\ p.off <= Length(gens[g])
             /\ \A n \in Slots(g) : 2 * (n - 1) < p.off => Entry(g, n) \in Dealt
  <2> DEFINE k == Len(gens[g].lines)
  <2>1. /\ k \in Nat /\ DOMAIN gens[g].lines = 1..k
        /\ Length(gens[g]) >= 2 * k /\ Length(gens[g]) \in Nat
    BY DirectoryTyped, LogFileFacts DEF TailInv
  <2>2. p.off <= 2 * k
    BY <1>2
  <2>3. \A n \in 1..k : 2 * (n - 1) < p.off => gens[g].lines[n] \in Dealt
    BY <1>2, <2>1
  <2>4. Slots(g) = 1..(k + 1)
    BY DEF Slots
  <2>5. \A n : n # k + 1 => Entry(g, n) = gens[g].lines[n]
    BY DEF Entry
  <2> HIDE DEF k
  <2>6. \A n \in 1..(k + 1) : 2 * (n - 1) < p.off => n \in 1..k /\ n # k + 1
    BY <2>1, <2>2
  <2>7. p.off <= Length(gens[g])
    BY <2>1, <2>2
  <2>8. \A n \in Slots(g) : 2 * (n - 1) < p.off => Entry(g, n) \in Dealt
    BY <2>3, <2>4, <2>5, <2>6, Zenon
  <2> QED
    BY <2>7, <2>8
<1>3. Clear(p)
  BY <1>2 DEF Clear
<1> QED
  BY <1>1, <1>3

LEMMA ReadClear ==
  ASSUME TailInv, ClearInv, PollRead
  PROVE  ClearInv'
<1>0. TypeOK /\ Directory /\ Control
  BY DEF TailInv
<1>1. pc = "read" /\ UNCHANGED log /\ UNCHANGED <<indexed, skipped>>
  BY ReadCases
<1>2. state # None /\ state \in Place /\ state.off \in Nat /\ Recent(state) /\ Clear(state)
  BY <1>0, <1>1 DEF Control, TypeOK, Place, ClearInv
<1>3. CASE EndPoll /\ UNCHANGED <<state, disk>>
  <2>1. Covered'
    BY <1>3 DEF EndPoll, Covered
  <2> QED
    BY <1>1, <1>3, <2>1, ClearFrom
<1>4. ASSUME NEW c \in Opened, NEW last, NEW docs, Reads(c, last, docs),
             NEW g \in DOMAIN gens, gens[g].ino = state.ino
      PROVE  /\ last \in Nat /\ 2 * last <= 2 * Len(gens[g].lines)
             /\ \A n \in DOMAIN gens[g].lines : 2 * (n - 1) < 2 * last
                   => gens[g].lines[n] \in Dealt \cup {d.event : d \in docs}
  <2>1. g = c
    BY <1>0, <1>1, <1>4, ReadsOwnFile DEF Directory
  <2> DEFINE k == Len(gens[g].lines)
  <2>2. k \in Nat /\ DOMAIN gens[g].lines = 1..k
    BY <1>0, DirectoryTyped, LogFileFacts
  <2>3. last \in 1..k
    BY <1>4, <2>1 DEF Reads
  <2>4. \A n \in 1..last : \/ gens[g].lines[n] = Junk
                           \/ 2 * (n - 1) < state.off
                           \/ \E d \in docs : d.event = gens[g].lines[n]
    BY <1>4, <2>1 DEF Reads
  <2>5. Slots(g) = 1..(k + 1) /\ \A n : n # k + 1 => Entry(g, n) = gens[g].lines[n]
    BY DEF Slots, Entry
  <2>6. \A n \in Slots(g) : 2 * (n - 1) < state.off => Entry(g, n) \in Dealt
    BY <1>2, <1>4 DEF Clear
  <2> HIDE DEF k
  <2>7. last \in Nat /\ 2 * last <= 2 * k
    BY <2>2, <2>3
  <2>8. ASSUME NEW n \in 1..k, 2 * (n - 1) < 2 * last
        PROVE  gens[g].lines[n] \in Dealt \cup {d.event : d \in docs}
    <3>1. n \in 1..last /\ n \in 1..(k + 1) /\ n # k + 1
      BY <2>2, <2>3, <2>8
    <3>2. Junk \in Dealt
      BY DEF Dealt
    <3> QED
      BY <2>4, <2>5, <2>6, <3>1, <3>2
  <2> QED
    BY <2>2, <2>7, <2>8 DEF k
<1>5. ASSUME NEW c \in Opened, NEW last, NEW docs, Reads(c, last, docs),
             batch' = docs, pc' = "ship",
             inflight' = [ino |-> source.ino, start |-> state.off, end |-> 2 * last],
             UNCHANGED <<state, disk>>
      PROVE  ClearInv'
  <2>1. inflight'.end = 2 * last /\ gens' = gens
    BY <1>1, <1>5 DEF log
  <2>2. Dealt \subseteq Dealt'
    BY <1>1, AgentKeeps
  <2>3. \A g \in DOMAIN gens : gens[g].ino = state.ino =>
           /\ 2 * last <= 2 * Len(gens[g].lines)
           /\ \A n \in DOMAIN gens[g].lines : 2 * (n - 1) < 2 * last
                 => gens[g].lines[n] \in Dealt' \cup {d.event : d \in docs}
    BY <1>4, <1>5, <2>2
  <2>4. Covered'
    BY <1>5, <2>1, <2>3 DEF Covered
  <2> QED
    BY <1>1, <1>5, <2>4, ClearFrom
<1>6. ASSUME NEW c \in Opened, NEW last, NEW docs, Reads(c, last, docs), docs = {}, EndPoll,
             \/ state' = [state EXCEPT !.off = 2 * last] /\ Persisted(state')
             \/ NotPersisted([state EXCEPT !.off = 2 * last]) /\ UNCHANGED state
      PROVE  ClearInv'
  <2>1. PICK p : p = [state EXCEPT !.off = 2 * last]
    OBVIOUS
  <2>2. p.ino = state.ino /\ p.off = 2 * last
    BY <1>2, <2>1 DEF Place
  <2>3. last \in Nat
    BY <1>2, <1>4, <1>6 DEF Recent
  <2>4. \A g \in DOMAIN gens : gens[g].ino = state.ino =>
            /\ p.off <= 2 * Len(gens[g].lines)
            /\ \A n \in DOMAIN gens[g].lines : 2 * (n - 1) < p.off => gens[g].lines[n] \in Dealt
    BY <1>4, <1>6, <2>2
  <2>5. p.off \in Nat
    BY <2>2, <2>3
  <2>6. Recent(p) /\ Clear(p)
    BY <1>2, <2>2, <2>4, <2>5, MovedClear
  <2>7. (Recent(p) /\ Clear(p))'
    BY <1>1, <2>6, AgentKeeps
  <2>8. Covered'
    BY <1>6 DEF EndPoll, Covered
  <2>9. state' \in {state, p} /\ disk' \in {disk, p}
    BY <1>6, <2>1, Writing
  <2> QED
    BY <1>1, <2>7, <2>8, <2>9, ClearFrom
<1> QED
  BY <1>3, <1>5, <1>6, ReadCases

LEMMA ShipClear ==
  ASSUME TailInv, ClearInv, Ship
  PROVE  ClearInv'
<1>1. pc = "ship" /\ UNCHANGED log /\ UNCHANGED <<state, disk, skipped>> /\ indexed \subseteq indexed'
  BY DEF Ship
<1>2. Dealt \subseteq Dealt' /\ gens' = gens
  BY <1>1, AgentKeeps DEF log
<1>3. Covered'
  <2>1. CASE pc' = "ack" /\ indexed' = indexed \cup batch /\ UNCHANGED <<inflight, poll>>
    BY <1>1, <1>2, <2>1 DEF ClearInv, Covered, poll
  <2>2. CASE EndPoll
    BY <2>2 DEF EndPoll, Covered
  <2> QED
    BY <2>1, <2>2 DEF Ship
<1> QED
  BY <1>1, <1>3, ClearFrom

LEMMA AckClear ==
  ASSUME TailInv, ClearInv, Ack
  PROVE  ClearInv'
<1>0. TypeOK /\ Control /\ Covered
  BY DEF TailInv, ClearInv
<1>1. pc = "ack" /\ UNCHANGED log /\ UNCHANGED <<indexed, skipped>> /\ EndPoll
  BY DEF Ack
<1>2. /\ state # None /\ state \in Place /\ Recent(state) /\ Clear(state)
      /\ inflight.end \in Nat
  BY <1>0, <1>1 DEF Control, TypeOK, Place, Token, ClearInv
<1>3. Covered'
  BY <1>1 DEF EndPoll, Covered
<1>4. PICK p : p = Acked
  OBVIOUS
<1>5. p.ino = state.ino /\ p.off = inflight.end
  BY <1>2, <1>4 DEF Acked, Place
<1>6. {d.event : d \in batch} \subseteq Dealt
  BY <1>0, <1>1 DEF Covered, Dealt, Delivered
<1>7. Recent(p) /\ Clear(p)
  <2>1. \A g \in DOMAIN gens : gens[g].ino = state.ino =>
            /\ p.off <= 2 * Len(gens[g].lines)
            /\ \A n \in DOMAIN gens[g].lines : 2 * (n - 1) < p.off => gens[g].lines[n] \in Dealt
    BY <1>0, <1>1, <1>5, <1>6 DEF Covered
  <2> QED
    BY <1>2, <1>5, <2>1, MovedClear
<1>8. (Recent(p) /\ Clear(p))'
  BY <1>1, <1>7, AgentKeeps
<1>9. state' \in {state, p} /\ disk' \in {disk, p}
  BY <1>4, Writing DEF Ack
<1> QED
  BY <1>1, <1>3, <1>8, <1>9, ClearFrom

LEMMA OtherClear ==
  ASSUME TailInv, ClearInv, Start \/ Tick \/ Crash \/ UNCHANGED vars
  PROVE  ClearInv'
<1>1. UNCHANGED log /\ UNCHANGED <<indexed, skipped, disk>> /\ state' \in {state, disk, None}
  BY DEF Start, Tick, Crash, vars
<1>2. Covered'
  <2>1. CASE Start \/ Tick \/ Crash
    BY <2>1 DEF Start, Tick, Crash, Covered
  <2>2. CASE UNCHANGED vars
    BY <2>2 DEF vars, log, poll, ClearInv, Covered, Dealt, Delivered
  <2> QED
    BY <2>1, <2>2
<1> QED
  BY <1>1, <1>2, ClearFrom

LEMMA InitClear == Init => ClearInv
BY DEF Init, ClearInv, RemovedGone, Covered

LEMMA StepClear ==
  ASSUME NoDouble, TailInv, ClearInv, [Next]_vars
  PROVE  ClearInv'
BY SteamClear, StatClear, ChooseClear, ReadClear, ShipClear, AckClear, OtherClear
   DEF Next, Working

LEMMA ClearAcked ==
  ASSUME TailInv, ClearInv
  PROVE  CheckpointAcked
<1> SUFFICES ASSUME disk # None, NEW e \in Behind PROVE e \in Delivered
  BY DEF CheckpointAcked
<1>0. TypeOK /\ Directory /\ Clear(disk)
  BY DEF TailInv, ClearInv
<1>1. e \in Event /\ disk.off \in Nat
  BY <1>0 DEF Behind, TypeOK, Place
<1>2. PICK h \in DOMAIN gens : \E n \in DOMAIN gens[h].lines :
        /\ gens[h].lines[n] = e
        /\ \E g \in DOMAIN gens : gens[g].ino = disk.ino /\ (h < g \/ (h = g /\ 2 * n <= disk.off))
  BY DEF Behind
<1>3. PICK n \in DOMAIN gens[h].lines, g \in DOMAIN gens :
        /\ gens[h].lines[n] = e /\ gens[g].ino = disk.ino
        /\ h < g \/ (h = g /\ 2 * n <= disk.off)
  BY <1>2
<1>4. e \in Dealt
  <2>1. CASE h < g
    BY <1>0, <1>3, <2>1 DEF Clear
  <2>2. CASE h = g /\ 2 * n <= disk.off
    <3> DEFINE k == Len(gens[g].lines)
    <3>1. k \in Nat /\ n \in 1..k
      BY <1>0, <1>3, <2>2, DirectoryTyped, LogFileFacts
    <3>2. Slots(g) = 1..(k + 1) /\ (n # k + 1 => Entry(g, n) = gens[g].lines[n])
      BY DEF Slots, Entry
    <3> HIDE DEF k
    <3>3. n \in 1..(k + 1) /\ n # k + 1 /\ 2 * (n - 1) < disk.off
      BY <1>1, <2>2, <3>1
    <3> QED
      BY <1>0, <1>3, <2>2, <3>2, <3>3 DEF Clear
  <2> QED
    BY <1>3, <2>1, <2>2
<1> QED
  BY <1>1, <1>4, TextFacts DEF Dealt

\* ack_success, poll and persist: wherever the agent dies, whichever write or bulk
\* request fails and whatever Steam removes, tears or truncates, a restart from the
\* durable checkpoint skips no event that is neither indexed nor destroyed, as long as
\* Steam does not rotate within a poll or twice before the tailer reaches the new file.
THEOREM CheckpointNeverAhead ==
  ASSUME NoRace, NoDouble
  PROVE  Spec => []CheckpointAcked
<1>1. TailInv /\ ClearInv => CheckpointAcked
  BY ClearAcked
<1>2. (TailInv /\ ClearInv) /\ [Next]_vars => (TailInv /\ ClearInv)'
  BY StepTail, StepClear
<1>3. Init => TailInv /\ ClearInv
  BY InitTail, InitClear
<1> QED
  BY <1>1, <1>2, <1>3, PTL DEF Spec
=============================================================================
