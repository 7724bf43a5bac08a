-------------------------- MODULE CollectorsProofs --------------------------
(***************************************************************************)
(* Proofs about Collectors, for any cores, disks, interfaces, processes,   *)
(* sessions, logs and workloads, and any bounds.                           *)
(*                                                                         *)
(* The invariant has a part for each group of collectors.  Rates: what a   *)
(* snapshot's line has gained is what its source has counted, for every    *)
(* source that stayed; and while none went or came, the order of the lines *)
(* is the same.  The stream client: the process selected was started; a    *)
(* baseline is of the process selected, its total is the engine time then  *)
(* of the contexts it names, and while it is compared with these are open  *)
(* in no process but that one, because a context is open in one only and a *)
(* PID that was used again is seen before the next comparison.  The        *)
(* frame collector: the reader's thread holds what its step needs and ends *)
(* only when told to; a flag that is up has a reader that was not told to  *)
(* stop, or one that took a line after it was; once the buffer was taken   *)
(* in a game it holds at most one sample of another, and none while the    *)
(* reader is about to add one; and what was shipped of the log in use lies *)
(* before the position in it.                                              *)
(*                                                                         *)
(* The order of the lines is a recursive function of the file; what it     *)
(* returns is proved by induction over the numbers up to a bound, stated   *)
(* for a set of numbers (UpTo).                                            *)
(***************************************************************************)
EXTENDS Collectors, SequenceTheorems, FiniteSetTheorems, WellFoundedInduction,
        NaturalsInduction, TLAPS

-----------------------------------------------------------------------------
(* Induction *)

\* A set of numbers that is not empty has a least element.
LEMMA Least ==
  ASSUME NEW T, T \subseteq Nat, T # {}
  PROVE  \E m \in T : \A k \in T : m <= k
<1>1. \E x \in T : \A y \in T : ~(<<y, x>> \in OpToRel(<, Nat))
  BY NatLessThanWellFounded, WFMin
<1>2. PICK x \in T : \A y \in T : ~(<<y, x>> \in OpToRel(<, Nat))
  BY <1>1
<1>3. ASSUME NEW y \in T PROVE x <= y
  <2>1. SUFFICES ASSUME y < x PROVE FALSE
    OBVIOUS
  <2>2. <<y, x>> \in Nat \X Nat /\ <<y, x>>[1] = y /\ <<y, x>>[2] = x
    OBVIOUS
  <2>3. <<y, x>> \in OpToRel(<, Nat)
    BY <2>1, <2>2 DEF OpToRel
  <2> QED
    BY <1>2, <2>3
<1> QED
  BY <1>3

\* Induction over the natural numbers up to a bound, for a set.
LEMMA UpTo ==
  ASSUME NEW N \in Nat, NEW S, 0 \in S, \A k \in 0..(N - 1) : k \in S => k + 1 \in S
  PROVE  0..N \subseteq S
<1> DEFINE T == {k \in 0..N : k \notin S}
<1> SUFFICES ASSUME T # {} PROVE FALSE
    OBVIOUS
<1>1. T \subseteq Nat
  OBVIOUS
<1>2. PICK m \in T : \A k \in T : m <= k
  BY <1>1, Least
<1>3. m \in 0..N /\ m \notin S /\ m # 0
  BY <1>2
<1>4. m - 1 \in 0..(N - 1) /\ m - 1 \in S
  BY <1>2, <1>3
<1> QED
  BY <1>3, <1>4

\* The smaller of two numbers.
LEMMA MinTwo ==
  ASSUME NEW a \in Int, NEW b \in Int
  PROVE  Min({a, b}) = IF a <= b THEN a ELSE b
<1> DEFINE m == IF a <= b THEN a ELSE b
<1>1. m \in {a, b} /\ \A y \in {a, b} : m <= y
  OBVIOUS
<1>2. \A x \in {a, b} : (\A y \in {a, b} : x <= y) => x = m
  OBVIOUS
<1>3. Min({a, b}) = CHOOSE x \in {a, b} : \A y \in {a, b} : x <= y
  BY DEF Min
<1> HIDE DEF m
<1>4. Min({a, b}) = m
  BY <1>1, <1>2, <1>3
<1> QED
  BY <1>4 DEF m

LEMMA MaxTwo ==
  ASSUME NEW a \in Int, NEW b \in Int
  PROVE  Max({a, b}) = IF a >= b THEN a ELSE b
<1> DEFINE m == IF a >= b THEN a ELSE b
<1>1. m \in {a, b} /\ \A y \in {a, b} : m >= y
  OBVIOUS
<1>2. \A x \in {a, b} : (\A y \in {a, b} : x >= y) => x = m
  OBVIOUS
<1>3. Max({a, b}) = CHOOSE x \in {a, b} : \A y \in {a, b} : x >= y
  BY DEF Max
<1> HIDE DEF m
<1>4. Max({a, b}) = m
  BY <1>1, <1>2, <1>3
<1> QED
  BY <1>4 DEF m

LEMMA MinMember ==
  ASSUME NEW T, T \subseteq Nat, T # {}
  PROVE  Min(T) \in T
<1>1. \E m \in T : \A k \in T : m <= k
  BY Least
<1> QED
  BY <1>1 DEF Min

-----------------------------------------------------------------------------
(* The lines of a file *)

\* What upto[n] of Listed is, as equations.
LEMMA ListedUnfolds ==
  ASSUME NEW file, Len(file) \in Nat, NEW S
  PROVE  \E L : /\ Listed(file, S) = L[Len(file)] /\ L[0] = <<>>
                /\ \A n \in 1..Len(file) :
                      L[n] = IF file[n] \in S THEN Append(L[n - 1], file[n]) ELSE L[n - 1]
<1> DEFINE N == Len(file)
           Step(n, v) == IF file[n] \in S THEN Append(v, file[n]) ELSE v
           Is(g, k) == g = [n \in 0..k |-> IF n = 0 THEN <<>> ELSE Step(n, g[n - 1])]
           L == CHOOSE g : Is(g, N)
           T == {k \in 0..N : \E g : Is(g, k)}
<1>1. Listed(file, S) = L[N]
  BY DEF Listed
<1> HIDE DEF N, Step
<1>0. N \in Nat
  BY DEF N
<1>2. 0 \in T
  <2>1. Is([n \in 0..0 |-> <<>>], 0)
    OBVIOUS
  <2> HIDE DEF Is
  <2>2. \E g : Is(g, 0)
    BY <2>1
  <2> QED
    BY <1>0, <2>2
<1>3. ASSUME NEW k \in 0..(N - 1), k \in T PROVE k + 1 \in T
  <2>1. PICK g : Is(g, k)
    BY <1>3
  <2> DEFINE h == [n \in 0..(k + 1) |-> IF n = k + 1 THEN Step(k + 1, g[k]) ELSE g[n]]
  <2>2. \A n \in 0..(k + 1) : h[n] = IF n = 0 THEN <<>> ELSE Step(n, h[n - 1])
    BY <1>0, <2>1
  <2>3. Is(h, k + 1)
    BY <1>0, <2>2
  <2> HIDE DEF Is, h
  <2>4. \E f : Is(f, k + 1)
    BY <2>3
  <2> QED
    BY <1>0, <2>4
<1> HIDE DEF T
<1>4. 0..N \subseteq T
  BY <1>0, <1>2, <1>3, UpTo
<1>5. Is(L, N)
  <2> HIDE DEF Is
  <2>1. \E g : Is(g, N)
    BY <1>0, <1>4 DEF T
  <2> QED
    BY <2>1
<1> HIDE DEF L
<1>6. L[0] = <<>> /\ \A n \in 1..N : L[n] = Step(n, L[n - 1])
  BY <1>0, <1>5
<1> QED
  BY <1>1, <1>6 DEF N, Step

\* The lines listed are lines of the file, and members of the set.
LEMMA ListedIn ==
  ASSUME NEW file, file \in Seq(Range(file)), NEW S
  PROVE  Listed(file, S) \in Seq(Range(file) \cap S)
<1>0. Len(file) \in Nat /\ \A n \in 1..Len(file) : file[n] \in Range(file)
  BY DEF Range
<1>1. PICK L : /\ Listed(file, S) = L[Len(file)] /\ L[0] = <<>>
               /\ \A n \in 1..Len(file) :
                     L[n] = IF file[n] \in S THEN Append(L[n - 1], file[n]) ELSE L[n - 1]
  BY <1>0, ListedUnfolds
<1> DEFINE N == Len(file)
           R == Range(file) \cap S
           T == {k \in 0..N : L[k] \in Seq(R)}
<1>2. 0 \in T
  <2> HIDE DEF R, N
  <2>1. L[0] \in Seq(R) /\ 0 \in 0..N
    BY <1>0, <1>1 DEF N
  <2> QED
    BY <2>1
<1>3. ASSUME NEW k \in 0..(N - 1), k \in T PROVE k + 1 \in T
  <2>1. k + 1 \in 1..N /\ k + 1 \in 0..N /\ (k + 1) - 1 = k /\ L[k] \in Seq(R)
    BY <1>0, <1>3
  <2>2. L[k + 1] = IF file[k + 1] \in S THEN Append(L[k], file[k + 1]) ELSE L[k]
    BY <1>1, <2>1
  <2>3. file[k + 1] \in Range(file)
    BY <1>0, <2>1
  <2>4. L[k + 1] \in Seq(R)
    BY <2>1, <2>2, <2>3
  <2> QED
    BY <2>1, <2>4
<1>4. 0..N \subseteq T
  <2> HIDE DEF T, N
  <2> QED
    BY <1>0, <1>2, <1>3, UpTo DEF N
<1> QED
  BY <1>0, <1>1, <1>4
-----------------------------------------------------------------------------
(* The rates *)

\* The meters and what they ever counted.
MetersOK ==
    /\ DOMAIN meters = Sources /\ DOMAIN moved = Sources
    /\ \A s \in Sources :
          /\ DOMAIN meters[s] = {"up", "idle", "count"} /\ DOMAIN moved[s] = {"idle", "count"}
          /\ meters[s].up \in BOOLEAN
          /\ meters[s].idle \in Nat /\ meters[s].count \in Nat /\ meters[s].idle <= meters[s].count
          /\ moved[s].idle \in Nat /\ moved[s].count \in Nat

\* Since snapshot p, line s has gained what the source has counted.
Gained(p, s, part) ==
    /\ p.lines[s][part] \in Nat /\ p.was[s][part] \in Nat
    /\ p.lines[s][part] <= meters[s][part]
    /\ meters[s][part] - p.lines[s][part] = moved[s][part] - p.was[s][part]

\* What a collector's snapshot still says of the machine.
SnapOK(c) ==
    LET p == prev[c] IN
    p # None =>
        /\ p.order \in Seq(Range(FileOf[c]))
        /\ \A s \in Range(p.order) \ replugged[c] :
              Gained(p, s, "idle") /\ Gained(p, s, "count")
        /\ Clean(c) => p.order = Listed(FileOf[c], Up(FileOf[c]))
        /\ p.snmp => p.retrans = p.sent

RatesInv ==
    /\ MetersOK
    /\ \A c \in RateCollectors : SnapOK(c) /\ replugged[c] \subseteq Sources
    /\ pc \in {"poll", "collect"} => rates = NoRates

LEMMA Files ==
  ASSUME NEW c \in RateCollectors
  PROVE  /\ FileOf[c] \in Seq(Range(FileOf[c])) /\ Range(FileOf[c]) \subseteq Sources
         /\ \A q \in Seq(Range(FileOf[c])) : Range(q) \subseteq Range(FileOf[c])
BY RatesAssumptions DEF RateCollectors, FileOf, Sources, Range

\* The order of the lines depends on nothing but which of them are up.
LEMMA SameOrder ==
  ASSUME NEW file, \A s \in Range(file) : meters'[s].up = meters[s].up
  PROVE  Up(file)' = Up(file)
BY DEF Up

LEMMA CountRates ==
  ASSUME RatesInv, NEW s \in Sources, NEW i \in BOOLEAN, Count(s, i), pc' = pc
  PROVE  RatesInv'
<1>1. /\ \A t \in Sources : /\ DOMAIN meters'[t] = DOMAIN meters[t] /\ DOMAIN moved'[t] = DOMAIN moved[t]
                            /\ meters'[t].up = meters[t].up
                            /\ t # s => meters'[t] = meters[t] /\ moved'[t] = moved[t]
      /\ meters'[s].count = meters[s].count + 1 /\ moved'[s].count = moved[s].count + 1
      /\ meters'[s].idle = (IF i THEN meters[s].idle + 1 ELSE meters[s].idle)
      /\ moved'[s].idle = (IF i THEN moved[s].idle + 1 ELSE moved[s].idle)
      /\ DOMAIN meters' = Sources /\ DOMAIN moved' = Sources
  BY DEF Count, RatesInv, MetersOK
<1>2. UNCHANGED <<retrans, prev, rates, replugged>>
  BY DEF Count
<1>3. MetersOK'
  BY <1>1 DEF RatesInv, MetersOK
<1>4. ASSUME NEW p, NEW t \in Sources, NEW part \in {"idle", "count"}, Gained(p, t, part)
      PROVE  Gained(p, t, part)'
  BY <1>1, <1>4 DEF Gained, RatesInv, MetersOK
<1>5. ASSUME NEW c \in RateCollectors PROVE SnapOK(c)'
  BY <1>1, <1>2, <1>4, SameOrder, Files DEF RatesInv, SnapOK, Clean
<1> QED
  BY <1>2, <1>3, <1>5 DEF RatesInv
\* A source that goes or comes is not compared before the next snapshot.
LEMMA ReplugRates ==
  ASSUME RatesInv, NEW s \in Sources, Replug(s), pc' = pc
  PROVE  RatesInv'
<1>1. /\ \A t \in Sources : t # s => meters'[t] = meters[t]
      /\ DOMAIN meters'[s] = {"up", "idle", "count"} /\ DOMAIN meters' = Sources
      /\ meters'[s].idle = 0 /\ meters'[s].count = 0
  BY DEF Replug, RatesInv, MetersOK
<1>a. meters'[s].up \in BOOLEAN
  <2>1. meters'[s].up = ~meters[s].up
    BY DEF Replug, RatesInv, MetersOK
  <2> QED
    BY <2>1
<1>2. UNCHANGED <<retrans, moved, prev, rates>>
  BY DEF Replug
<1>3. \A c \in RateCollectors : replugged'[c] = replugged[c] \cup {s}
  BY DEF Replug
<1>4. MetersOK'
  BY <1>1, <1>a, <1>2 DEF RatesInv, MetersOK
<1>5. ASSUME NEW p, NEW t \in Sources, t # s, NEW part \in {"idle", "count"}, Gained(p, t, part)
      PROVE  Gained(p, t, part)'
  BY <1>1, <1>2, <1>5 DEF Gained
<1>6. ASSUME NEW c \in RateCollectors PROVE SnapOK(c)' /\ replugged'[c] \subseteq Sources
  <2>1. Clean(c)' => Clean(c) /\ s \notin Range(FileOf[c])
    BY <1>3 DEF Clean
  <2>2. s \notin Range(FileOf[c]) => Up(FileOf[c])' = Up(FileOf[c])
    BY <1>1, SameOrder, Files
  <2> QED
    BY <1>2, <1>3, <1>5, <2>1, <2>2, Files DEF RatesInv, SnapOK
<1> QED
  BY <1>2, <1>4, <1>6 DEF RatesInv

LEMMA RetransmitRates == RatesInv /\ Retransmit /\ pc' = pc => RatesInv'
BY ZenonT(60) DEF Retransmit, RatesInv, MetersOK, SnapOK, Gained, Clean, Up

\* A new snapshot agrees with the machine.
LEMMA SnapshotFresh ==
  ASSUME MetersOK, NEW c \in RateCollectors, NEW snmp \in BOOLEAN, NEW p,
         p = Snapshot(FileOf[c], snmp)
  PROVE  /\ p.order \in Seq(Range(FileOf[c]))
         /\ p.order = Listed(FileOf[c], Up(FileOf[c]))
         /\ \A s \in Range(p.order) : /\ s \in Sources /\ p.lines[s] = meters[s]
                                      /\ Gained(p, s, "idle") /\ Gained(p, s, "count")
         /\ p.snmp => p.retrans = p.sent
         /\ p.at = clock /\ p.snmp = snmp /\ p.sent = retrans
<1> DEFINE order == Listed(FileOf[c], Up(FileOf[c]))
<1>1. order \in Seq(Range(FileOf[c]) \cap Up(FileOf[c]))
  BY Files, ListedIn
<1>2. order \in Seq(Range(FileOf[c])) /\ Range(order) \subseteq Sources
  <2> DEFINE A == Range(FileOf[c])
             B == Up(FileOf[c])
  <2>1. order \in Seq(A \cap B)
    BY <1>1
  <2> HIDE DEF order, A, B
  <2>2. order \in Seq(A)
    BY <2>1
  <2>3. Range(order) \subseteq A /\ A \subseteq Sources
    BY <2>2, Files DEF A
  <2> QED
    BY <2>2, <2>3 DEF A
<1>3. /\ p.order = order /\ p.lines = [s \in Range(order) |-> meters[s]]
      /\ p.retrans = (IF snmp THEN retrans ELSE 0) /\ p.snmp = snmp
      /\ p.at = clock /\ p.was = moved /\ p.sent = retrans
  BY DEF Snapshot
<1> HIDE DEF order
<1>4. ASSUME NEW s \in Range(order)
      PROVE  s \in Sources /\ p.lines[s] = meters[s] /\ Gained(p, s, "idle") /\ Gained(p, s, "count")
  BY <1>2, <1>3 DEF Gained, MetersOK
<1>5. p.snmp => p.retrans = p.sent
  BY <1>3
<1> QED
  BY <1>2, <1>3, <1>4, <1>5 DEF order

LEMMA CollectRatesInv ==
  ASSUME RatesInv, NEW stat \in BOOLEAN, NEW snmp \in BOOLEAN, CollectRates(stat, snmp), pc' = "select"
  PROVE  RatesInv'
<1>1. PICK cpu \in {Snapshot(Cores, TRUE)}, disk \in {Snapshot(Disks, TRUE)},
           net \in {Snapshot(Interfaces, snmp)} :
        /\ prev' = [cpu |-> IF stat THEN cpu ELSE prev.cpu,
                    storage |-> Keep(prev.storage, disk, StorageDoc(disk)),
                    network |-> Keep(prev.network, net, NetworkDoc(net))]
        /\ replugged' = [cpu |-> IF stat THEN {} ELSE replugged.cpu, storage |-> {}, network |-> {}]
        /\ UNCHANGED machine
  BY DEF CollectRates
<1>2. /\ prev'.cpu = (IF stat THEN cpu ELSE prev.cpu) /\ prev'.storage = disk /\ prev'.network = net
      /\ replugged'.cpu = (IF stat THEN {} ELSE replugged.cpu)
      /\ replugged'.storage = {} /\ replugged'.network = {}
      /\ UNCHANGED <<meters, retrans, moved>>
  BY <1>1 DEF Keep, machine
<1>3. /\ FileOf["cpu"] = Cores /\ FileOf["storage"] = Disks /\ FileOf["network"] = Interfaces
      /\ "cpu" \in RateCollectors /\ "storage" \in RateCollectors /\ "network" \in RateCollectors
      /\ RateCollectors = {"cpu", "storage", "network"}
  BY DEF FileOf, RateCollectors
<1>a. \A file : Up(file)' = Up(file)
  BY <1>2 DEF Up
<1>b. MetersOK /\ MetersOK'
  BY <1>2 DEF MetersOK, RatesInv
<1>4. ASSUME NEW c \in RateCollectors, NEW b \in BOOLEAN, prev'[c] = Snapshot(FileOf[c], b)
      PROVE  SnapOK(c)'
  <2> DEFINE p == Snapshot(FileOf[c], b)
  <2>1. /\ p.order \in Seq(Range(FileOf[c])) /\ p.order = Listed(FileOf[c], Up(FileOf[c]))
        /\ \A s \in Range(p.order) : Gained(p, s, "idle") /\ Gained(p, s, "count")
        /\ p.snmp => p.retrans = p.sent
    <3> HIDE DEF p
    <3> QED
      BY <1>b, SnapshotFresh DEF p
  <2> HIDE DEF p
  <2>2. prev'[c] = p
    BY <1>4 DEF p
  <2>3. \A s \in Range(p.order), part \in {"idle", "count"} :
           Gained(p, s, part) => /\ p.lines[s][part] \in Nat /\ p.was[s][part] \in Nat
                                 /\ p.lines[s][part] <= meters'[s][part]
                                 /\ meters'[s][part] - p.lines[s][part] = moved'[s][part] - p.was[s][part]
    BY <1>2 DEF Gained
  <2> QED
    BY <1>a, <2>1, <2>2, <2>3 DEF SnapOK, Gained
<1>5. SnapOK("storage")' /\ SnapOK("network")'
  BY <1>1, <1>2, <1>3, <1>4
<1>6. SnapOK("cpu")'
  <2>1. CASE stat
    BY <1>1, <1>2, <1>3, <1>4, <2>1
  <2>2. CASE ~stat
    BY <1>2, <1>3, <1>a, <2>2 DEF RatesInv, SnapOK, Gained, Clean
  <2> QED
    BY <2>1, <2>2
<1>7. \A c \in RateCollectors : replugged'[c] \subseteq Sources
  BY <1>2, <1>3 DEF RatesInv
<1> QED
  BY <1>3, <1>5, <1>6, <1>7, <1>b DEF RatesInv

\* A device found by its place is a line of the snapshot.
LEMMA FirstReal ==
  ASSUME NEW order, Len(order) \in Nat, DOMAIN order = 1..Len(order), first_real_device(order) # None
  PROVE  first_real_device(order) \in Range(order)
<1>1. Real(order) # {} /\ Real(order) \subseteq Nat
  BY DEF first_real_device, Real
<1>2. Min(Real(order)) \in Real(order)
  BY <1>1, MinMember
<1>3. first_real_device(order) = order[Min(Real(order))]
  BY <1>1 DEF first_real_device
<1> QED
  BY <1>2, <1>3 DEF Real, Range

\* Of finitely many numbers in a row one is the greatest.
LEMMA Greatest ==
  ASSUME NEW N \in Nat, NEW R, R \subseteq 1..N, R # {}, NEW f, \A i \in R : f[i] \in Nat
  PROVE  \E i \in R : \A j \in R : f[j] <= f[i]
<1> DEFINE Top(k) == \E i \in R : i <= k /\ \A j \in R : j <= k => f[j] <= f[i]
           T == {k \in 0..N : (\E i \in R : i <= k) => Top(k)}
<1>1. 0 \in T
  OBVIOUS
<1>2. ASSUME NEW k \in 0..(N - 1), k \in T PROVE k + 1 \in T
  <2>1. SUFFICES ASSUME \E i \in R : i <= k + 1 PROVE Top(k + 1)
    OBVIOUS
  <2>2. CASE k + 1 \notin R
    <3>1. \A j \in R : j <= k + 1 => j <= k
      BY <2>2
    <3> QED
      BY <1>2, <2>1, <3>1
  <2>3. CASE k + 1 \in R /\ ~\E i \in R : i <= k
    BY <2>3
  <2>4. CASE k + 1 \in R /\ \E i \in R : i <= k
    <3>1. PICK i \in R : i <= k /\ \A j \in R : j <= k => f[j] <= f[i]
      BY <1>2, <2>4
    <3>2. \A j \in R : j <= k + 1 => j <= k \/ j = k + 1
      OBVIOUS
    <3>3. CASE f[k + 1] <= f[i]
      BY <2>4, <3>1, <3>2, <3>3
    <3>4. CASE f[i] <= f[k + 1]
      BY <2>4, <3>1, <3>2, <3>4
    <3> QED
      BY <2>4, <3>1, <3>3, <3>4
  <2> QED
    BY <2>2, <2>3, <2>4
<1>3. N \in T
  <2> HIDE DEF T
  <2> QED
    BY <1>1, <1>2, UpTo
<1>4. \A i \in R : i \in Nat /\ i <= N
  OBVIOUS
<1>5. Top(N)
  BY <1>3, <1>4
<1> QED
  BY <1>4, <1>5

LEMMA Primary ==
  ASSUME NEW snap, Len(snap.order) \in Nat, DOMAIN snap.order = 1..Len(snap.order),
         \A s \in Range(snap.order) : snap.lines[s].count \in Nat, primary_interface(snap) # None
  PROVE  primary_interface(snap) \in Range(snap.order)
<1> DEFINE real == Real(snap.order)
           f == [i \in real |-> snap.lines[snap.order[i]].count]
           most == {i \in real : \A j \in real : snap.lines[snap.order[j]].count <= snap.lines[snap.order[i]].count}
<1>1. real # {} /\ primary_interface(snap) = snap.order[Min(most)]
  BY DEF primary_interface
<1>2. real \subseteq 1..Len(snap.order) /\ \A i \in real : f[i] \in Nat
  BY DEF Real, Range
<1>3. \E i \in real : \A j \in real : f[j] <= f[i]
  <2> HIDE DEF real, f
  <2> QED
    BY <1>1, <1>2, Greatest
<1>4. most # {} /\ most \subseteq Nat
  BY <1>2, <1>3, SMTT(30)
<1>5. Min(most) \in most
  <2> HIDE DEF most
  <2> QED
    BY <1>4, MinMember
<1> QED
  BY <1>1, <1>2, <1>5 DEF Range

\* The gain of one collector: its source is a line of both snapshots.
GainOf(old, cur, doc, c) ==
    doc # None =>
        /\ doc.elapsed = clock - old.at
        /\ doc.source \notin replugged[c] =>
               doc.gain = moved[doc.source].count - old.was[doc.source].count
        /\ cur.snmp /\ old.snmp => doc.retrans = retrans - old.sent

LEMMA GainRight ==
  ASSUME RatesInv, NEW c \in RateCollectors, NEW snmp \in BOOLEAN, NEW cur,
         cur = Snapshot(FileOf[c], snmp), NEW source, source # None => source \in Range(cur.order),
         NEW doc, doc = IF Comparable(prev[c], cur, source) THEN Gain(prev[c], cur, source) ELSE None
  PROVE  GainOf(prev[c], cur, doc, c)
<1> SUFFICES ASSUME doc # None PROVE GainOf(prev[c], cur, doc, c)
  BY DEF GainOf
<1> DEFINE old == prev[c]
<1>1. Comparable(old, cur, source) /\ doc = Gain(old, cur, source)
  OBVIOUS
<1>2. old # None /\ source \in Range(old.order) /\ source \in Range(cur.order)
  BY <1>1 DEF Comparable
<1>3. /\ doc.source = source /\ doc.elapsed = cur.at - old.at
      /\ doc.gain = cur.lines[source].count - old.lines[source].count
      /\ doc.retrans = cur.retrans - old.retrans
  BY <1>1 DEF Gain
<1>4. /\ source \in Sources /\ cur.lines[source] = meters[source]
      /\ cur.at = clock /\ cur.sent = retrans /\ (cur.snmp => cur.retrans = cur.sent)
  BY <1>2, SnapshotFresh DEF RatesInv
<1>5. source \notin replugged[c] => Gained(old, source, "count")
  BY <1>2 DEF RatesInv, SnapOK
<1>6. old.snmp => old.retrans = old.sent
  BY <1>2 DEF RatesInv, SnapOK
<1>7. meters[source].count \in Nat /\ moved[source].count \in Nat
  BY <1>4 DEF RatesInv, MetersOK
<1> HIDE DEF old
<1>8. doc.source \notin replugged[c] =>
        doc.gain = moved[doc.source].count - old.was[doc.source].count
  BY <1>3, <1>4, <1>5, <1>7 DEF Gained
<1>9. cur.snmp /\ old.snmp => doc.retrans = retrans - old.sent
  BY <1>3, <1>4, <1>6
<1> QED
  BY <1>3, <1>4, <1>8, <1>9 DEF GainOf, old

\* The sources the collectors choose are lines of the snapshot they take.
LEMMA SourcesListed ==
  ASSUME RatesInv, NEW c \in RateCollectors, NEW snmp \in BOOLEAN, NEW cur,
         cur = Snapshot(FileOf[c], snmp)
  PROVE  /\ game_device(cur) # None => game_device(cur) \in Range(cur.order)
         /\ primary_interface(cur) # None => primary_interface(cur) \in Range(cur.order)
<1>1. /\ cur.order \in Seq(Range(FileOf[c]))
      /\ \A s \in Range(cur.order) : s \in Sources /\ cur.lines[s] = meters[s]
  BY SnapshotFresh DEF RatesInv
<1>2. /\ Len(cur.order) \in Nat /\ DOMAIN cur.order = 1..Len(cur.order)
      /\ \A s \in Range(cur.order) : cur.lines[s].count \in Nat
  BY <1>1 DEF RatesInv, MetersOK
<1>3. primary_interface(cur) # None => primary_interface(cur) \in Range(cur.order)
  BY <1>2, Primary
<1>4. game_device(cur) # None => game_device(cur) \in Range(cur.order)
  BY <1>2, FirstReal DEF game_device
<1> QED
  BY <1>3, <1>4

\* Paired by position, the lines of an unchanged file are the same cores' lines.
LEMMA UtilisationRight ==
  ASSUME RatesInv, NEW cur, cur = Snapshot(Cores, TRUE), prev.cpu # None, Clean("cpu"),
         NEW online, online = Listed(Cores, Up(Cores))
  PROVE  utilisation(cur, prev.cpu) = [i \in DOMAIN online |->
            [core |-> online[i],
             idle |-> moved[online[i]].idle - prev.cpu.was[online[i]].idle,
             total |-> moved[online[i]].count - prev.cpu.was[online[i]].count]]
<1> DEFINE old == prev["cpu"]
<1>1. FileOf["cpu"] = Cores /\ "cpu" \in RateCollectors
  BY DEF FileOf, RateCollectors
<1>2. cur.order = online /\ online \in Seq(Range(Cores))
      /\ \A s \in Range(online) : s \in Sources /\ cur.lines[s] = meters[s]
  <2>0. \E b \in BOOLEAN : cur = Snapshot(FileOf["cpu"], b)
    BY <1>1
  <2>1. PICK b \in BOOLEAN : cur = Snapshot(FileOf["cpu"], b)
    BY <2>0
  <2>3. MetersOK
    BY DEF RatesInv
  <2>2. /\ cur.order \in Seq(Range(FileOf["cpu"]))
        /\ cur.order = Listed(FileOf["cpu"], Up(FileOf["cpu"]))
        /\ \A s \in Range(cur.order) : s \in Sources /\ cur.lines[s] = meters[s]
    BY <1>1, <2>1, <2>3, SnapshotFresh, ZenonT(60)
  <2> QED
    BY <1>1, <2>2
<1>3. old.order = online
  BY <1>1 DEF RatesInv, SnapOK
<1>4. \A s \in Range(online) : s \in Range(Cores)
  BY <1>1, <1>2, Files
<1>5. ASSUME NEW s \in Range(online) PROVE Gained(old, s, "idle") /\ Gained(old, s, "count")
  BY <1>1, <1>3, <1>4 DEF RatesInv, SnapOK, Clean
<1>6. ASSUME NEW s \in Range(online)
      PROVE  /\ saturating_sub(cur.lines[s].idle, old.lines[s].idle) = moved[s].idle - old.was[s].idle
             /\ saturating_sub(cur.lines[s].count, old.lines[s].count) = moved[s].count - old.was[s].count
  <2>1. Gained(old, s, "idle") /\ Gained(old, s, "count") /\ s \in Sources /\ cur.lines[s] = meters[s]
    BY <1>2, <1>5
  <2> HIDE DEF old
  <2>2. meters[s].idle \in Nat /\ meters[s].count \in Nat /\ moved[s].idle \in Nat /\ moved[s].count \in Nat
    BY <2>1 DEF RatesInv, MetersOK
  <2>3. ASSUME NEW part \in {"idle", "count"}
        PROVE  saturating_sub(cur.lines[s][part], old.lines[s][part]) = moved[s][part] - old.was[s][part]
    <3>1. /\ cur.lines[s][part] = meters[s][part] /\ meters[s][part] \in Nat /\ moved[s][part] \in Nat
          /\ old.lines[s][part] \in Nat /\ old.was[s][part] \in Nat
          /\ old.lines[s][part] <= meters[s][part]
          /\ meters[s][part] - old.lines[s][part] = moved[s][part] - old.was[s][part]
      BY <2>1, <2>2 DEF Gained
    <3> DEFINE a == meters[s][part]
               b == old.lines[s][part]
    <3>2. saturating_sub(a, b) = a - b
      <4>1. a \in Nat /\ b \in Nat /\ b <= a
        BY <3>1
      <4> HIDE DEF a, b
      <4> QED
        BY <4>1 DEF saturating_sub
    <3> QED
      BY <3>1, <3>2
  <2> QED
    BY <2>3
<1>7. Len(online) \in Nat /\ DOMAIN online = 1..Len(online)
      /\ \A i \in 1..Len(online) : online[i] \in Range(online)
  BY <1>2 DEF Range
<1>8. Min({Len(cur.order), Len(old.order)}) = Len(online)
  <2> DEFINE n == Len(online)
  <2>1. Min({n, n}) = n
    <3>1. n \in Int
      BY <1>7
    <3> HIDE DEF n
    <3> QED
      BY <3>1, MinTwo
  <2> QED
    BY <1>2, <1>3, <2>1
<1>9. utilisation(cur, old) = [i \in 1..Len(online) |->
         [core |-> online[i], idle |-> saturating_sub(cur.lines[online[i]].idle, old.lines[online[i]].idle),
          total |-> saturating_sub(cur.lines[online[i]].count, old.lines[online[i]].count)]]
  BY <1>2, <1>3, <1>8 DEF utilisation
<1> QED
  BY <1>6, <1>7, <1>9, ZenonT(60)

\* What one round of the three collectors returns.
LEMMA CollectedRight ==
  ASSUME RatesInv, NEW stat \in BOOLEAN, NEW snmp \in BOOLEAN, CollectRates(stat, snmp)
  PROVE  CpuTrue /\ GainTrue("storage") /\ GainTrue("network")
<1>1. PICK cpu \in {Snapshot(Cores, TRUE)}, disk \in {Snapshot(Disks, TRUE)},
           net \in {Snapshot(Interfaces, snmp)} :
        /\ rates' = [cpu |-> IF stat THEN CpuDoc(cpu) ELSE None,
                     storage |-> StorageDoc(disk), network |-> NetworkDoc(net)]
        /\ prev' = [cpu |-> IF stat THEN cpu ELSE prev.cpu,
                    storage |-> Keep(prev.storage, disk, StorageDoc(disk)),
                    network |-> Keep(prev.network, net, NetworkDoc(net))]
  BY DEF CollectRates
<1>2. /\ rates'.cpu = (IF stat THEN CpuDoc(cpu) ELSE None)
      /\ rates'["storage"] = StorageDoc(disk) /\ rates'["network"] = NetworkDoc(net)
      /\ prev'["network"] = net
  BY <1>1 DEF Keep
<1>3. /\ FileOf["storage"] = Disks /\ FileOf["network"] = Interfaces
      /\ "storage" \in RateCollectors /\ "network" \in RateCollectors
  BY DEF FileOf, RateCollectors
<1>4. GainOf(prev["storage"], disk, rates'["storage"], "storage")
  <2>1. disk = Snapshot(FileOf["storage"], TRUE)
    BY <1>1, <1>3
  <2>2. game_device(disk) # None => game_device(disk) \in Range(disk.order)
    BY <1>3, <2>1, SourcesListed
  <2>3. StorageDoc(disk) = IF Comparable(prev["storage"], disk, game_device(disk))
                           THEN Gain(prev["storage"], disk, game_device(disk)) ELSE None
    BY DEF StorageDoc
  <2> DEFINE d == game_device(disk)
             doc == StorageDoc(disk)
  <2> HIDE DEF d, doc
  <2>4. GainOf(prev["storage"], disk, doc, "storage")
    BY <1>3, <2>1, <2>2, <2>3, GainRight DEF d, doc
  <2> QED
    BY <1>2, <2>4 DEF doc
<1>5. GainOf(prev["network"], net, rates'["network"], "network")
  <2>1. net = Snapshot(FileOf["network"], snmp)
    BY <1>1, <1>3
  <2>2. primary_interface(net) # None => primary_interface(net) \in Range(net.order)
    BY <1>3, <2>1, SourcesListed
  <2>3. NetworkDoc(net) = IF Comparable(prev["network"], net, primary_interface(net))
                          THEN Gain(prev["network"], net, primary_interface(net)) ELSE None
    BY DEF NetworkDoc
  <2> DEFINE d == primary_interface(net)
             doc == NetworkDoc(net)
  <2> HIDE DEF d, doc
  <2>4. GainOf(prev["network"], net, doc, "network")
    BY <1>3, <2>1, <2>2, <2>3, GainRight DEF d, doc
  <2> QED
    BY <1>2, <2>4 DEF doc
<1>6. GainTrue("storage") /\ GainTrue("network")
  BY <1>2, <1>4, <1>5 DEF GainTrue, GainOf
<1>7. CpuTrue
  <2>1. SUFFICES ASSUME rates'.cpu # None, Clean("cpu") PROVE CpuTrue
    BY DEF CpuTrue
  <2>2. prev.cpu # None /\ rates'.cpu = utilisation(cpu, prev.cpu) /\ cpu = Snapshot(Cores, TRUE)
    BY <1>1, <1>2, <2>1 DEF CpuDoc
  <2> DEFINE online == Listed(Cores, Up(Cores))
  <2>3. utilisation(cpu, prev.cpu) = [i \in DOMAIN online |->
            [core |-> online[i],
             idle |-> moved[online[i]].idle - prev.cpu.was[online[i]].idle,
             total |-> moved[online[i]].count - prev.cpu.was[online[i]].count]]
    <3> HIDE DEF online
    <3> QED
      BY <2>1, <2>2, UtilisationRight DEF online
  <2> QED
    BY <2>2, <2>3 DEF CpuTrue
<1> QED
  BY <1>6, <1>7
-----------------------------------------------------------------------------
(* The stream client's process *)

\* Processes have start times handed out, and so has the one selected; a sample is
\* in progress only of that one.
StreamInv ==
    /\ starts \in Nat /\ DOMAIN procs = Pids
    /\ \A p \in Pids : procs[p] # None =>
          DOMAIN procs[p] = {"start", "client", "fds"} /\ procs[p].start \in 1..starts
    /\ selected # None => selected.pid \in Pids /\ selected.start \in 1..starts
    /\ sampling # None => pc = "sample" /\ sampling = selected

-----------------------------------------------------------------------------
(* The frame collector *)

FifosOK ==
    /\ DOMAIN fifos = Sessions
    /\ \A s \in Sessions : /\ DOMAIN fifos[s] = {"there", "opens", "writer", "lines"}
                           /\ fifos[s].lines \in Seq(Lines)

\* What the reader holds at each of its steps; it ends only when told to.
ReaderOK ==
    reader # None =>
        /\ reader \in Readers
        /\ reader.at \in {"read", "line", "match", "push"} => reader.pipe \in Sessions
        /\ reader.at = "line" => reader.line \in Lines
        /\ reader.at = "match" => reader.line \in [focus : Apps] /\ reader.pending \in [fps : {0, 1}]
        /\ reader.at = "push" => reader.line \in Samples
        /\ reader.at = "done" => reader.stop

AttachedOK == attached => late \/ (reader # None /\ ~reader.stop)

GameOK == appId = IF tracked = None THEN None ELSE tracked.app

\* Samples of another app, in a sequence of them.
Strays(rows) == {i \in DOMAIN rows : rows[i].app # appId}
AtMostOne(S) == \A i, j \in S : i = j

\* Once the buffer was taken in this game it holds at most one sample of another app,
\* and none while the reader is about to add one.
BufferOK ==
    /\ samples \in Seq(Samples) /\ epoch \in Nat /\ taken \in 0..epoch
    /\ taken = epoch =>
          /\ AtMostOne(Strays(samples))
          /\ reader # None /\ reader.at = "push" /\ reader.line.app # appId => Strays(samples) = {}

DocumentOK ==
    /\ frames # None => pc \notin {"poll", "collect"}
    /\ frames # None /\ frames.from = "gamescope" /\ ~frames.first => AtMostOne(Strays(frames.rows))

\* What was read of the log in use, and shipped of it.
MangoOK ==
    /\ logs \in [Logs -> [lines : Nat, opens : BOOLEAN]] /\ latest \in Logs \cup {None}
    /\ DOMAIN mango = {"path", "pos", "checkAge"} /\ mango.pos \in Nat
    /\ mango.path \in Logs \cup {None}
    /\ mango.path # None => mango.pos <= logs[mango.path].lines
    /\ shown \subseteq {mango.path} \X (1..mango.pos)

FrameInv ==
    /\ FifosOK /\ ReaderOK /\ AttachedOK /\ GameOK
    /\ BufferOK /\ DocumentOK /\ MangoOK

-----------------------------------------------------------------------------
(* Steps that leave parts of it alone *)

\* Nothing of the frame collector moves.
LEMMA FrameSame ==
  ASSUME FrameInv, UNCHANGED frameVars, frames = None \/ pc' \notin {"poll", "collect"}
  PROVE  FrameInv'
BY DEF FrameInv, FifosOK, ReaderOK, AttachedOK, GameOK, BufferOK, Strays, AtMostOne, DocumentOK,
       MangoOK, frameVars, sources, collectorVars

LEMMA RatesSame ==
  ASSUME RatesInv, UNCHANGED rateVars, pc' \in {"poll", "collect"} => rates = NoRates
  PROVE  RatesInv'
BY ZenonT(60) DEF RatesInv, MetersOK, SnapOK, Gained, Clean, Up, rateVars, machine

LEMMA StreamSame ==
  ASSUME StreamInv, UNCHANGED streamVars, pc' = pc \/ sampling = None
  PROVE  StreamInv'
BY DEF StreamInv, streamVars, table

-----------------------------------------------------------------------------
(* The reader thread *)

\* A step of the thread that leaves the buffer, the FIFOs and the late flag alone.
LEMMA ThreadKeeps ==
  ASSUME FrameInv, thread_only, UNCHANGED <<appId, samples, late, pc>>, attached' \in {attached, FALSE},
         reader # None, reader' \in Readers, reader'.stop = reader.stop,
         reader'.at \in {"look", "sleep", "read", "done"},
         reader'.at = "read" => reader'.pipe \in Sessions, reader'.at = "done" => reader'.stop
  PROVE  FrameInv'
<1>1. UNCHANGED <<fifos, link, logs, latest, tracked, candidate, resolveAge, mango, frames, epoch, taken, shown>>
  BY DEF thread_only, sources, collectorVars
<1>2. FifosOK' /\ GameOK' /\ DocumentOK' /\ MangoOK'
  BY <1>1 DEF FrameInv, FifosOK, GameOK, DocumentOK, Strays, AtMostOne, MangoOK
<1>3. ReaderOK'
  BY DEF ReaderOK
<1>4. reader' # None
  BY FrameAssumptions
<1>5. AttachedOK'
  BY <1>4 DEF FrameInv, AttachedOK
<1>6. BufferOK'
  BY <1>1 DEF FrameInv, BufferOK, Strays, AtMostOne
<1> QED
  BY <1>2, <1>3, <1>5, <1>6 DEF FrameInv
\* The fields of a reader, and what may be put in them.
LEMMA ReaderFields ==
  ASSUME NEW r \in Readers
  PROVE  /\ r.at \in {"look", "sleep", "read", "line", "match", "push", "done"}
         /\ r.pipe \in Sessions \cup {None} /\ r.demoted \in [Sessions -> 0..Window]
         /\ r.backoff \in 1..BackoffMax /\ r.wait \in Nat
         /\ r.pending \in [fps : {0, 1}] \cup {None} /\ r.line \in Lines \cup Samples \cup {None}
         /\ DOMAIN r = {"at", "stop", "pipe", "pending", "line", "demoted", "backoff", "wait"}
BY DEF Readers

LEMMA DoubledIn ==
  ASSUME NEW b \in 1..BackoffMax
  PROVE  Doubled(b) \in 1..BackoffMax
<1>1. Min({2 * b, BackoffMax}) = IF 2 * b <= BackoffMax THEN 2 * b ELSE BackoffMax
  <2> DEFINE a == 2 * b
  <2>1. a \in Int /\ BackoffMax \in Int
    BY FrameAssumptions
  <2> HIDE DEF a
  <2>2. Min({a, BackoffMax}) = IF a <= BackoffMax THEN a ELSE BackoffMax
    BY <2>1, MinTwo
  <2> QED
    BY <2>2 DEF a
<1> QED
  BY <1>1, FrameAssumptions DEF Doubled

LEMMA BackingOffIn ==
  ASSUME NEW r \in Readers
  PROVE  BackingOff(r) \in Readers /\ BackingOff(r).stop = r.stop /\ BackingOff(r).at = "sleep"
<1> DEFINE d == Doubled(r.backoff)
           b == r.backoff
<1>1. d \in 1..BackoffMax /\ b \in Nat
  BY ReaderFields, DoubledIn, FrameAssumptions
<1>2. BackingOff(r) = [r EXCEPT !.at = "sleep", !.wait = b, !.backoff = d]
  BY ReaderFields DEF BackingOff, Sleeping
<1> HIDE DEF d, b
<1> QED
  BY <1>1, <1>2 DEF Readers

\* The candidate taken is one of those offered.
LEMMA FirstInOrderIn ==
  ASSUME NEW S, S \subseteq Sessions, S # {}
  PROVE  FirstInOrder(S) \in S
<1> DEFINE T == {i \in DOMAIN Pipes : Pipes[i] \in S}
<1>1. DOMAIN Pipes = 1..Len(Pipes) /\ Len(Pipes) \in Nat
  BY FrameAssumptions
<1>2. T \subseteq Nat /\ T # {}
  BY <1>1 DEF Sessions, Range
<1>3. Min(T) \in T
  <2> HIDE DEF T
  <2> QED
    BY <1>2, MinMember
<1> QED
  BY <1>3 DEF FirstInOrder

LEMMA FirstOfIn ==
  ASSUME NEW r, FirstOf(r) # None
  PROVE  FirstOf(r) \in Sessions
<1> DEFINE free == {s \in stats_pipe_candidates : r.demoted[s] = 0}
<1>1. free # {} /\ FirstOf(r) = FirstInOrder(free)
  BY DEF FirstOf
<1>2. free \subseteq Sessions
  BY DEF stats_pipe_candidates
<1>3. FirstInOrder(free) \in free
  <2> HIDE DEF free
  <2> QED
    BY <1>1, <1>2, FirstInOrderIn
<1> QED
  BY <1>1, <1>2, <1>3

LEMMA LookKeeps == FrameInv /\ Look /\ pc' = pc => FrameInv'
<1> SUFFICES ASSUME FrameInv, Look, pc' = pc PROVE FrameInv'
  OBVIOUS
<1> DEFINE s == FirstOf(reader)
<1>0. /\ thread_only /\ UNCHANGED <<appId, samples, attached, late>> /\ reader # None
      /\ reader \in Readers
  BY DEF Look, FrameInv, ReaderOK
<1>1. CASE reader.stop
  <2>1. reader' = [reader EXCEPT !.at = "done"]
    BY <1>1 DEF Look
  <2>2. reader' \in Readers /\ reader'.stop = reader.stop /\ reader'.at = "done"
    BY <1>0, <2>1 DEF Readers
  <2> QED
    BY <1>0, <1>1, <2>2, ThreadKeeps
<1>2. CASE ~reader.stop /\ s = None
  <2>1. reader' = [reader EXCEPT !.at = "sleep", !.wait = Window]
    BY <1>2 DEF Look, Sleeping
  <2>2. reader' \in Readers /\ reader'.stop = reader.stop /\ reader'.at = "sleep"
    BY <1>0, <2>1, FrameAssumptions DEF Readers
  <2> QED
    BY <1>0, <1>2, <2>2, ThreadKeeps
<1>3. CASE ~reader.stop /\ s # None /\ ~open_stats_pipe(s)
  <2>1. reader' = BackingOff(reader)
    BY <1>3 DEF Look
  <2>2. reader' \in Readers /\ reader'.stop = reader.stop /\ reader'.at = "sleep"
    BY <1>0, <2>1, BackingOffIn
  <2> QED
    BY <1>0, <1>3, <2>2, ThreadKeeps
<1>4. CASE ~reader.stop /\ s # None /\ open_stats_pipe(s)
  <2>1. reader' = [reader EXCEPT !.at = "read", !.pipe = s, !.pending = None] /\ s \in Sessions
    BY <1>4, FirstOfIn DEF Look, Opened
  <2> HIDE DEF s
  <2>2. reader' \in Readers /\ reader'.stop = reader.stop /\ reader'.at = "read" /\ reader'.pipe \in Sessions
    BY <1>0, <2>1 DEF Readers
  <2> QED
    BY <1>0, <1>4, <2>2, ThreadKeeps
<1> QED
  BY <1>1, <1>2, <1>3, <1>4

LEMMA WakeKeeps == FrameInv /\ Wake /\ pc' = pc => FrameInv'
<1> SUFFICES ASSUME FrameInv, Wake, pc' = pc PROVE FrameInv'
  OBVIOUS
<1>0. /\ thread_only /\ UNCHANGED <<appId, samples, attached, late>> /\ reader # None
      /\ reader \in Readers
  BY DEF Wake, FrameInv, ReaderOK
<1>1. CASE reader.stop
  <2>1. reader' = [reader EXCEPT !.at = "done"]
    BY <1>1 DEF Wake
  <2>2. reader' \in Readers /\ reader'.stop = reader.stop /\ reader'.at = "done"
    BY <1>0, <2>1 DEF Readers
  <2> QED
    BY <1>0, <1>1, <2>2, ThreadKeeps
<1>2. CASE ~reader.stop
  <2> DEFINE d == [s \in Sessions |-> saturating_sub(reader.demoted[s], reader.wait)]
  <2>1. reader' = [reader EXCEPT !.at = "look", !.demoted = d]
    BY <1>2 DEF Wake
  <2>2. d \in [Sessions -> 0..Window]
    <3>1. reader.demoted \in [Sessions -> 0..Window] /\ reader.wait \in Nat /\ Window \in Nat
      BY <1>0, ReaderFields, FrameAssumptions
    <3>2. ASSUME NEW s \in Sessions PROVE saturating_sub(reader.demoted[s], reader.wait) \in 0..Window
      BY <3>1 DEF saturating_sub
    <3> QED
      BY <3>2
  <2> HIDE DEF d
  <2>3. reader' \in Readers /\ reader'.stop = reader.stop /\ reader'.at = "look"
    BY <1>0, <2>1, <2>2 DEF Readers
  <2> QED
    BY <1>0, <1>2, <2>3, ThreadKeeps
<1> QED
  BY <1>1, <1>2

LEMMA ReadStopKeeps == FrameInv /\ ReadStop /\ pc' = pc => FrameInv'
<1> SUFFICES ASSUME FrameInv, ReadStop, pc' = pc PROVE FrameInv'
  OBVIOUS
<1>0. /\ thread_only /\ UNCHANGED <<appId, samples, attached, late>> /\ reader # None
      /\ reader \in Readers /\ reader.stop /\ reader' = [reader EXCEPT !.at = "done"]
  BY DEF ReadStop, FrameInv, ReaderOK
<1>1. reader' \in Readers /\ reader'.stop = reader.stop /\ reader'.at = "done"
  BY <1>0 DEF Readers
<1> QED
  BY <1>0, <1>1, ThreadKeeps

LEMMA ReadEndKeeps == FrameInv /\ ReadEnd /\ pc' = pc => FrameInv'
<1> SUFFICES ASSUME FrameInv, ReadEnd, pc' = pc PROVE FrameInv'
  OBVIOUS
<1>0. /\ thread_only /\ UNCHANGED <<appId, samples, late>> /\ attached' = FALSE /\ reader # None
      /\ reader \in Readers /\ reader.pipe \in Sessions /\ reader' = BackingOff(Demoted(reader))
  BY DEF ReadEnd, FrameInv, ReaderOK
<1>1. Demoted(reader) \in Readers /\ Demoted(reader).stop = reader.stop
  <2> DEFINE d == [reader.demoted EXCEPT ![reader.pipe] = Window]
  <2>1. d \in [Sessions -> 0..Window]
    BY <1>0, ReaderFields, FrameAssumptions
  <2>2. Demoted(reader) = [reader EXCEPT !.demoted = d]
    BY DEF Demoted
  <2> HIDE DEF d
  <2> QED
    BY <1>0, <2>1, <2>2 DEF Readers
<1>2. reader' \in Readers /\ reader'.stop = reader.stop /\ reader'.at = "sleep"
  <2> DEFINE r == Demoted(reader)
  <2> HIDE DEF r
  <2>1. r \in Readers /\ r.stop = reader.stop /\ reader' = BackingOff(r)
    BY <1>0, <1>1 DEF r
  <2> QED
    BY <2>1, BackingOffIn
<1> QED
  BY <1>0, <1>2, ThreadKeeps

LEMMA ReadErrorKeeps == FrameInv /\ ReadError /\ pc' = pc => FrameInv'
<1> SUFFICES ASSUME FrameInv, ReadError, pc' = pc PROVE FrameInv'
  OBVIOUS
<1>0. /\ thread_only /\ UNCHANGED <<appId, samples, late>> /\ attached' = FALSE /\ reader # None
      /\ reader \in Readers /\ reader' = BackingOff(reader)
  BY DEF ReadError, FrameInv, ReaderOK
<1>2. reader' \in Readers /\ reader'.stop = reader.stop /\ reader'.at = "sleep"
  BY <1>0, BackingOffIn
<1> QED
  BY <1>0, <1>2, ThreadKeeps

LEMMA ReadNothingKeeps == FrameInv /\ ReadNothing /\ pc' = pc => FrameInv'
<1> SUFFICES ASSUME FrameInv, ReadNothing, pc' = pc PROVE FrameInv'
  OBVIOUS
<1> DEFINE d == [s \in Sessions |-> 0]
<1>0. /\ thread_only /\ UNCHANGED <<appId, samples, attached, late>> /\ reader # None
      /\ reader \in Readers /\ reader.at = "read" /\ reader.pipe \in Sessions
      /\ reader' = [reader EXCEPT !.demoted = d]
  BY DEF ReadNothing, FrameInv, ReaderOK
<1>1. d \in [Sessions -> 0..Window]
  BY FrameAssumptions
<1> HIDE DEF d
<1>2. reader' \in Readers /\ reader'.stop = reader.stop /\ reader'.at = "read" /\ reader'.pipe \in Sessions
  BY <1>0, <1>1 DEF Readers
<1> QED
  BY <1>0, <1>2, ThreadKeeps
LEMMA ReadLineKeeps == FrameInv /\ ReadLine /\ pc' = pc => FrameInv'
<1> SUFFICES ASSUME FrameInv, ReadLine, pc' = pc PROVE FrameInv'
  OBVIOUS
<1> DEFINE q == fifos[reader.pipe].lines
<1>0. /\ UNCHANGED <<link, logs, latest, collectorVars, appId, samples, attached, late>> /\ reader # None
      /\ reader \in Readers /\ reader.at = "read" /\ ~reader.stop /\ reader.pipe \in Sessions /\ q # <<>>
      /\ reader' = [reader EXCEPT !.at = "line", !.line = Head(q)]
      /\ fifos' = [fifos EXCEPT ![reader.pipe].lines = Tail(@)]
  BY DEF ReadLine, FrameInv, ReaderOK
<1>1. q \in Seq(Lines)
  BY <1>0 DEF FrameInv, FifosOK
<1>2. Head(q) \in Lines /\ Tail(q) \in Seq(Lines)
  <2>1. q \in Seq(Lines) /\ q # <<>>
    BY <1>0, <1>1
  <2> HIDE DEF q
  <2> QED
    BY <2>1, HeadTailProperties
<1>3. FifosOK'
  <2> DEFINE p == reader.pipe
             n == Tail(q)
  <2>1. fifos' = [fifos EXCEPT ![p].lines = n] /\ n \in Seq(Lines) /\ p \in Sessions
    BY <1>0, <1>2
  <2> HIDE DEF n, p, q
  <2>2. DOMAIN fifos' = Sessions
    BY <2>1 DEF FrameInv, FifosOK
  <2>3. ASSUME NEW s \in Sessions
        PROVE  DOMAIN fifos'[s] = {"there", "opens", "writer", "lines"} /\ fifos'[s].lines \in Seq(Lines)
    BY <2>1 DEF FrameInv, FifosOK
  <2> QED
    BY <2>2, <2>3 DEF FifosOK
<1>4. /\ reader' \in Readers /\ reader'.at = "line" /\ reader'.stop = reader.stop
      /\ reader'.pipe \in Sessions /\ reader'.line \in Lines
  <2> DEFINE l == Head(q)
  <2> HIDE DEF l
  <2> QED
    BY <1>0, <1>2 DEF Readers, l
<1>5. UNCHANGED <<tracked, mango, frames, epoch, taken, shown, logs, latest>>
  BY <1>0 DEF collectorVars
<1>6. ReaderOK'
  BY <1>4 DEF ReaderOK
<1>7. reader' # None
  BY <1>4, FrameAssumptions
<1>8. AttachedOK'
  BY <1>0, <1>4, <1>7 DEF FrameInv, AttachedOK
<1>9. BufferOK'
  BY <1>0, <1>4, <1>5 DEF FrameInv, BufferOK, Strays, AtMostOne
<1>10. GameOK' /\ DocumentOK' /\ MangoOK'
  BY <1>0, <1>5 DEF FrameInv, GameOK, DocumentOK, Strays, AtMostOne, MangoOK
<1> QED
  BY <1>3, <1>6, <1>8, <1>9, <1>10 DEF FrameInv

LEMMA TakeLineKeeps == FrameInv /\ TakeLine /\ pc' = pc => FrameInv'
<1> SUFFICES ASSUME FrameInv, TakeLine, pc' = pc PROVE FrameInv'
  OBVIOUS
<1> DEFINE line == reader.line
<1>0. /\ thread_only /\ UNCHANGED <<appId, samples>> /\ reader # None
      /\ reader \in Readers /\ reader.at = "line" /\ reader.pipe \in Sessions /\ line \in Lines
      /\ attached' = TRUE /\ (late \/ reader.stop => late')
  BY DEF TakeLine, FrameInv, ReaderOK
<1>1. UNCHANGED <<fifos, link, logs, latest, tracked, mango, frames, epoch, taken, shown>>
  BY <1>0 DEF thread_only, sources, collectorVars
<1>2. /\ reader' \in Readers /\ reader'.stop = reader.stop /\ reader'.at \in {"read", "match"}
      /\ reader'.pipe \in Sessions
      /\ reader'.at = "match" => reader'.line \in [focus : Apps] /\ reader'.pending \in [fps : {0, 1}]
  <2>a. BackoffMax \in Nat \ {0} /\ 1 \in 1..BackoffMax
    BY FrameAssumptions
  <2>1. CASE "fps" \in DOMAIN line
    <3>1. reader' = [reader EXCEPT !.backoff = 1, !.line = None, !.at = "read", !.pending = line]
      BY <1>0, <2>1 DEF TakeLine, Readers
    <3>2. line \in [fps : {0, 1}]
      BY <1>0, <2>1 DEF Lines
    <3> HIDE DEF line
    <3> QED
      BY <1>0, <2>a, <3>1, <3>2 DEF Readers
  <2>2. CASE "fps" \notin DOMAIN line /\ reader.pending = None
    <3>1. reader' = [reader EXCEPT !.backoff = 1, !.line = None, !.at = "read"]
      BY <1>0, <2>2 DEF TakeLine, Readers
    <3> QED
      BY <1>0, <2>a, <3>1 DEF Readers
  <2>3. CASE "fps" \notin DOMAIN line /\ reader.pending # None
    <3>1. reader' = [reader EXCEPT !.backoff = 1, !.line = line, !.at = "match"]
      BY <1>0, <2>3 DEF TakeLine, Readers
    <3>2. line \in [focus : Apps]
      BY <1>0, <2>3 DEF Lines
    <3>3. reader.pending \in [fps : {0, 1}]
      BY <1>0, <2>3, ReaderFields
    <3> HIDE DEF line
    <3>4. reader'.line = line /\ reader'.pending = reader.pending /\ reader'.at = "match"
          /\ reader'.stop = reader.stop /\ reader'.pipe \in Sessions
      BY <1>0, <3>1 DEF Readers
    <3>5. reader' \in Readers
      BY <1>0, <2>a, <3>1 DEF Readers
    <3> QED
      BY <3>2, <3>3, <3>4, <3>5
  <2> QED
    BY <2>1, <2>2, <2>3
<1>3. ReaderOK'
  BY <1>2 DEF ReaderOK
<1>4. reader' # None
  BY <1>2, FrameAssumptions
<1>5. AttachedOK'
  BY <1>0, <1>2, <1>4 DEF AttachedOK
<1>6. BufferOK'
  BY <1>0, <1>1, <1>2 DEF FrameInv, BufferOK, Strays, AtMostOne
<1>7. FifosOK' /\ GameOK' /\ DocumentOK' /\ MangoOK'
  BY <1>0, <1>1 DEF FrameInv, FifosOK, GameOK, DocumentOK, Strays, AtMostOne, MangoOK
<1> QED
  BY <1>3, <1>5, <1>6, <1>7 DEF FrameInv

\* A sample that is about to be added is of the game that is tracked then.
LEMMA MatchKeeps == FrameInv /\ Match /\ pc' = pc => FrameInv'
<1> SUFFICES ASSUME FrameInv, Match, pc' = pc PROVE FrameInv'
  OBVIOUS
<1> DEFINE s == Sample(reader)
<1>0. /\ thread_only /\ UNCHANGED <<appId, samples, attached, late>> /\ reader # None
      /\ reader \in Readers /\ reader.at = "match" /\ reader.pipe \in Sessions
      /\ reader.line \in [focus : Apps] /\ reader.pending \in [fps : {0, 1}] /\ epoch \in Nat
  BY DEF Match, FrameInv, ReaderOK, BufferOK
<1>1. CASE appId # None /\ appId = s.app /\ s.fps >= 1
  <2>1. reader' = [reader EXCEPT !.pending = None, !.line = s, !.at = "push"]
    BY <1>0, <1>1 DEF Match, Readers
  <2>2. s \in Samples /\ s.app = appId
    <3>1. s.fps = reader.pending.fps /\ s.app = reader.line.focus /\ s.epoch = epoch
      BY DEF Sample
    <3>2. s.fps = 1 /\ s.app \in Apps
      BY <1>0, <1>1, <3>1
    <3>3. s = [fps |-> 1, app |-> reader.line.focus, epoch |-> epoch]
      BY <3>1, <3>2 DEF Sample
    <3> QED
      BY <1>0, <1>1, <3>1, <3>2, <3>3 DEF Samples
  <2> HIDE DEF s
  <2>3. /\ reader' \in Readers /\ reader'.at = "push" /\ reader'.stop = reader.stop
        /\ reader'.pipe \in Sessions /\ reader'.line = s
    BY <1>0, <2>1, <2>2 DEF Readers
  <2>4. UNCHANGED <<fifos, link, logs, latest, tracked, mango, frames, epoch, taken, shown>>
    BY <1>0 DEF thread_only, sources, collectorVars
  <2>5. ReaderOK'
    BY <2>2, <2>3 DEF ReaderOK
  <2>6. reader' # None
    BY <2>3, FrameAssumptions
  <2>7. AttachedOK'
    BY <1>0, <2>3, <2>6 DEF FrameInv, AttachedOK
  <2>8. BufferOK'
    BY <1>0, <2>2, <2>3, <2>4 DEF FrameInv, BufferOK, Strays, AtMostOne
  <2>9. FifosOK' /\ GameOK' /\ DocumentOK' /\ MangoOK'
    BY <1>0, <2>4 DEF FrameInv, FifosOK, GameOK, DocumentOK, Strays, AtMostOne, MangoOK
  <2> QED
    BY <2>5, <2>7, <2>8, <2>9 DEF FrameInv
<1>2. CASE ~(appId # None /\ appId = s.app /\ s.fps >= 1)
  <2>1. reader' = [reader EXCEPT !.pending = None, !.line = None, !.at = "read"]
    BY <1>0, <1>2 DEF Match, Readers
  <2>2. reader' \in Readers /\ reader'.stop = reader.stop /\ reader'.at = "read" /\ reader'.pipe \in Sessions
    BY <1>0, <2>1 DEF Readers
  <2> QED
    BY <1>0, <2>2, ThreadKeeps
<1> QED
  BY <1>1, <1>2

\* The one stray sample is the one that was matched before the game changed.
LEMMA PushKeeps == FrameInv /\ Push /\ pc' = pc => FrameInv'
<1> SUFFICES ASSUME FrameInv, Push, pc' = pc PROVE FrameInv'
  OBVIOUS
<1> DEFINE l == reader.line
<1>0. /\ thread_only /\ UNCHANGED <<appId, attached, late>> /\ reader # None
      /\ reader \in Readers /\ reader.at = "push" /\ reader.pipe \in Sessions /\ l \in Samples
      /\ samples' = Append(samples, l) /\ reader' = [reader EXCEPT !.at = "read", !.line = None]
  BY DEF Push, FrameInv, ReaderOK
<1>1. UNCHANGED <<fifos, link, logs, latest, tracked, mango, frames, epoch, taken, shown>>
  BY <1>0 DEF thread_only, sources, collectorVars
<1>2. reader' \in Readers /\ reader'.stop = reader.stop /\ reader'.at = "read" /\ reader'.pipe \in Sessions
  BY <1>0 DEF Readers
<1>3. ReaderOK'
  BY <1>2 DEF ReaderOK
<1>4. reader' # None
  BY <1>2, FrameAssumptions
<1>5. AttachedOK'
  BY <1>0, <1>2, <1>4 DEF FrameInv, AttachedOK
<1>6. BufferOK'
  <2>1. /\ samples \in Seq(Samples) /\ epoch \in Nat /\ taken \in 0..epoch
        /\ taken = epoch => /\ AtMostOne(Strays(samples)) /\ (l.app # appId => Strays(samples) = {})
    BY <1>0 DEF FrameInv, BufferOK
  <2> HIDE DEF l
  <2>2. samples' \in Seq(Samples)
    BY <1>0, <2>1
  <2>3. /\ DOMAIN samples' = DOMAIN samples \cup {Len(samples) + 1}
        /\ \A i \in DOMAIN samples : samples'[i] = samples[i]
        /\ samples'[Len(samples) + 1] = l
    BY <1>0, <2>1
  <2>4. Strays(samples)' \subseteq Strays(samples) \cup {Len(samples) + 1}
        /\ (l.app = appId => Strays(samples)' \subseteq Strays(samples))
    BY <1>0, <2>3 DEF Strays
  <2>5. taken = epoch => AtMostOne(Strays(samples)')
    BY <2>1, <2>4 DEF AtMostOne
  <2>6. taken' = epoch' => AtMostOne(Strays(samples))'
    BY <1>1, <2>5 DEF AtMostOne
  <2> QED
    BY <1>1, <1>2, <2>1, <2>2, <2>6 DEF BufferOK
<1>7. FifosOK' /\ GameOK' /\ DocumentOK' /\ MangoOK'
  BY <1>0, <1>1 DEF FrameInv, FifosOK, GameOK, DocumentOK, Strays, AtMostOne, MangoOK
<1> QED
  BY <1>3, <1>5, <1>6, <1>7 DEF FrameInv

LEMMA ThreadFrame == FrameInv /\ Thread /\ pc' = pc => FrameInv'
BY LookKeeps, WakeKeeps, ReadStopKeeps, ReadLineKeeps, ReadEndKeeps, ReadNothingKeeps, TakeLineKeeps,
   MatchKeeps, PushKeeps DEF Thread
-----------------------------------------------------------------------------
(* The collector *)

LEMMA NewReaderIn == NewReader \in Readers /\ NewReader.at = "look" /\ NewReader # None
<1> DEFINE d == [s \in Sessions |-> 0]
<1>1. d \in [Sessions -> 0..Window] /\ 1 \in 1..BackoffMax
  BY FrameAssumptions
<1>2. NewReader = [at |-> "look", stop |-> FALSE, pipe |-> None, pending |-> None, line |-> None,
                   demoted |-> d, backoff |-> 1, wait |-> 0]
  BY DEF NewReader
<1> HIDE DEF d
<1>3. NewReader \in Readers /\ NewReader.at = "look"
  BY <1>1, <1>2 DEF Readers
<1> QED
  BY <1>3, FrameAssumptions

\* A reader that is reaped had been told to stop; one that is started pushes nothing yet.
LEMMA ReaderReplaced ==
  ASSUME FrameInv, UNCHANGED <<attached, late>>,
         reader' = Reaped \/ (Reaped = None /\ reader' = NewReader)
  PROVE  /\ ReaderOK' /\ AttachedOK'
         /\ reader' # None /\ reader'.at = "push" => reader' = reader
<1>1. CASE reader' = Reaped
  BY <1>1 DEF FrameInv, ReaderOK, AttachedOK, Reaped, Finished
<1>2. CASE Reaped = None /\ reader' = NewReader
  <2>1. ReaderOK'
    BY <1>2, NewReaderIn DEF ReaderOK
  <2>2. attached => late
    BY <1>2 DEF FrameInv, AttachedOK, ReaderOK, Reaped, Finished
  <2> QED
    BY <1>2, <2>1, <2>2, NewReaderIn DEF AttachedOK
<1> QED
  BY <1>1, <1>2

LEMMA SetGameKeeps ==
  ASSUME FrameInv, NEW g \in Games, SetGame(g), pc = "poll", pc' = "collect"
  PROVE  FrameInv'
<1>1. /\ UNCHANGED <<fifos, link, logs, latest, samples, attached, mango, frames, taken, late, shown>>
      /\ tracked' = g /\ appId' = g.app /\ epoch' = epoch + 1
  BY DEF SetGame, sources
<1>2. reader' = Reaped \/ (Reaped = None /\ reader' = NewReader)
  BY DEF SetGame, Resolve
<1>3. g # None
  BY FrameAssumptions DEF Games
<1>4. GameOK'
  BY <1>1, <1>3 DEF GameOK
<1>5. BufferOK'
  BY <1>1 DEF FrameInv, BufferOK
<1>6. ReaderOK' /\ AttachedOK'
  BY <1>1, <1>2, ReaderReplaced
<1>7. frames' = None
  BY <1>1 DEF FrameInv, DocumentOK
<1>8. FifosOK' /\ DocumentOK' /\ MangoOK'
  BY <1>1, <1>7 DEF FrameInv, FifosOK, DocumentOK, MangoOK
<1> QED
  BY <1>4, <1>5, <1>6, <1>8 DEF FrameInv

\* Telling the reader to stop.
LEMMA StopReader ==
  ASSUME FrameInv, stop_reader
  PROVE  /\ ReaderOK' /\ AttachedOK'
         /\ reader' # None => reader # None /\ reader'.at = reader.at /\ reader'.line = reader.line
<1>1. CASE reader = None
  BY <1>1 DEF stop_reader, ReaderOK, AttachedOK
<1>2. CASE reader # None
  <2>1. reader' = [reader EXCEPT !.stop = TRUE] /\ attached' = FALSE
    BY <1>2 DEF stop_reader
  <2>2. reader \in Readers
    BY <1>2 DEF FrameInv, ReaderOK
  <2>3. /\ reader'.at = reader.at /\ reader'.line = reader.line /\ reader'.pipe = reader.pipe
        /\ reader'.pending = reader.pending
    BY <2>1, <2>2 DEF Readers
  <2>4. reader'.stop
    BY <2>1, <2>2 DEF Readers
  <2>5. reader' \in Readers
    BY <2>1, <2>2 DEF Readers
  <2> QED
    BY <1>2, <2>1, <2>3, <2>4, <2>5 DEF FrameInv, ReaderOK, AttachedOK
<1> QED
  BY <1>1, <1>2

LEMMA ClearGameKeeps ==
  ASSUME FrameInv, ClearGame, pc = "poll", pc' = "collect"
  PROVE  FrameInv'
<1>1. /\ UNCHANGED <<fifos, link, logs, latest, samples, mango, frames, taken, late, shown>>
      /\ tracked' = None /\ appId' = None /\ epoch' = epoch + 1 /\ stop_reader
  BY DEF ClearGame, sources
<1>2. GameOK'
  BY <1>1 DEF GameOK
<1>3. BufferOK'
  BY <1>1 DEF FrameInv, BufferOK
<1>4. ReaderOK' /\ AttachedOK'
  BY <1>1, StopReader
<1>5. frames' = None
  BY <1>1 DEF FrameInv, DocumentOK
<1>6. FifosOK' /\ DocumentOK' /\ MangoOK'
  BY <1>1, <1>5 DEF FrameInv, FifosOK, DocumentOK, MangoOK
<1> QED
  BY <1>2, <1>3, <1>4, <1>6 DEF FrameInv

LEMMA DropKeeps ==
  ASSUME FrameInv, Drop, pc' = "drop"
  PROVE  FrameInv'
<1>1. /\ UNCHANGED <<fifos, link, logs, latest, samples, mango, frames, taken, late, shown, tracked, appId, epoch>>
      /\ stop_reader
  BY DEF Drop, sources, collectorVars
<1>2. /\ ReaderOK' /\ AttachedOK'
      /\ reader' # None => reader # None /\ reader'.at = reader.at /\ reader'.line = reader.line
  BY <1>1, StopReader
<1>3. BufferOK'
  BY <1>1, <1>2 DEF FrameInv, BufferOK, Strays, AtMostOne
<1>4. FifosOK' /\ GameOK' /\ DocumentOK' /\ MangoOK'
  BY <1>1 DEF FrameInv, FifosOK, GameOK, DocumentOK, MangoOK, Strays, AtMostOne
<1> QED
  BY <1>2, <1>3, <1>4 DEF FrameInv

\* A new tick: the ages grow and the last document is gone.
LEMMA SleepKeeps ==
  ASSUME FrameInv, Sleep
  PROVE  FrameInv'
<1>1. /\ UNCHANGED <<fifos, link, logs, latest, tracked, appId, samples, attached, reader, epoch, taken, late, shown>>
      /\ frames' = None
  BY DEF Sleep, sources, ghosts
<1>2. DOMAIN mango' = DOMAIN mango /\ mango'.path = mango.path /\ mango'.pos = mango.pos
  BY DEF Sleep, Pass, AgeFrame, FrameInv, MangoOK
<1>3. MangoOK'
  BY <1>1, <1>2 DEF FrameInv, MangoOK
<1>4. FifosOK' /\ GameOK' /\ DocumentOK' /\ ReaderOK' /\ AttachedOK' /\ BufferOK'
  BY <1>1 DEF FrameInv, FifosOK, GameOK, DocumentOK, ReaderOK, AttachedOK, BufferOK, Strays, AtMostOne
<1> QED
  BY <1>3, <1>4 DEF FrameInv
\* The buffer goes into the document, whose samples were in it at once.
LEMMA GamescopeTaken ==
  ASSUME FrameInv, CollectGamescope, UNCHANGED <<appId, epoch>>, pc' = "select",
         reader' # None /\ reader'.at = "push" => reader' = reader
  PROVE  BufferOK' /\ DocumentOK'
<1>1. samples' = <<>> /\ taken' = epoch /\ epoch \in Nat /\ taken \in 0..epoch
  BY DEF CollectGamescope, Emptied, FrameInv, BufferOK
<1>2. Strays(samples)' = {}
  BY <1>1 DEF Strays
<1>3. samples' \in Seq(Samples)
  BY <1>1
<1>4. BufferOK'
  BY <1>1, <1>2, <1>3 DEF BufferOK, AtMostOne
<1>5. DocumentOK'
  <2>1. SUFFICES ASSUME frames' # None, ~frames'.first PROVE AtMostOne(Strays(frames.rows))'
    BY DEF DocumentOK
  <2>2. frames' = [from |-> "gamescope", rows |-> samples, first |-> taken < epoch]
    BY <2>1 DEF CollectGamescope
  <2>3. frames'.rows = samples
    BY <2>2
  <2>a. taken < epoch => frames'.first
    BY <2>2
  <2>4. taken = epoch
    BY <1>1, <2>1, <2>a
  <2>5. AtMostOne(Strays(samples))
    BY <2>4 DEF FrameInv, BufferOK
  <2> QED
    BY <2>3, <2>5 DEF AtMostOne, Strays
<1> QED
  BY <1>4, <1>5

\* The rows of a log that opens are read from the position on, which moves to its end.
LEMMA MangoRead ==
  ASSUME MangoOK, CollectMango, UNCHANGED <<logs, latest>>
  PROVE  /\ MangoOK'
         /\ mango'.path = mango.path => NewRows(Switched) \cap shown = {}
<1> DEFINE m == Switched
           rows == NewRows(m)
<1>1. /\ DOMAIN m = {"path", "pos", "checkAge"} /\ m.pos \in Nat /\ m.path \in Logs \cup {None}
      /\ m.path # None => m.pos <= logs[m.path].lines
      /\ m.path = mango.path => m.pos = mango.pos
  BY DEF MangoOK, Switched, NoMango
<1>2. mango' = ReadOn(m) /\ shown' = (IF m.path = mango.path THEN shown ELSE {}) \cup rows
  BY DEF CollectMango
<1> HIDE DEF m, rows
<1>3. CASE ~Opens(m)
  <2>1. mango' = m /\ rows = {}
    BY <1>2, <1>3 DEF ReadOn, NewRows, rows
  <2> QED
    BY <1>1, <1>2, <2>1 DEF MangoOK, rows, m
<1>4. CASE Opens(m)
  <2> DEFINE end == logs[m.path].lines
             from == Max({m.pos + 1, 2})
  <2>1. m.path \in Logs /\ end \in Nat /\ m.path # None
    BY <1>1, <1>4 DEF MangoOK, Opens
  <2>2. from \in Nat /\ from >= 1 /\ from >= m.pos + 1
    <3> DEFINE a == m.pos + 1
    <3>1. a \in Nat /\ a >= 1
      BY <1>1
    <3> HIDE DEF a
    <3>2. Max({a, 2}) = IF a >= 2 THEN a ELSE 2
      BY <3>1, MaxTwo
    <3> QED
      BY <3>1, <3>2 DEF a
  <2>3. rows = {<<m.path, n>> : n \in from..end}
    BY <1>4 DEF NewRows, rows
  <2>4. mango' = [m EXCEPT !.pos = end]
    BY <1>2, <1>4 DEF ReadOn
  <2> HIDE DEF end, from
  <2>5. mango'.pos = end /\ mango'.path = m.path /\ DOMAIN mango' = {"path", "pos", "checkAge"}
    BY <1>1, <2>4
  <2>6. rows \subseteq {m.path} \X (1..end)
    BY <2>1, <2>2, <2>3
  <2>7. m.path = mango.path => shown \subseteq {m.path} \X (1..end)
    <3>1. SUFFICES ASSUME m.path = mango.path PROVE {mango.path} \X (1..mango.pos) \subseteq {m.path} \X (1..end)
      BY DEF MangoOK
    <3>2. m.pos = mango.pos /\ m.pos <= end
      BY <1>1, <2>1, <3>1 DEF end
    <3> QED
      BY <1>1, <2>1, <3>1, <3>2
  <2>8. shown' \subseteq {mango'.path} \X (1..mango'.pos)
    BY <1>2, <2>5, <2>6, <2>7
  <2>9. MangoOK'
    BY <1>1, <1>4, <2>1, <2>5, <2>8 DEF MangoOK, end
  <2>10. ASSUME mango'.path = mango.path PROVE rows \cap shown = {}
    <3>1. m.pos = mango.pos
      BY <1>1, <2>5, <2>10
    <3>2. \A x \in shown : x[2] \in 1..m.pos
      BY <3>1 DEF MangoOK
    <3>3. \A x \in rows : x[2] \in from..end
      BY <2>3
    <3> QED
      BY <1>1, <2>1, <2>2, <3>2, <3>3
  <2> QED
    BY <2>9, <2>10 DEF rows, m
<1> QED
  BY <1>3, <1>4

LEMMA CollectFrameKeeps ==
  ASSUME FrameInv, CollectFrame, pc' = "select"
  PROVE  FrameInv'
<1>1. UNCHANGED <<fifos, link, logs, latest, tracked, appId, attached, epoch, late>>
  BY DEF CollectFrame, sources
<1>2. reader' = Reaped \/ (Reaped = None /\ reader' = NewReader)
  BY DEF CollectFrame, Resolve
<1>3. ReaderOK' /\ AttachedOK' /\ (reader' # None /\ reader'.at = "push" => reader' = reader)
  BY <1>1, <1>2, ReaderReplaced
<1>4. FifosOK' /\ GameOK'
  BY <1>1 DEF FrameInv, FifosOK, GameOK
<1>5. CASE CollectGamescope
  <2>1. BufferOK' /\ DocumentOK'
    BY <1>1, <1>3, <1>5, GamescopeTaken
  <2>2. MangoOK'
    BY <1>1, <1>5 DEF CollectGamescope, FrameInv, MangoOK
  <2> QED
    BY <1>3, <1>4, <2>1, <2>2 DEF FrameInv
<1>6. CASE CollectMango
  <2>1. MangoOK'
    BY <1>1, <1>6, MangoRead DEF FrameInv
  <2>2. samples' = samples /\ taken' = taken
    BY <1>6 DEF CollectMango
  <2>3. BufferOK'
    BY <1>1, <1>3, <2>2 DEF FrameInv, BufferOK, Strays, AtMostOne
  <2>4. frames' # None => frames'.from = "mango"
    BY <1>6 DEF CollectMango
  <2>5. DocumentOK'
    BY <2>4 DEF DocumentOK
  <2> QED
    BY <1>3, <1>4, <2>1, <2>3, <2>5 DEF FrameInv
<1> QED
  BY <1>5, <1>6 DEF CollectFrame

-----------------------------------------------------------------------------
(* Gamescope and MangoHud *)

LEMMA FifoFrame ==
  ASSUME FrameInv, FifosOK', UNCHANGED <<link, logs, latest>>, environment_only, pc' = pc
  PROVE  FrameInv'
BY DEF FrameInv, ReaderOK, AttachedOK, GameOK, BufferOK, Strays, AtMostOne, DocumentOK,
       MangoOK, environment_only, collectorVars

LEMMA GamescopeKeeps ==
  ASSUME FrameInv, Gamescope
  PROVE  FrameInv'
<1>1. ASSUME NEW s \in Sessions, OpenFifo(s) \/ CloseFifo(s) \/ RemoveFifo(s)
      PROVE  FifosOK' /\ UNCHANGED <<link, logs, latest>> /\ environment_only
  <2>1. ASSUME NEW part \in {"writer", "there"}, NEW b, fifos' = [fifos EXCEPT ![s][part] = b]
        PROVE  FifosOK'
    BY <2>1 DEF FrameInv, FifosOK
  <2>2. \E b : \/ fifos' = [fifos EXCEPT ![s]["writer"] = b]
               \/ fifos' = [fifos EXCEPT ![s]["there"] = b]
    BY <1>1, Zenon DEF OpenFifo, CloseFifo, RemoveFifo
  <2>3. UNCHANGED <<link, logs, latest>> /\ environment_only
    BY <1>1, Zenon DEF OpenFifo, CloseFifo, RemoveFifo
  <2> QED
    BY <2>1, <2>2, <2>3
<1>2. ASSUME NEW s \in Sessions, NEW n \in {0, 1}, NEW f \in Seq(Lines), Report(s, n, f)
      PROVE  FifosOK' /\ UNCHANGED <<link, logs, latest>> /\ environment_only
  <2> DEFINE q == <<[fps |-> n]>> \o f
  <2>1. q \in Seq(Lines)
    <3> DEFINE l == [fps |-> n]
    <3>1. l \in Lines
      BY DEF Lines
    <3> HIDE DEF l
    <3>2. <<l>> \in Seq(Lines)
      BY <3>1
    <3>3. <<l>> \o f \in Seq(Lines)
      BY <3>2, ConcatProperties
    <3> QED
      BY <3>3 DEF l
  <2>2. fifos' = [fifos EXCEPT ![s].lines = q]
    BY <1>2 DEF Report
  <2> HIDE DEF q
  <2>3. FifosOK'
    BY <2>1, <2>2 DEF FrameInv, FifosOK
  <2> QED
    BY <1>2, <2>3 DEF Report
<1>3. <<>> \in Seq(Lines) /\ \A app \in Apps : <<[focus |-> app]>> \in Seq(Lines)
  <2>1. \A app \in Apps : [focus |-> app] \in Lines
    BY DEF Lines
  <2> QED
    BY <2>1
<1>4. FifosOK' /\ UNCHANGED <<link, logs, latest>> /\ environment_only
  BY <1>1, <1>2, <1>3 DEF Gamescope
<1> QED
  BY <1>4, FifoFrame DEF Gamescope

LEMMA MangoHudKeeps ==
  ASSUME FrameInv, MangoHud
  PROVE  FrameInv'
<1>1. PICK l \in Logs : WriteLog(l) \/ HandLog(l)
  BY DEF MangoHud
<1>2. /\ UNCHANGED <<fifos, link, tracked, mango, frames, epoch, taken, shown, appId, samples, attached, reader, late, pc>>
      /\ \/ logs' = [logs EXCEPT ![l].lines = @ + 1] /\ latest' = l
         \/ logs' = [logs EXCEPT ![l].opens = ~@] /\ latest' = latest
  BY <1>1 DEF MangoHud, WriteLog, HandLog, environment_only, collectorVars
<1>3. MangoOK'
  <2>1. MangoOK
    BY DEF FrameInv
  <2>2. /\ logs' \in [Logs -> [lines : Nat, opens : BOOLEAN]] /\ latest' \in Logs \cup {None}
        /\ \A k \in Logs : logs[k].lines <= logs'[k].lines
    <3>1. /\ logs \in [Logs -> [lines : Nat, opens : BOOLEAN]] /\ latest \in Logs \cup {None}
          /\ \A k \in Logs : logs[k].lines \in Nat /\ logs[k] \in [lines : Nat, opens : BOOLEAN]
      BY <2>1 DEF MangoOK
    <3>2. CASE logs' = [logs EXCEPT ![l].lines = @ + 1] /\ latest' = l
      BY <3>1, <3>2
    <3>3. CASE logs' = [logs EXCEPT ![l].opens = ~@] /\ latest' = latest
      <4> DEFINE b == ~logs[l].opens
      <4>1. b \in BOOLEAN
        BY Zenon
      <4>2. logs' = [logs EXCEPT ![l].opens = b]
        BY <3>3
      <4> HIDE DEF b
      <4> QED
        BY <3>1, <3>3, <4>1, <4>2
    <3> QED
      BY <1>2, <3>2, <3>3
  <2>3. mango.path # None => mango.pos <= logs'[mango.path].lines
    BY <2>1, <2>2 DEF MangoOK
  <2> QED
    BY <1>2, <2>1, <2>2, <2>3 DEF MangoOK
<1>4. FifosOK' /\ GameOK' /\ DocumentOK' /\ ReaderOK' /\ AttachedOK' /\ BufferOK'
  BY <1>2 DEF FrameInv, FifosOK, GameOK, DocumentOK, ReaderOK, AttachedOK, BufferOK, Strays, AtMostOne
<1> QED
  BY <1>3, <1>4 DEF FrameInv
-----------------------------------------------------------------------------
(* Processes *)

\* There is a newest among the candidates, and it is what a scan returns.
LEMMA NewestStarted ==
  ASSUME StreamInv, NEW pids, pids \subseteq Pids, Newest(pids) # None
  PROVE  Newest(pids).pid \in Pids /\ Newest(pids).start \in 1..starts
<1> DEFINE found == {p \in pids : procs[p] # None /\ procs[p].client}
           New(p) == \A q \in found : procs[q].start <= procs[p].start
           p0 == CHOOSE p \in found : New(p)
<1>1. found # {} /\ Newest(pids) = [pid |-> p0, start |-> procs[p0].start]
  BY DEF Newest
<1>2. \A p \in found : p \in Pids /\ procs[p].start \in 1..starts /\ starts \in Nat
  BY DEF StreamInv
<1>3. \E p \in found : New(p)
  <2> DEFINE T == {starts - procs[p].start : p \in found}
  <2> HIDE DEF found
  <2>1. T \subseteq Nat /\ T # {}
    BY <1>1, <1>2
  <2>2. PICK k \in T : \A j \in T : k <= j
    <3> HIDE DEF T
    <3> QED
      BY <2>1, Least
  <2>3. PICK p \in found : k = starts - procs[p].start
    BY <2>2
  <2>4. ASSUME NEW q \in found PROVE procs[q].start <= procs[p].start
    <3>1. starts - procs[p].start <= starts - procs[q].start
      BY <2>2, <2>3
    <3> QED
      BY <1>2, <3>1
  <2> QED
    BY <2>4
<1>4. p0 \in found
  <2> HIDE DEF found, New
  <2> QED
    BY <1>3
<1> HIDE DEF p0, found
<1> QED
  BY <1>1, <1>2, <1>4

LEMMA SelectKeeps == StreamInv /\ Select => StreamInv'
<1> SUFFICES ASSUME StreamInv, Select PROVE StreamInv'
  OBVIOUS
<1>1. PICK pids \in IF Due THEN Scanned ELSE {{}} :
        LET found == IF Due THEN Newest(pids) ELSE selected IN
        selected' = found /\ sampling' = found
  BY DEF Select, SelectStream
<1>2. Due => pids \subseteq Pids
  BY <1>1 DEF Scanned
<1>3. selected' # None => selected'.pid \in Pids /\ selected'.start \in 1..starts
  <2>1. CASE Due
    <3>1. selected' = Newest(pids)
      BY <1>1, <2>1
    <3> QED
      BY <1>2, <2>1, <3>1, NewestStarted
  <2>2. CASE ~Due
    BY <1>1, <2>2 DEF StreamInv
  <2> QED
    BY <2>1, <2>2
<1>4. sampling' = selected'
  BY <1>1
<1>5. UNCHANGED <<procs, starts>>
  BY DEF Select, SelectStream, table
<1>6. selected' # None => pc' = "sample"
  BY DEF Select
<1> QED
  BY <1>3, <1>4, <1>5, <1>6 DEF StreamInv

LEMMA ProcessesKeep == StreamInv /\ Processes => StreamInv'
<1> SUFFICES ASSUME StreamInv, Processes PROVE StreamInv'
  OBVIOUS
<1>0. pc' = pc
  BY DEF Processes
<1>1. ASSUME NEW p \in Pids, NEW n \in BOOLEAN, NEW c, StartProc(p, n, c) PROVE StreamInv'
  <2> DEFINE r == [start |-> starts + 1, client |-> n,
                   fds |-> [f \in Fds |-> IF f = Min(Fds) THEN c ELSE None]]
  <2>1. /\ starts' = starts + 1 /\ procs' = [procs EXCEPT ![p] = r]
        /\ UNCHANGED <<selected, sampling>>
    BY <1>1 DEF StartProc, table_only
  <2>2. DOMAIN r = {"start", "client", "fds"} /\ r.start = starts + 1
    OBVIOUS
  <2> HIDE DEF r
  <2> QED
    BY <1>0, <2>1, <2>2 DEF StreamInv
<1>2. ASSUME NEW p \in Pids, EndProc(p) PROVE StreamInv'
  BY <1>0, <1>2 DEF EndProc, table_only, StreamInv
<1>3. ASSUME NEW p \in Pids, NEW f, NEW c, SetFd(p, f, c) PROVE StreamInv'
  <2>1. /\ UNCHANGED <<starts, selected, sampling>> /\ procs[p] # None
        /\ procs' = [procs EXCEPT ![p].fds[f] = c]
    BY <1>3 DEF SetFd, table_only
  <2>2. /\ DOMAIN procs' = Pids /\ \A q \in Pids \ {p} : procs'[q] = procs[q]
        /\ DOMAIN procs'[p] = DOMAIN procs[p] /\ procs'[p].start = procs[p].start
    BY <2>1 DEF StreamInv
  <2> QED
    BY <1>0, <2>1, <2>2 DEF StreamInv
<1>4. ASSUME NEW c, NEW e, Run(c, e) PROVE StreamInv'
  BY <1>0, <1>4 DEF Run, table_only, StreamInv
<1> QED
  BY <1>1, <1>2, <1>3, <1>4 DEF Processes

-----------------------------------------------------------------------------
(* The theorems *)

Inv == RatesInv /\ StreamInv /\ FrameInv

LEMMA InitInv == Init => Inv
<1> SUFFICES ASSUME Init PROVE Inv
  OBVIOUS
<1>1. RatesInv
  <2>0. \A s \in Sources : meters[s].up \in BOOLEAN
    <3>1. \A s \in Sources : meters[s].up = TRUE
      BY DEF Init, RatesInit
    <3> QED
      BY <3>1
  <2>a. /\ DOMAIN meters = Sources /\ DOMAIN moved = Sources
        /\ \A s \in Sources :
              /\ DOMAIN meters[s] = {"up", "idle", "count"} /\ DOMAIN moved[s] = {"idle", "count"}
              /\ meters[s].idle = 0 /\ meters[s].count = 0 /\ moved[s].idle = 0 /\ moved[s].count = 0
    BY DEF Init, RatesInit
  <2>1. MetersOK
    BY <2>0, <2>a DEF MetersOK
  <2>2. \A c \in RateCollectors : prev[c] = None /\ replugged[c] = {}
    BY DEF Init, RatesInit, NoRates
  <2> QED
    BY <2>1, <2>2 DEF Init, RatesInit, RatesInv, SnapOK
<1>2. StreamInv
  BY DEF Init, StreamInit, StreamInv
<1>3. FifosOK
  <2>1. fifos \in [Sessions -> [there : BOOLEAN, opens : BOOLEAN, writer : BOOLEAN, lines : Seq(Lines)]]
    BY CollectorsAssumptions DEF Init
  <2> QED
    BY <2>1 DEF FifosOK
<1>4. BufferOK
  <2>1. samples = <<>> /\ epoch = 0 /\ taken = 0
    BY DEF Init, FrameInit
  <2>2. samples \in Seq(Samples) /\ Strays(samples) = {}
    BY <2>1 DEF Strays
  <2> QED
    BY <2>1, <2>2 DEF BufferOK, AtMostOne
<1>5. ReaderOK /\ AttachedOK /\ GameOK /\ DocumentOK /\ MangoOK
  BY DEF Init, FrameInit, ReaderOK, AttachedOK, GameOK, DocumentOK, MangoOK, NoMango
<1> QED
  BY <1>1, <1>2, <1>3, <1>4, <1>5 DEF Inv, FrameInv

LEMMA StepInv == Inv /\ [Next]_vars => Inv'
<1> SUFFICES ASSUME Inv, [Next]_vars PROVE Inv'
  OBVIOUS
<1>0. RatesInv /\ StreamInv /\ FrameInv /\ (frames # None => pc \notin {"poll", "collect"})
      /\ (pc \in {"poll", "collect"} => rates = NoRates) /\ (sampling # None => pc = "sample")
  BY DEF Inv, FrameInv, DocumentOK, RatesInv, StreamInv
<1>1. CASE UNCHANGED vars
  BY <1>0, <1>1, RatesSame, StreamSame, FrameSame DEF Inv, vars
<1>2. CASE Sleep
  <2>1. FrameInv'
    BY <1>0, <1>2, SleepKeeps
  <2>2. RatesInv'
    BY <1>0, <1>2, ZenonT(60) DEF Sleep, machine, RatesInv, MetersOK, SnapOK, Gained, Clean, Up
  <2>3. StreamInv'
    BY <1>0, <1>2 DEF Sleep, table, StreamInv
  <2> QED
    BY <2>1, <2>2, <2>3 DEF Inv
<1>3. CASE Poll
  <2>1. pc = "poll" /\ pc' = "collect" /\ UNCHANGED <<rateVars, streamVars>>
    BY <1>3 DEF Poll
  <2>2. RatesInv' /\ StreamInv'
    BY <1>0, <2>1, RatesSame, StreamSame
  <2>3. FrameInv'
    BY <1>0, <1>3, <2>1, FrameSame, SetGameKeeps, ClearGameKeeps DEF Poll
  <2> QED
    BY <2>2, <2>3 DEF Inv
<1>4. CASE Collect
  <2>1. pc = "collect" /\ pc' = "select" /\ CollectFrame /\ UNCHANGED streamVars
    BY <1>4 DEF Collect
  <2>2. PICK stat \in Reads, snmp \in Reads : CollectRates(stat, snmp)
    BY <1>4 DEF Collect
  <2>3. stat \in BOOLEAN /\ snmp \in BOOLEAN
    BY <2>2 DEF Reads
  <2>4. RatesInv'
    BY <1>0, <2>1, <2>2, <2>3, CollectRatesInv
  <2>5. StreamInv' /\ FrameInv'
    BY <1>0, <2>1, StreamSame, CollectFrameKeeps
  <2> QED
    BY <2>4, <2>5 DEF Inv
<1>5. CASE Select
  <2>1. UNCHANGED <<rateVars, frameVars>> /\ pc' \in {"wait", "sample"}
    BY <1>5 DEF Select
  <2> QED
    BY <1>0, <1>5, <2>1, RatesSame, SelectKeeps, FrameSame DEF Inv
<1>6. CASE SampleClient
  <2>1. UNCHANGED <<rateVars, frameVars, table, selected>> /\ pc' = "wait" /\ sampling' = None
    BY <1>6 DEF SampleClient, SampleStream
  <2>2. StreamInv'
    BY <1>0, <2>1 DEF StreamInv, table
  <2> QED
    BY <1>0, <2>1, <2>2, RatesSame, FrameSame DEF Inv
<1>7. CASE Shutdown
  <2>1. Drop /\ pc = "wait" /\ pc' = "drop" /\ UNCHANGED <<rateVars, streamVars>>
    BY <1>7 DEF Shutdown
  <2> QED
    BY <1>0, <2>1, DropKeeps, RatesSame, StreamSame DEF Inv
<1>8. CASE Joined
  <2>1. pc = "drop" /\ pc' = "gone" /\ UNCHANGED <<rateVars, streamVars, frameVars>>
    BY <1>8 DEF Joined
  <2> QED
    BY <1>0, <2>1, FrameSame, RatesSame, StreamSame DEF Inv
<1>9. CASE Reader \/ ReaderFails
  <2>1. pc' = pc /\ UNCHANGED <<rateVars, streamVars>> /\ (Thread \/ ReadError)
    BY <1>9 DEF Reader, ReaderFails
  <2> QED
    BY <1>0, <2>1, ThreadFrame, ReadErrorKeeps, RatesSame, StreamSame DEF Inv
<1>10. CASE Machine
  <2>1. pc' = pc /\ UNCHANGED <<streamVars, frameVars>>
    BY <1>10 DEF Machine
  <2>2. RatesInv'
    BY <1>0, <1>10, <2>1, CountRates, ReplugRates, RetransmitRates DEF Machine
  <2> QED
    BY <1>0, <2>1, <2>2, FrameSame, StreamSame DEF Inv
<1>11. CASE Processes
  <2>1. pc' = pc /\ UNCHANGED <<rateVars, frameVars>>
    BY <1>11 DEF Processes
  <2> QED
    BY <1>0, <1>11, <2>1, ProcessesKeep, RatesSame, FrameSame DEF Inv
<1>12. CASE Gamescope
  <2>1. pc' = pc /\ UNCHANGED <<rateVars, streamVars>>
    BY <1>12 DEF Gamescope
  <2> QED
    BY <1>0, <1>12, <2>1, GamescopeKeeps, RatesSame, StreamSame DEF Inv
<1>13. CASE MangoHud
  <2>1. pc' = pc /\ UNCHANGED <<rateVars, streamVars>>
    BY <1>13 DEF MangoHud
  <2> QED
    BY <1>0, <1>13, <2>1, MangoHudKeeps, RatesSame, StreamSame DEF Inv
<1> QED
  BY <1>1, <1>2, <1>3, <1>4, <1>5, <1>6, <1>7, <1>8, <1>9, <1>10, <1>11, <1>12, <1>13 DEF Next, Agent

LEMMA AlwaysInv == Spec => []Inv
<1>1. Init => Inv
  BY InitInv
<1>2. Inv /\ [Next]_vars => Inv'
  BY StepInv
<1> QED
  BY <1>1, <1>2, PTL DEF Spec

\* At every moment the collectors' state has its shape, a document holds at most one
\* sample of another game after its first, and an attached flag has a live reader
\* behind it unless that reader took a line after it was told to stop
\* (gamescope.rs, mangohud.rs, stream_client.rs, cpu.rs, storage.rs, network.rs).
THEOREM CollectorsSound == Spec => []CollectorsInv
<1>1. Inv => CollectorsInv
  <2> SUFFICES ASSUME Inv PROVE CollectorsInv
    OBVIOUS
  <2>0. RatesInv /\ StreamInv /\ FrameInv
    BY DEF Inv
  <2>1. TypeOK
    <3>1. \A s \in Sources : meters[s].idle <= meters[s].count /\ meters[s].up \in BOOLEAN
      BY <2>0 DEF RatesInv, MetersOK
    <3>2. \A c \in RateCollectors : prev[c] = None \/ Range(prev[c].order) \subseteq Range(FileOf[c])
      BY <2>0, Files DEF RatesInv, SnapOK
    <3>3. /\ selected # None => selected.pid \in Pids /\ selected.start \in 1..starts
          /\ sampling # None => pc = "sample" /\ sampling = selected
      BY <2>0 DEF StreamInv
    <3>4. reader # None =>
            /\ reader.at \in {"look", "sleep", "read", "line", "match", "push", "done"}
            /\ reader.backoff \in 1..BackoffMax
            /\ reader.demoted \in [Sessions -> 0..Window]
      BY <2>0, ReaderFields DEF FrameInv, ReaderOK
    <3>5. appId = IF tracked = None THEN None ELSE tracked.app
      BY <2>0 DEF FrameInv, GameOK
    <3>6. mango.path = None \/ mango.pos \in 0..logs[mango.path].lines
      BY <2>0 DEF FrameInv, MangoOK
    <3> QED
      BY <3>1, <3>2, <3>3, <3>4, <3>5, <3>6 DEF TypeOK
  <2>2. FramesOfGame
    <3>1. SUFFICES ASSUME frames # None, frames.from = "gamescope", ~frames.first
                   PROVE  Cardinality(Strays(frames.rows)) <= 1
      BY DEF FramesOfGame, Strays
    <3> DEFINE S == Strays(frames.rows)
    <3>2. AtMostOne(S)
      BY <2>0, <3>1 DEF FrameInv, DocumentOK
    <3> HIDE DEF S
    <3>3. S = {} \/ \E x : S = {x}
      BY <3>2 DEF AtMostOne
    <3>4. Cardinality(S) \in {0, 1}
      BY <3>3, FS_EmptySet, FS_Singleton
    <3> QED
      BY <3>4 DEF S
  <2>3. AttachedHonest
    BY <2>0 DEF FrameInv, AttachedOK, ReaderOK, AttachedHonest, Finished
  <2> QED
    BY <2>1, <2>2, <2>3 DEF CollectorsInv
<1> QED
  BY <1>1, AlwaysInv, PTL

\* Nothing but a collection makes documents.
LEMMA OnlyCollect ==
  ASSUME Inv, Next, pc = "collect", ~Collect
  PROVE  rates' = NoRates /\ frames' = None
<1>1. rates = NoRates /\ frames = None
  BY DEF Inv, RatesInv, FrameInv, DocumentOK
<1>2. CASE Sleep \/ Poll \/ Select \/ SampleClient \/ Joined \/ Shutdown
  BY <1>2 DEF Sleep, Poll, Select, SampleClient, Joined, Shutdown
<1>3. CASE Reader \/ ReaderFails
  BY <1>1, <1>3 DEF Reader, ReaderFails, rateVars, Thread, Look, Wake, ReadStop, ReadLine, ReadEnd,
     ReadNothing, TakeLine, Match, Push, ReadError, thread_only, collectorVars
<1>4. CASE Machine
  BY <1>1, <1>4 DEF Machine, Count, Replug, Retransmit, frameVars, collectorVars
<1>5. CASE Processes \/ Gamescope \/ MangoHud
  BY <1>1, <1>5 DEF Processes, Gamescope, MangoHud, rateVars, frameVars, collectorVars, OpenFifo,
     CloseFifo, RemoveFifo, Report, WriteLog, HandLog, environment_only
<1> QED
  BY <1>2, <1>3, <1>4, <1>5 DEF Next, Agent

\* A rate is of one source and one interval: what a disk, an interface or a core has
\* counted since the snapshot it is compared with, over the time since then, unless
\* sources went or came in between (cpu.rs, storage.rs, network.rs collect).
THEOREM RatesRight == Spec => RatesTrue
<1>1. Inv /\ [Next]_vars => [pc = "collect" => CpuTrue /\ GainTrue("storage") /\ GainTrue("network")]_vars
  <2> SUFFICES ASSUME Inv, Next, pc = "collect"
               PROVE  CpuTrue /\ GainTrue("storage") /\ GainTrue("network")
    OBVIOUS
  <2>1. CASE Collect
    <3>1. PICK stat \in Reads, snmp \in Reads : CollectRates(stat, snmp)
      BY <2>1 DEF Collect
    <3>2. stat \in BOOLEAN /\ snmp \in BOOLEAN /\ RatesInv
      BY <3>1 DEF Reads, Inv
    <3> QED
      BY <3>1, <3>2, CollectedRight
  <2>2. CASE ~Collect
    <3>1. rates' = NoRates
      BY <2>2, OnlyCollect
    <3> QED
      BY <3>1 DEF CpuTrue, GainTrue, NoRates, RateCollectors
  <2> QED
    BY <2>1, <2>2
<1> QED
  BY <1>1, AlwaysInv, PTL DEF Spec, RatesTrue

\* No row of a MangoHud log is shipped twice while the log stays the latest, however
\* the game, the FIFOs and the logs change in between (mangohud.rs maybe_switch_log,
\* read_new_rows).
THEOREM RowsShippedOnce == Spec => RowsOnce
<1>1. Inv /\ [Next]_vars =>
        [pc = "collect" /\ frames' # None /\ frames'.from = "mango" /\ mango'.path = mango.path =>
           frames'.rows \cap shown = {}]_vars
  <2> SUFFICES ASSUME Inv, Next, pc = "collect", frames' # None, frames'.from = "mango",
                      mango'.path = mango.path
               PROVE  frames'.rows \cap shown = {}
    OBVIOUS
  <2>1. Collect
    BY OnlyCollect
  <2>2. CollectFrame /\ MangoOK /\ UNCHANGED <<logs, latest>>
    BY <2>1 DEF Collect, CollectFrame, sources, Inv, FrameInv
  <2>3. CollectMango
    <3>1. SUFFICES ASSUME CollectGamescope PROVE FALSE
      BY <2>2 DEF CollectFrame
    <3>2. frames' = [from |-> "gamescope", rows |-> samples, first |-> taken < epoch]
      BY <3>1 DEF CollectGamescope
    <3>3. frames'.from = "gamescope"
      BY <3>2
    <3> QED
      BY <3>3
  <2>4. NewRows(Switched) \cap shown = {}
    BY <2>2, <2>3, MangoRead
  <2>5. frames'.rows = NewRows(Switched)
    BY <2>3 DEF CollectMango
  <2> QED
    BY <2>4, <2>5
<1> QED
  BY <1>1, AlwaysInv, PTL DEF Spec, RowsOnce

-----------------------------------------------------------------------------
(* The stream client's percentages *)

\* The contexts a baseline names, and whether it names all it is of.
Named(b) == {c \in Contexts \ Unnamed : <<"client", c>> \in b.identities}
AllNamed(b) == b.identities \subseteq {<<"client", c>> : c \in Contexts}
Alone(S) == [c \in S |-> c]

\* What a baseline names is open in its own process only.
Own(b) ==
    \A q \in Pids, f \in Fds :
        procs[q] # None /\ procs[q].fds[f] \in Named(b) => procs[q].start = b.process.start

\* A baseline is of the process selected; its total is the engine time then of the
\* contexts it names; and it is compared with only while those are of that process.
BaselineOK(g) ==
    LET b == baseline[g] IN
    b # None =>
        /\ selected # None /\ b.process = selected
        /\ Named(b) \subseteq opened
        /\ \A c \in Contexts : \A e \in Engines[c] : b.was[c][e] \in 0..busy[c][e]
        /\ AllNamed(b) => b.total = Cardinality(Units(Alone(Named(b)), Groups[g], b.was))
        /\ Own(b) \/ (Gone /\ pc # "sample")

TimesOK ==
    /\ DOMAIN busy = Contexts
    /\ \A c \in Contexts : DOMAIN busy[c] = Engines[c] /\ \A e \in Engines[c] : busy[c][e] \in Nat

\* A context is open in one process only.
TablesOK ==
    /\ opened \subseteq Contexts
    /\ \A p \in Pids : procs[p] # None => procs[p].fds \in [Fds -> opened \cup {None}]
    /\ \A p, q \in Pids, f, h \in Fds :
          procs[p] # None /\ procs[q] # None /\ procs[p].fds[f] # None
          /\ procs[p].fds[f] = procs[q].fds[h] => p = q

BusyInv ==
    /\ TimesOK /\ TablesOK
    /\ DOMAIN baseline = DOMAIN Groups
    /\ \A g \in DOMAIN Groups : BaselineOK(g)
    /\ pc = "sample" => client = NoBaselines

LEMMA GroupNames == DOMAIN Groups = {"video", "gfx"} /\ \A g \in DOMAIN Groups : IsFiniteSet(Groups[g])
<1>1. DOMAIN Groups = {"video", "gfx"} /\ Groups["video"] = {"dec", "enc"} /\ Groups["gfx"] = {"gfx"}
  BY DEF Groups
<1>2. IsFiniteSet({"gfx"}) /\ IsFiniteSet({"dec"})
  BY FS_Singleton
<1>3. {"dec", "enc"} = {"dec"} \cup {"enc"}
  OBVIOUS
<1>4. IsFiniteSet({"dec", "enc"})
  BY <1>2, <1>3, FS_AddElement
<1> QED
  BY <1>1, <1>2, <1>4

\* The pairs of a descriptor and an engine that it shows, and their units.
Pairs(context, E) == {y \in (DOMAIN context) \X E : y[2] \in Engines[context[y[1]]]}

LEMMA UnitsMembers ==
  ASSUME NEW context, NEW E, NEW times
  PROVE  \A u : u \in Units(context, E, times) <=>
            \E d \in DOMAIN context, e \in E : \E k :
               /\ u = <<<<d, e>>, k>> /\ e \in Engines[context[d]]
               /\ k \in 1..times[context[d]][e]
<1> DEFINE Of(x) == 1..times[context[x[1]]][x[2]]
<1>1. Units(context, E, times) = UNION {{x} \X Of(x) : x \in Pairs(context, E)}
  BY DEF Units, Pairs
<1>2. ASSUME NEW d \in DOMAIN context, NEW e \in E
      PROVE  Of(<<d, e>>) = 1..times[context[d]][e]
             /\ (<<d, e>> \in Pairs(context, E) <=> e \in Engines[context[d]])
  BY DEF Pairs
<1>3. \A x \in Pairs(context, E) : \E d \in DOMAIN context, e \in E : x = <<d, e>>
  BY DEF Pairs
<1> HIDE DEF Of
<1>4. \A u : u \in Units(context, E, times) <=>
         \E x \in Pairs(context, E) : \E k : u = <<x, k>> /\ k \in Of(x)
  BY <1>1
<1>5. ASSUME NEW u, u \in Units(context, E, times)
      PROVE  \E d \in DOMAIN context, e \in E : \E k :
               /\ u = <<<<d, e>>, k>> /\ e \in Engines[context[d]]
               /\ k \in 1..times[context[d]][e]
  <2>0. PICK x \in Pairs(context, E) : \E k : u = <<x, k>> /\ k \in Of(x)
    BY <1>4, <1>5
  <2>1. PICK k : u = <<x, k>> /\ k \in Of(x)
    BY <2>0
  <2>2. PICK d \in DOMAIN context, e \in E : x = <<d, e>>
    BY <1>3
  <2>3. e \in Engines[context[d]] /\ k \in 1..times[context[d]][e] /\ u = <<<<d, e>>, k>>
    BY <1>2, <2>1, <2>2
  <2> QED
    BY <2>3
<1>6. ASSUME NEW d \in DOMAIN context, NEW e \in E, NEW k, e \in Engines[context[d]],
             k \in 1..times[context[d]][e]
      PROVE  <<<<d, e>>, k>> \in Units(context, E, times)
  <2>1. <<d, e>> \in Pairs(context, E) /\ k \in Of(<<d, e>>)
    BY <1>2, <1>6
  <2> QED
    BY <1>4, <2>1
<1> QED
  BY <1>5, <1>6

LEMMA UnitsFinite ==
  ASSUME NEW context, NEW E, NEW times, IsFiniteSet(DOMAIN context), IsFiniteSet(E),
         \A d \in DOMAIN context : \A e \in Engines[context[d]] : times[context[d]][e] \in Nat
  PROVE  IsFiniteSet(Units(context, E, times))
<1> DEFINE P == Pairs(context, E)
           Of(x) == {x} \X (1..times[context[x[1]]][x[2]])
           F == {Of(x) : x \in P}
           s == [x \in P |-> Of(x)]
<1>1. IsFiniteSet(P)
  <2>1. P \in SUBSET ((DOMAIN context) \X E)
    BY DEF Pairs
  <2>2. IsFiniteSet((DOMAIN context) \X E)
    BY FS_Product
  <2> HIDE DEF P
  <2> QED
    BY <2>1, <2>2, FS_Subset
<1>2. ASSUME NEW x \in P PROVE IsFiniteSet(Of(x))
  <2>1. times[context[x[1]]][x[2]] \in Nat
    BY <1>2 DEF Pairs
  <2>2. \A n \in Nat : IsFiniteSet(1..n)
    BY FS_Interval
  <2>3. IsFiniteSet(1..times[context[x[1]]][x[2]]) /\ IsFiniteSet({x})
    BY <2>1, <2>2, FS_Singleton
  <2> QED
    BY <2>3, FS_Product
<1>3. Units(context, E, times) = UNION F
  BY DEF Units, Pairs
<1> HIDE DEF P, Of
<1>4. s \in Surjection(P, F)
  BY DEF Surjection
<1> HIDE DEF s
<1>5. IsFiniteSet(F)
  <2> HIDE DEF F
  <2> QED
    BY <1>1, <1>4, FS_Surjection
<1>6. \A T \in F : IsFiniteSet(T)
  BY <1>2
<1> HIDE DEF F
<1> QED
  BY <1>3, <1>5, <1>6, FS_UNION

\* Descriptors of different contexts show as many units as the contexts have.
LEMMA UnitsCounted ==
  ASSUME NEW context, NEW E, NEW times, IsFiniteSet(DOMAIN context), IsFiniteSet(E),
         \A d \in DOMAIN context : \A e \in Engines[context[d]] : times[context[d]][e] \in Nat,
         \A d, d2 \in DOMAIN context : context[d] = context[d2] => d = d2
  PROVE  Cardinality(Units(Alone({context[d] : d \in DOMAIN context}), E, times))
            = Cardinality(Units(context, E, times))
<1> DEFINE C == {context[d] : d \in DOMAIN context}
           A == Units(context, E, times)
           B == Units(Alone(C), E, times)
           m == [u \in A |-> <<<<context[u[1][1]], u[1][2]>>, u[2]>>]
<1>1. DOMAIN Alone(C) = C /\ \A c \in C : Alone(C)[c] = c
  BY DEF Alone
<1>2. \A u : u \in A <=> \E d \in DOMAIN context, e \in E : \E k :
               /\ u = <<<<d, e>>, k>> /\ e \in Engines[context[d]]
               /\ k \in 1..times[context[d]][e]
  BY UnitsMembers
<1>3. \A u : u \in B <=> \E c \in C, e \in E : \E k :
               /\ u = <<<<c, e>>, k>> /\ e \in Engines[c]
               /\ k \in 1..times[c][e]
  <2> HIDE DEF C
  <2> QED
    BY <1>1, UnitsMembers
<1>4. IsFiniteSet(A)
  BY UnitsFinite
<1> HIDE DEF A, B
<1>5. \A u \in A : m[u] \in B
  <2> SUFFICES ASSUME NEW u \in A PROVE m[u] \in B
    OBVIOUS
  <2>0. PICK d \in DOMAIN context, e \in E : \E k :
               /\ u = <<<<d, e>>, k>> /\ e \in Engines[context[d]]
               /\ k \in 1..times[context[d]][e]
    BY <1>2
  <2>1. PICK k : /\ u = <<<<d, e>>, k>> /\ e \in Engines[context[d]]
                 /\ k \in 1..times[context[d]][e]
    BY <2>0
  <2>2. m[u] = <<<<context[d], e>>, k>> /\ context[d] \in C
    BY <2>1
  <2> HIDE DEF m, C
  <2> QED
    BY <1>3, <2>1, <2>2
<1>6. \A u, v \in A : m[u] = m[v] => u = v
  <2> SUFFICES ASSUME NEW u \in A, NEW v \in A, m[u] = m[v] PROVE u = v
    OBVIOUS
  <2>a. PICK d \in DOMAIN context, e \in E : \E k : u = <<<<d, e>>, k>>
    BY <1>2
  <2>1. PICK k : u = <<<<d, e>>, k>>
    BY <2>a
  <2>b. PICK d2 \in DOMAIN context, e2 \in E : \E k2 : v = <<<<d2, e2>>, k2>>
    BY <1>2
  <2>2. PICK k2 : v = <<<<d2, e2>>, k2>>
    BY <2>b
  <2>3. m[u] = <<<<context[d], e>>, k>> /\ m[v] = <<<<context[d2], e2>>, k2>>
    BY <2>1, <2>2
  <2> HIDE DEF m
  <2>4. \A x, y, x2, y2 : <<x, y>> = <<x2, y2>> => x = x2 /\ y = y2
    OBVIOUS
  <2>5. <<<<context[d], e>>, k>> = <<<<context[d2], e2>>, k2>>
    BY <2>3
  <2>6. <<context[d], e>> = <<context[d2], e2>> /\ k = k2
    BY <2>4, <2>5
  <2>7. context[d] = context[d2] /\ e = e2
    BY <2>4, <2>6
  <2> QED
    BY <2>1, <2>2, <2>6, <2>7
<1>7. \A w \in B : \E u \in A : m[u] = w
  <2> SUFFICES ASSUME NEW w \in B PROVE \E u \in A : m[u] = w
    OBVIOUS
  <2>0. PICK c \in C, e \in E : \E k : w = <<<<c, e>>, k>> /\ e \in Engines[c] /\ k \in 1..times[c][e]
    BY <1>3
  <2>1. PICK k : w = <<<<c, e>>, k>> /\ e \in Engines[c] /\ k \in 1..times[c][e]
    BY <2>0
  <2>2. PICK d \in DOMAIN context : c = context[d]
    OBVIOUS
  <2>3. <<<<d, e>>, k>> \in A
    BY <1>2, <2>1, <2>2
  <2>4. m[<<<<d, e>>, k>>] = w
    BY <2>1, <2>2, <2>3
  <2> HIDE DEF m
  <2> QED
    BY <2>3, <2>4
<1>8. m \in Bijection(A, B)
  <2>1. m \in [A -> B]
    BY <1>5
  <2> HIDE DEF m
  <2> QED
    BY <1>6, <1>7, <2>1 DEF Bijection, Injection, Surjection, IsInjective
<1> HIDE DEF m
<1>9. ExistsBijection(A, B)
  BY <1>8 DEF ExistsBijection
<1>10. Cardinality(B) = Cardinality(A)
  BY <1>4, <1>9, FS_Bijection
<1> QED
  BY <1>10 DEF A, B

\* What a sample keeps, the contexts it shows and the reading it makes.
Kept == IF sampling = None THEN {} ELSE deduplicate(sampling.pid, read_fdinfo(sampling.pid))
Shown == [f \in Kept |-> procs[sampling.pid].fds[f]]
ShownContexts == {Shown[f] : f \in Kept}
Reading(g) ==
    [process |-> sampling, identities |-> {baseline_identity(sampling.pid, f) : f \in Kept},
     total |-> Cardinality(Units(Shown, Groups[g], busy)), at |-> clock, was |-> busy]
Shows(g) == \E f \in Kept : Engines[Shown[f]] \cap Groups[g] # {}

LEMMA SampleUnfolds ==
  ASSUME SampleStream
  PROVE  /\ client' = [g \in DOMAIN Groups |-> IF Shows(g) THEN delta_percent(baseline[g], Reading(g)) ELSE None]
         /\ baseline' = [g \in DOMAIN Groups |-> IF Shows(g) THEN Reading(g) ELSE baseline[g]]
BY DEF SampleStream, Kept, Shown, Reading, Shows

\* Descriptors kept are open ones of a live process, of different contexts.
LEMMA KeptOnce ==
  ASSUME StreamInv, TablesOK, Kept # {}
  PROVE  /\ sampling # None /\ sampling.pid \in Pids /\ procs[sampling.pid] # None
         /\ Kept \subseteq Fds /\ IsFiniteSet(Kept)
         /\ \A f \in Kept : Shown[f] \in opened /\ Shown[f] \in Contexts
                            /\ Shown[f] = procs[sampling.pid].fds[f]
         /\ \A f, h \in Kept : Shown[f] = Shown[h] => f = h
<1> DEFINE p == sampling.pid
<1>1. sampling # None /\ Kept = deduplicate(p, read_fdinfo(p))
  BY DEF Kept
<1>2. p \in Pids
  BY <1>1 DEF StreamInv
<1>3. Kept \subseteq read_fdinfo(p)
  BY <1>1 DEF deduplicate
<1>4. procs[p] # None /\ \A f \in read_fdinfo(p) : f \in Fds /\ procs[p].fds[f] # None
  BY <1>3 DEF read_fdinfo
<1>5. \A f \in Kept : Shown[f] = procs[p].fds[f]
  BY DEF Shown
<1>6. Kept \subseteq Fds /\ \A f \in Kept : Shown[f] \in opened /\ Shown[f] \in Contexts
  <2>1. procs[p].fds \in [Fds -> opened \cup {None}] /\ opened \subseteq Contexts
    BY <1>2, <1>4 DEF TablesOK
  <2> QED
    BY <1>3, <1>4, <1>5, <2>1
<1>7. ASSUME NEW f \in Kept, NEW h \in Kept, Shown[f] = Shown[h], f < h PROVE FALSE
  <2>1. identity(procs[p].fds[f]) # identity(procs[p].fds[h])
    BY <1>1, <1>3, <1>7 DEF deduplicate
  <2> QED
    BY <1>5, <1>7, <2>1
<1>8. \A f \in Kept : f \in Nat
  BY <1>6, StreamAssumptions
<1>9. \A f, h \in Kept : Shown[f] = Shown[h] => f = h
  BY <1>7, <1>8
<1>10. IsFiniteSet(Kept)
  BY <1>6, StreamAssumptions, FS_Subset
<1> HIDE DEF p
<1> QED
  BY <1>1, <1>2, <1>4, <1>5, <1>6, <1>9, <1>10 DEF p

\* When the descriptors are within the limit, each that shows an engine has one kept
\* that is told apart from no other of the same context.
LEMMA KeptAll ==
  ASSUME StreamInv, TablesOK, sampling # None, sampling.pid \in Pids, procs[sampling.pid] # None,
         NEW f \in Fds, procs[sampling.pid].fds[f] # None,
         Engines[procs[sampling.pid].fds[f]] # {},
         Cardinality({h \in Fds : procs[sampling.pid].fds[h] # None}) <= MaxFiles
  PROVE  \E h \in Kept : identity(procs[sampling.pid].fds[h]) = identity(procs[sampling.pid].fds[f])
<1> DEFINE p == sampling.pid
           open == {h \in Fds : procs[p].fds[h] # None}
           T == {h \in read_fdinfo(p) : identity(procs[p].fds[h]) = identity(procs[p].fds[f])}
<1>1. f \in read_fdinfo(p)
  <2> DEFINE upto == {h \in open : h <= f}
  <2>1. open \in SUBSET Fds /\ upto \in SUBSET open
    OBVIOUS
  <2>2. f \in open
    OBVIOUS
  <2>3. read_fdinfo(p) = {h \in {k \in open : Cardinality({j \in open : j <= k}) <= MaxFiles} :
                            Engines[procs[p].fds[h]] # {}}
    BY DEF read_fdinfo
  <2>a. Cardinality(open) <= MaxFiles
    OBVIOUS
  <2> HIDE DEF open
  <2>4. IsFiniteSet(open)
    BY <2>1, StreamAssumptions, FS_Subset
  <2>5. Cardinality(open) \in Nat
    BY <2>4, FS_CardinalityType
  <2> HIDE DEF upto
  <2>6. IsFiniteSet(upto) /\ Cardinality(upto) <= Cardinality(open)
    BY <2>1, <2>4, FS_Subset
  <2>6a. Cardinality(upto) \in Nat
    BY <2>6, FS_CardinalityType
  <2>7. Cardinality(upto) <= MaxFiles
    BY <2>a, <2>5, <2>6, <2>6a, StreamAssumptions
  <2> QED
    BY <2>2, <2>3, <2>7 DEF upto
<1>2. f \in T /\ T \subseteq Nat
  BY <1>1, StreamAssumptions DEF read_fdinfo
<1>3. PICK m \in T : \A k \in T : m <= k
  <2> HIDE DEF T
  <2> QED
    BY <1>2, Least
<1>4. ASSUME NEW g \in read_fdinfo(p), g < m
      PROVE  identity(procs[p].fds[g]) # identity(procs[p].fds[m])
  <2>1. g \in Nat /\ m \in Nat /\ m \in T
    BY <1>2, <1>3, StreamAssumptions DEF read_fdinfo
  <2>2. g \notin T
    <3> HIDE DEF T
    <3> QED
      BY <1>3, <1>4, <2>1
  <2> QED
    BY <1>4, <2>1, <2>2
<1>5. m \in deduplicate(p, read_fdinfo(p))
  BY <1>3, <1>4 DEF deduplicate
<1>6. m \in Kept
  BY <1>5 DEF Kept
<1> QED
  BY <1>3, <1>6\* A reading that names all its contexts adds up their engine time, each once.
LEMMA ReadingNamed ==
  ASSUME StreamInv, TablesOK, TimesOK, Kept # {}, NEW g \in DOMAIN Groups
  PROVE  /\ Named(Reading(g)) \subseteq ShownContexts
         /\ AllNamed(Reading(g)) =>
              /\ Named(Reading(g)) = ShownContexts
              /\ Reading(g).total = Cardinality(Units(Alone(ShownContexts), Groups[g], busy))
<1> DEFINE p == sampling.pid
           ids == {baseline_identity(p, f) : f \in Kept}
<1>1. /\ Kept \subseteq Fds /\ IsFiniteSet(Kept)
      /\ \A f \in Kept : Shown[f] \in Contexts /\ Shown[f] = procs[p].fds[f]
      /\ \A f, h \in Kept : Shown[f] = Shown[h] => f = h
  BY KeptOnce
<1>2. /\ Reading(g).identities = ids
      /\ Reading(g).total = Cardinality(Units(Shown, Groups[g], busy))
  BY DEF Reading
<1>3. \A f \in Kept : baseline_identity(p, f) = IF Shown[f] \in Unnamed THEN <<"fd", f>> ELSE <<"client", Shown[f]>>
  BY <1>1 DEF baseline_identity
<1>4. \A x, y, z, w : <<x, y>> = <<z, w>> => x = z /\ y = w
  OBVIOUS
<1>5. "fd" # "client"
  OBVIOUS
<1>6. ASSUME NEW c \in Contexts, <<"client", c>> \in ids PROVE c \in ShownContexts
  <2>1. PICK f \in Kept : <<"client", c>> = baseline_identity(p, f)
    BY <1>6
  <2>2. Shown[f] \notin Unnamed /\ <<"client", c>> = <<"client", Shown[f]>>
    BY <1>3, <1>4, <1>5, <2>1
  <2>3. c = Shown[f]
    BY <1>4, <2>2
  <2> QED
    BY <2>3 DEF ShownContexts
<1>7. Named(Reading(g)) \subseteq ShownContexts
  BY <1>2, <1>6 DEF Named
<1>8. ASSUME AllNamed(Reading(g)) PROVE ShownContexts \subseteq Named(Reading(g))
  <2> SUFFICES ASSUME NEW f \in Kept PROVE Shown[f] \in Named(Reading(g))
    BY DEF ShownContexts
  <2>1. baseline_identity(p, f) \in ids
    OBVIOUS
  <2>2. PICK c \in Contexts : baseline_identity(p, f) = <<"client", c>>
    BY <1>2, <1>8, <2>1 DEF AllNamed
  <2>3. Shown[f] \notin Unnamed
    BY <1>3, <1>4, <1>5, <2>2
  <2> QED
    BY <1>1, <1>2, <1>3, <2>1, <2>3 DEF Named
<1>9. Cardinality(Units(Alone(ShownContexts), Groups[g], busy)) = Cardinality(Units(Shown, Groups[g], busy))
  <2>1. DOMAIN Shown = Kept /\ ShownContexts = {Shown[d] : d \in DOMAIN Shown}
    BY DEF Shown, ShownContexts
  <2>2. IsFiniteSet(Groups[g])
    BY GroupNames
  <2>3. \A d \in DOMAIN Shown : \A e \in Engines[Shown[d]] : busy[Shown[d]][e] \in Nat
    BY <1>1, <2>1 DEF TimesOK
  <2>4. IsFiniteSet(DOMAIN Shown) /\ \A d, d2 \in DOMAIN Shown : Shown[d] = Shown[d2] => d = d2
    BY <1>1, <2>1
  <2>5. Cardinality(Units(Alone({Shown[d] : d \in DOMAIN Shown}), Groups[g], busy))
          = Cardinality(Units(Shown, Groups[g], busy))
    BY <2>2, <2>3, <2>4, UnitsCounted
  <2> QED
    BY <2>1, <2>5
<1> QED
  BY <1>2, <1>7, <1>8, <1>9

\* The units of contexts: those without engines have none.
LEMMA UnitsOfContexts ==
  ASSUME NEW S, NEW E, NEW times
  PROVE  \A u : u \in Units(Alone(S), E, times) <=>
            \E c \in S, e \in E : \E k : u = <<<<c, e>>, k>> /\ e \in Engines[c] /\ k \in 1..times[c][e]
<1>1. DOMAIN Alone(S) = S /\ \A c \in S : Alone(S)[c] = c
  BY DEF Alone
<1> QED
  BY <1>1, UnitsMembers

LEMMA UnitsWithEngines ==
  ASSUME NEW S, NEW O, NEW E, NEW times, S \subseteq O, \A c \in O \ S : Engines[c] = {}
  PROVE  Units(Alone(O), E, times) = Units(Alone(S), E, times)
<1>1. \A u : u \in Units(Alone(O), E, times) <=>
            \E c \in O, e \in E : \E k : u = <<<<c, e>>, k>> /\ e \in Engines[c] /\ k \in 1..times[c][e]
  BY UnitsOfContexts
<1>2. \A u : u \in Units(Alone(S), E, times) <=>
            \E c \in S, e \in E : \E k : u = <<<<c, e>>, k>> /\ e \in Engines[c] /\ k \in 1..times[c][e]
  BY UnitsOfContexts
<1>3. \A u : u \in Units(Alone(O), E, times) <=> u \in Units(Alone(S), E, times)
  BY <1>1, <1>2
<1> QED
  BY <1>3

\* What has been added to each engine's time are the units that were not there before.
LEMMA UnitsAdded ==
  ASSUME NEW S, IsFiniteSet(S), NEW E, IsFiniteSet(E), NEW was, NEW now,
         \A c \in S : \A e \in Engines[c] : now[c][e] \in Nat /\ was[c][e] \in 0..now[c][e]
  PROVE  Cardinality(Units(Alone(S), E, now) \ Units(Alone(S), E, was))
            = Cardinality(Units(Alone(S), E, now)) - Cardinality(Units(Alone(S), E, was))
<1> DEFINE A == Units(Alone(S), E, now)
           B == Units(Alone(S), E, was)
<1>1. \A u : u \in A <=>
            \E c \in S, e \in E : \E k : u = <<<<c, e>>, k>> /\ e \in Engines[c] /\ k \in 1..now[c][e]
  BY UnitsOfContexts
<1>2. \A u : u \in B <=>
            \E c \in S, e \in E : \E k : u = <<<<c, e>>, k>> /\ e \in Engines[c] /\ k \in 1..was[c][e]
  BY UnitsOfContexts
<1>3. IsFiniteSet(A)
  <2>1. DOMAIN Alone(S) = S /\ \A c \in S : Alone(S)[c] = c
    BY DEF Alone
  <2> QED
    BY <2>1, UnitsFinite
<1> HIDE DEF A, B
<1>4. B \subseteq A
  <2> SUFFICES ASSUME NEW u \in B PROVE u \in A
    OBVIOUS
  <2>0. PICK c \in S, e \in E : \E k : u = <<<<c, e>>, k>> /\ e \in Engines[c] /\ k \in 1..was[c][e]
    BY <1>2
  <2>1. PICK k : u = <<<<c, e>>, k>> /\ e \in Engines[c] /\ k \in 1..was[c][e]
    BY <2>0
  <2>2. k \in 1..now[c][e]
    BY <2>1
  <2> QED
    BY <1>1, <2>1, <2>2
<1>5. A \cap B = B
  BY <1>4
<1>6. Cardinality(A \ B) = Cardinality(A) - Cardinality(B)
  BY <1>3, <1>5, FS_Difference
<1> QED
  BY <1>6 DEF A, B\* A percentage is of one process, and its gain what the contexts open in it have
\* added since the baseline.
LEMMA SampledRight ==
  ASSUME StreamInv, BusyInv, pc = "sample", SampleStream, NEW g \in DOMAIN Groups
  PROVE  BusyTrueOf(g)
<1> DEFINE p == sampling.pid
           fds == {f \in Fds : procs[p].fds[f] # None}
           O == {procs[p].fds[f] : f \in fds}
           b == baseline[g]
           new == Reading(g)
           S == ShownContexts
<1> SUFFICES ASSUME client'[g] # None, procs[p] = None \/ O \cap Unnamed = {}
             PROVE  /\ procs[p] # None /\ procs[p].start = sampling.start
                    /\ client'[g].elapsed = clock - baseline[g].at
                    /\ Cardinality(fds) <= MaxFiles =>
                         client'[g].gain = Cardinality(Units(Alone(O), Groups[g], busy)
                                                       \ Units(Alone(O), Groups[g], baseline[g].was))
  BY DEF BusyTrueOf, Alone
<1>1. /\ Shows(g) /\ client'[g] = delta_percent(b, new)
  BY SampleUnfolds
<1>2. Kept # {}
  BY <1>1 DEF Shows
<1>3. /\ sampling # None /\ p \in Pids /\ procs[p] # None
      /\ Kept \subseteq Fds /\ IsFiniteSet(Kept)
      /\ \A f \in Kept : Shown[f] \in opened /\ Shown[f] \in Contexts /\ Shown[f] = procs[p].fds[f]
  BY <1>2, KeptOnce DEF BusyInv
<1>4. O \cap Unnamed = {}
  BY <1>3
<1>5. /\ b # None /\ b.process = new.process /\ b.identities = new.identities
      /\ client'[g] = [gain |-> new.total - b.total, elapsed |-> new.at - b.at]
  BY <1>1 DEF delta_percent
<1>6. new.process = sampling /\ new.at = clock /\ new.was = busy
      /\ new.identities = {baseline_identity(p, f) : f \in Kept}
  BY DEF Reading
<1>7. \A f \in Kept : f \in fds /\ Shown[f] \in O /\ Shown[f] \notin Unnamed
  BY <1>3, <1>4, StreamAssumptions
<1>8. AllNamed(new)
  BY <1>3, <1>6, <1>7 DEF AllNamed, baseline_identity
<1>9. Named(new) = S /\ new.total = Cardinality(Units(Alone(S), Groups[g], busy))
  BY <1>2, <1>8, ReadingNamed DEF BusyInv
<1>10. BaselineOK(g)
  BY DEF BusyInv
<1>11. Named(b) = S /\ AllNamed(b)
  BY <1>5, <1>8, <1>9 DEF Named, AllNamed
<1>12. /\ \A c \in Contexts : \A e \in Engines[c] : b.was[c][e] \in 0..busy[c][e]
       /\ b.total = Cardinality(Units(Alone(S), Groups[g], b.was))
       /\ Own(b)
  BY <1>5, <1>10, <1>11 DEF BaselineOK
<1>13. procs[p].start = sampling.start
  <2>1. PICK f \in Kept : TRUE
    BY <1>2
  <2>2. procs[p].fds[f] \in Named(b) /\ f \in Fds
    BY <1>3, <1>11, <2>1 DEF ShownContexts
  <2> QED
    BY <1>3, <1>5, <1>6, <1>12, <2>2 DEF Own
<1>14. client'[g].elapsed = clock - b.at
  BY <1>5, <1>6
<1>15. ASSUME Cardinality(fds) <= MaxFiles
       PROVE  client'[g].gain = Cardinality(Units(Alone(O), Groups[g], busy)
                                            \ Units(Alone(O), Groups[g], b.was))
  <2>1. S \subseteq O
    BY <1>7 DEF ShownContexts
  <2>2. ASSUME NEW c \in O, Engines[c] # {} PROVE c \in S
    <3>1. PICK f \in fds : c = procs[p].fds[f]
      OBVIOUS
    <3>2. PICK h \in Kept : identity(procs[p].fds[h]) = identity(procs[p].fds[f])
      BY <1>3, <1>15, <2>2, <3>1, KeptAll DEF BusyInv
    <3>3. procs[p].fds[h] \notin Unnamed /\ c \notin Unnamed
      BY <1>3, <1>4, <1>7, <3>2
    <3>4. <<"client", procs[p].fds[h]>> = <<"client", c>>
      BY <3>1, <3>2, <3>3 DEF identity
    <3>5. procs[p].fds[h] = c
      BY <3>4
    <3> QED
      BY <1>3, <3>2, <3>5 DEF ShownContexts
  <2>3. \A c \in O \ S : Engines[c] = {}
    BY <2>2
  <2> HIDE DEF O, S
  <2>4. /\ Units(Alone(O), Groups[g], busy) = Units(Alone(S), Groups[g], busy)
        /\ Units(Alone(O), Groups[g], b.was) = Units(Alone(S), Groups[g], b.was)
    BY <2>1, <2>3, UnitsWithEngines
  <2>5. S \subseteq Contexts /\ IsFiniteSet(S)
    <3> DEFINE r == [f \in Kept |-> Shown[f]]
    <3>1. r \in Surjection(Kept, S) /\ S \subseteq Contexts
      BY <1>3 DEF S, ShownContexts, Surjection
    <3> HIDE DEF r
    <3> QED
      BY <1>3, <3>1, FS_Surjection
  <2>6. \A c \in S : \A e \in Engines[c] : busy[c][e] \in Nat /\ b.was[c][e] \in 0..busy[c][e]
    BY <1>12, <2>5 DEF BusyInv, TimesOK
  <2>7. IsFiniteSet(Groups[g])
    BY GroupNames
  <2> HIDE DEF b
  <2>8. Cardinality(Units(Alone(S), Groups[g], busy) \ Units(Alone(S), Groups[g], b.was))
          = Cardinality(Units(Alone(S), Groups[g], busy)) - Cardinality(Units(Alone(S), Groups[g], b.was))
    BY <2>5, <2>6, <2>7, UnitsAdded
  <2> QED
    BY <1>5, <1>9, <1>12, <2>4, <2>8
<1> QED
  BY <1>3, <1>13, <1>14, <1>15

-----------------------------------------------------------------------------
(* The baselines stay what they were *)

LEMMA InitBusy == Init => BusyInv
<1> SUFFICES ASSUME Init PROVE BusyInv
  OBVIOUS
<1>1. TimesOK /\ TablesOK
  BY DEF Init, StreamInit, TimesOK, TablesOK
<1>2. DOMAIN baseline = DOMAIN Groups /\ \A g \in DOMAIN Groups : BaselineOK(g)
  BY DEF Init, StreamInit, NoBaselines, BaselineOK
<1> QED
  BY <1>1, <1>2 DEF Init, BusyInv

LEMMA BusySame ==
  ASSUME BusyInv, UNCHANGED <<procs, busy, opened, selected, baseline>>,
         pc' # "sample" \/ (pc' = pc /\ client' = client)
  PROVE  BusyInv'
<1>1. TimesOK' /\ TablesOK' /\ DOMAIN baseline' = DOMAIN Groups
  BY DEF BusyInv, TimesOK, TablesOK
<1>2. (pc = "sample" => client = NoBaselines)'
  BY DEF BusyInv
<1>3. ASSUME NEW g \in DOMAIN Groups PROVE BaselineOK(g)'
  <2>1. BaselineOK(g) /\ (Gone' <=> Gone) /\ (Own(baseline[g])' <=> Own(baseline[g]))
    BY DEF BusyInv, Gone, starttime, Own
  <2>2. pc' = "sample" => pc = "sample"
    OBVIOUS
  <2> QED
    BY <2>1, <2>2 DEF BaselineOK
<1> QED
  BY <1>1, <1>2, <1>3 DEF BusyInv

\* A selection of another process, or of none while the old one is gone, drops the
\* baselines; one that stays finds its process alive.
LEMMA SelectBusy == StreamInv /\ BusyInv /\ Select => BusyInv'
<1> SUFFICES ASSUME StreamInv, BusyInv, Select PROVE BusyInv'
  OBVIOUS
<1>1. UNCHANGED <<procs, busy, opened>> /\ client' = NoBaselines
  BY DEF Select, SelectStream, table
<1>2. TimesOK' /\ TablesOK'
  BY <1>1 DEF BusyInv, TimesOK, TablesOK
<1>3. \/ baseline' = NoBaselines
      \/ baseline' = baseline /\ selected' = selected /\ ~Gone
  BY DEF Select, SelectStream
<1>4. CASE baseline' = NoBaselines
  BY <1>1, <1>2, <1>4 DEF BusyInv, BaselineOK, NoBaselines
<1>5. CASE baseline' = baseline /\ selected' = selected /\ ~Gone
  <2>1. ASSUME NEW g \in DOMAIN Groups PROVE BaselineOK(g)'
    <3>1. BaselineOK(g) /\ (Own(baseline[g])' <=> Own(baseline[g]))
      BY <1>1, <1>5 DEF BusyInv, Own
    <3> QED
      BY <1>1, <1>5, <3>1 DEF BaselineOK
  <2> QED
    BY <1>1, <1>2, <1>5, <2>1 DEF BusyInv
<1> QED
  BY <1>3, <1>4, <1>5

LEMMA SampleBusy == StreamInv /\ BusyInv /\ SampleClient => BusyInv'
<1> SUFFICES ASSUME StreamInv, BusyInv, SampleClient PROVE BusyInv'
  OBVIOUS
<1>1. UNCHANGED <<procs, busy, opened, selected>> /\ pc' = "wait" /\ SampleStream
  BY DEF SampleClient, SampleStream, table
<1>2. TimesOK' /\ TablesOK'
  BY <1>1 DEF BusyInv, TimesOK, TablesOK
<1>3. baseline' = [g \in DOMAIN Groups |-> IF Shows(g) THEN Reading(g) ELSE baseline[g]]
  BY <1>1, SampleUnfolds
<1>4. ASSUME NEW g \in DOMAIN Groups PROVE BaselineOK(g)'
  <2>0. Gone' <=> Gone
    BY <1>1 DEF Gone, starttime
  <2>1. CASE ~Shows(g)
    <3>1. baseline'[g] = baseline[g] /\ BaselineOK(g)
      BY <1>3, <2>1 DEF BusyInv
    <3>2. Own(baseline[g])' <=> Own(baseline[g])
      BY <1>1, <3>1 DEF Own
    <3> QED
      BY <1>1, <2>0, <3>1, <3>2 DEF BaselineOK
  <2>2. CASE Shows(g)
    <3> DEFINE b == Reading(g)
               p == sampling.pid
    <3>1. Kept # {} /\ baseline'[g] = b
      BY <1>3, <2>2 DEF Shows
    <3>2. /\ sampling # None /\ p \in Pids /\ procs[p] # None
          /\ Kept \subseteq Fds
          /\ \A f \in Kept : Shown[f] \in opened /\ Shown[f] \in Contexts /\ Shown[f] = procs[p].fds[f]
      BY <3>1, KeptOnce DEF BusyInv
    <3>3. sampling = selected
      BY <3>2 DEF StreamInv
    <3>4. /\ Named(b) \subseteq ShownContexts
          /\ AllNamed(b) => /\ Named(b) = ShownContexts
                            /\ b.total = Cardinality(Units(Alone(ShownContexts), Groups[g], busy))
      BY <3>1, ReadingNamed DEF BusyInv
    <3>5. b.process = sampling /\ b.was = busy
      BY DEF Reading
    <3> HIDE DEF b
    <3>6. ASSUME procs[p].start = sampling.start PROVE Own(baseline[g])'
      <4> SUFFICES ASSUME NEW q \in Pids, NEW f \in Fds, procs[q] # None, procs[q].fds[f] \in Named(b)
                   PROVE  procs[q].start = b.process.start
        BY <1>1, <3>1 DEF Own
      <4>1. PICK h \in Kept : procs[q].fds[f] = procs[p].fds[h] /\ procs[p].fds[h] \in Contexts
        BY <3>2, <3>4 DEF ShownContexts
      <4>2. procs[p].fds[h] # None
        BY <4>1, StreamAssumptions
      <4>3. q = p
        BY <3>2, <4>1, <4>2 DEF BusyInv, TablesOK
      <4> QED
        BY <3>5, <3>6, <4>3
    <3>7. ASSUME procs[p].start # sampling.start PROVE Gone'
      BY <1>1, <3>2, <3>3, <3>7 DEF Gone, starttime
    <3>8. Named(b) \subseteq opened
      BY <3>2, <3>4 DEF ShownContexts
    <3>9. \A c \in Contexts : \A e \in Engines[c] : b.was[c][e] \in 0..busy[c][e]
      BY <3>5 DEF BusyInv, TimesOK
    <3>10. AllNamed(b) => b.total = Cardinality(Units(Alone(Named(b)), Groups[g], b.was))
      BY <3>4, <3>5
    <3>11. selected' # None /\ b.process = selected'
      BY <1>1, <3>2, <3>3, <3>5
    <3>12. Own(baseline[g])' \/ (Gone' /\ pc' # "sample")
      BY <1>1, <3>6, <3>7
    <3> QED
      BY <1>1, <3>1, <3>8, <3>9, <3>10, <3>11, <3>12 DEF BaselineOK
  <2> QED
    BY <2>1, <2>2
<1>5. DOMAIN baseline' = DOMAIN Groups
  BY <1>3
<1> QED
  BY <1>1, <1>2, <1>4, <1>5 DEF BusyInv

-----------------------------------------------------------------------------
(* Processes and their descriptors *)

\* A process that is gone stays gone: start times are not handed out twice.
LEMMA GoneStays ==
  ASSUME StreamInv, Gone, selected' = selected,
         \A q \in Pids : procs'[q] = None \/ procs'[q].start = starts + 1
                         \/ (procs[q] # None /\ procs'[q].start = procs[q].start)
  PROVE  Gone'
<1>1. selected # None /\ selected.pid \in Pids /\ selected.start \in Nat /\ selected.start <= starts
      /\ starts \in Nat
  BY DEF Gone, StreamInv
<1> DEFINE q == selected.pid
<1>2. CASE procs'[q] = None
  BY <1>1, <1>2, StreamAssumptions DEF Gone, starttime
<1>3. CASE procs'[q] # None /\ procs'[q].start = starts + 1
  BY <1>1, <1>3 DEF Gone, starttime
<1>4. CASE procs'[q] # None /\ procs[q] # None /\ procs'[q].start = procs[q].start
  BY <1>1, <1>4 DEF Gone, starttime
<1> QED
  BY <1>1, <1>2, <1>3, <1>4

\* The processes change, their contexts being new or open in the same process before.
LEMMA TableBusy ==
  ASSUME StreamInv, BusyInv, UNCHANGED <<busy, selected, baseline, client>>, pc' = pc,
         opened \subseteq opened', TablesOK',
         \A q \in Pids : procs'[q] = None \/ procs'[q].start = starts + 1
                         \/ (procs[q] # None /\ procs'[q].start = procs[q].start),
         \A q \in Pids, f \in Fds :
            procs'[q] # None =>
               \/ procs'[q].fds[f] \notin opened
               \/ /\ procs[q] # None /\ procs'[q].start = procs[q].start
                  /\ \E h \in Fds : procs[q].fds[h] = procs'[q].fds[f]
  PROVE  BusyInv'
<1>1. TimesOK' /\ DOMAIN baseline' = DOMAIN Groups
  BY DEF BusyInv, TimesOK
<1>2. (pc = "sample" => client = NoBaselines)'
  BY DEF BusyInv
<1>3. ASSUME NEW g \in DOMAIN Groups PROVE BaselineOK(g)'
  <2> DEFINE b == baseline[g]
  <2> SUFFICES ASSUME b # None PROVE BaselineOK(g)'
    BY DEF BaselineOK
  <2>1. /\ selected # None /\ b.process = selected /\ Named(b) \subseteq opened
        /\ \A c \in Contexts : \A e \in Engines[c] : b.was[c][e] \in 0..busy[c][e]
        /\ AllNamed(b) => b.total = Cardinality(Units(Alone(Named(b)), Groups[g], b.was))
        /\ Own(b) \/ (Gone /\ pc # "sample")
    BY DEF BusyInv, BaselineOK
  <2>2. ASSUME Own(b) PROVE Own(baseline[g])'
    <3> SUFFICES ASSUME NEW q \in Pids, NEW f \in Fds, procs'[q] # None, procs'[q].fds[f] \in Named(b)
                 PROVE  procs'[q].start = b.process.start
      BY DEF Own
    <3>1. /\ procs[q] # None /\ procs'[q].start = procs[q].start
          /\ \E h \in Fds : procs[q].fds[h] = procs'[q].fds[f]
      BY <2>1
    <3> QED
      BY <2>2, <3>1 DEF Own
  <2>3. Gone => Gone'
    BY GoneStays
  <2> HIDE DEF b
  <2>4. baseline'[g] = b /\ Named(b) \subseteq opened'
    BY <2>1 DEF b
  <2> QED
    BY <2>1, <2>2, <2>3, <2>4 DEF BaselineOK
<1> QED
  BY <1>1, <1>2, <1>3 DEF BusyInv

LEMMA StartBusy ==
  ASSUME StreamInv, BusyInv, pc' = pc, NEW p \in Pids, NEW n, NEW c, StartProc(p, n, c)
  PROVE  BusyInv'
<1> DEFINE fds == [f \in Fds |-> IF f = Min(Fds) THEN c ELSE None]
           r == [start |-> starts + 1, client |-> n, fds |-> fds]
<1>1. /\ procs' = [procs EXCEPT ![p] = r] /\ opened' = opened \cup {c}
      /\ c \in Contexts /\ c \notin opened /\ procs[p] = None
      /\ UNCHANGED <<busy, selected, baseline, client>>
  BY DEF StartProc, Fresh, table_only
<1>2. r.fds = fds /\ r.start = starts + 1
  OBVIOUS
<1>3. \A f \in Fds : fds[f] \in {c, None}
  OBVIOUS
<1>4. fds \in [Fds -> opened' \cup {None}]
  BY <1>1
<1> HIDE DEF r, fds
<1>5. procs'[p] = r /\ \A q \in Pids \ {p} : procs'[q] = procs[q]
  BY <1>1 DEF StreamInv
<1>6. /\ opened \subseteq Contexts
      /\ \A q \in Pids : procs[q] # None => procs[q].fds \in [Fds -> opened \cup {None}]
  BY DEF BusyInv, TablesOK
<1>7. None \notin opened
  BY <1>6, StreamAssumptions
<1>8. TablesOK'
  <2>1. opened' \subseteq Contexts
    BY <1>1, <1>6
  <2>2. ASSUME NEW q \in Pids, procs'[q] # None PROVE procs'[q].fds \in [Fds -> opened' \cup {None}]
    <3>1. CASE q = p
      BY <1>2, <1>4, <1>5, <3>1
    <3>2. CASE q # p
      BY <1>1, <1>5, <1>6, <2>2, <3>2
    <3> QED
      BY <3>1, <3>2
  <2>3. ASSUME NEW q1 \in Pids, NEW q2 \in Pids, NEW f \in Fds, NEW h \in Fds, procs'[q1] # None,
               procs'[q2] # None, procs'[q1].fds[f] # None, procs'[q1].fds[f] = procs'[q2].fds[h]
        PROVE  q1 = q2
    <3>1. CASE q1 # p /\ q2 # p
      BY <1>5, <2>3, <3>1 DEF BusyInv, TablesOK
    <3>2. CASE q1 = p /\ q2 # p
      <4>1. fds[f] = c /\ procs[q2].fds[h] \in opened \cup {None} /\ procs'[q2] = procs[q2]
        BY <1>2, <1>3, <1>5, <1>6, <2>3, <3>2
      <4> QED
        BY <1>1, <1>2, <1>5, <2>3, <3>2, <4>1
    <3>3. CASE q1 # p /\ q2 = p
      <4>1. fds[h] = c /\ procs[q1].fds[f] \in opened \cup {None} /\ procs'[q1] = procs[q1]
        BY <1>2, <1>3, <1>5, <1>6, <2>3, <3>3
      <4> QED
        BY <1>1, <1>2, <1>5, <2>3, <3>3, <4>1
    <3> QED
      BY <3>1, <3>2, <3>3
  <2> QED
    BY <2>1, <2>2, <2>3 DEF TablesOK
<1>9. \A q \in Pids : procs'[q] = None \/ procs'[q].start = starts + 1
                         \/ (procs[q] # None /\ procs'[q].start = procs[q].start)
  BY <1>2, <1>5
<1>10. \A q \in Pids, f \in Fds :
            procs'[q] # None =>
               \/ procs'[q].fds[f] \notin opened
               \/ /\ procs[q] # None /\ procs'[q].start = procs[q].start
                  /\ \E h \in Fds : procs[q].fds[h] = procs'[q].fds[f]
  BY <1>1, <1>2, <1>3, <1>5, <1>7
<1> QED
  BY <1>1, <1>8, <1>9, <1>10, TableBusy

LEMMA EndBusy ==
  ASSUME StreamInv, BusyInv, pc' = pc, NEW p \in Pids, EndProc(p)
  PROVE  BusyInv'
<1>1. /\ procs'[p] = None /\ \A q \in Pids \ {p} : procs'[q] = procs[q]
      /\ UNCHANGED <<opened, busy, selected, baseline, client>>
  BY DEF EndProc, table_only, StreamInv
<1>2. TablesOK'
  BY <1>1 DEF BusyInv, TablesOK
<1>3. \A q \in Pids : procs'[q] = None \/ (procs[q] # None /\ procs'[q] = procs[q])
  BY <1>1
<1> QED
  BY <1>1, <1>2, <1>3, TableBusy

LEMMA SetFdBusy ==
  ASSUME StreamInv, BusyInv, pc' = pc, NEW p \in Pids, NEW f \in Fds, NEW c, SetFd(p, f, c)
  PROVE  BusyInv'
<1>1. /\ procs[p] # None /\ procs' = [procs EXCEPT ![p].fds[f] = c] /\ opened' = opened \cup ({c} \ {None})
      /\ c \in {None} \cup Range(procs[p].fds) \cup Fresh
      /\ UNCHANGED <<busy, selected, baseline, client>>
  BY DEF SetFd, table_only
<1>2. /\ opened \subseteq Contexts
      /\ \A q \in Pids : procs[q] # None => procs[q].fds \in [Fds -> opened \cup {None}]
  BY DEF BusyInv, TablesOK
<1>3. /\ \A q \in Pids \ {p} : procs'[q] = procs[q]
      /\ procs'[p].start = procs[p].start /\ procs'[p].fds = [procs[p].fds EXCEPT ![f] = c]
  BY <1>1 DEF StreamInv
<1>4. /\ procs'[p].fds[f] = c /\ DOMAIN procs'[p].fds = Fds
      /\ \A h \in Fds \ {f} : procs'[p].fds[h] = procs[p].fds[h]
      /\ procs'[p].fds \in [Fds -> opened' \cup {None}]
  BY <1>1, <1>2, <1>3
<1>5. \/ c = None
      \/ c \in opened /\ \E h \in Fds : procs[p].fds[h] = c
      \/ c \in Contexts \ opened
  BY <1>1, <1>2 DEF Range, Fresh
<1>6. None \notin opened
  BY <1>2, StreamAssumptions
<1>7. ASSUME NEW h \in Fds
      PROVE  \/ procs'[p].fds[h] \in {None} \cup (Contexts \ opened)
             \/ procs'[p].fds[h] \in opened /\ \E j \in Fds : procs[p].fds[j] = procs'[p].fds[h]
  BY <1>1, <1>2, <1>4, <1>5
<1>8. TablesOK'
  <2>1. opened' \subseteq Contexts
    BY <1>1, <1>2, <1>5
  <2>2. ASSUME NEW q \in Pids, procs'[q] # None PROVE procs'[q].fds \in [Fds -> opened' \cup {None}]
    <3>1. CASE q = p
      BY <1>4, <3>1
    <3>2. CASE q # p
      BY <1>1, <1>2, <1>3, <2>2, <3>2
    <3> QED
      BY <3>1, <3>2
  <2>3. ASSUME NEW q \in Pids \ {p}, NEW h \in Fds, NEW j \in Fds, procs[q] # None,
               procs'[p].fds[h] # None
        PROVE  procs'[p].fds[h] # procs[q].fds[j]
    <3>1. procs[q].fds[j] \in opened \cup {None}
      BY <1>2, <2>3
    <3> QED
      BY <1>1, <1>7, <2>3, <3>1 DEF BusyInv, TablesOK
  <2>4. ASSUME NEW q1 \in Pids, NEW q2 \in Pids, NEW h \in Fds, NEW j \in Fds, procs'[q1] # None,
               procs'[q2] # None, procs'[q1].fds[h] # None, procs'[q1].fds[h] = procs'[q2].fds[j]
        PROVE  q1 = q2
    <3>1. CASE q1 # p /\ q2 # p
      BY <1>3, <2>4, <3>1 DEF BusyInv, TablesOK
    <3>2. CASE q1 = p /\ q2 # p
      <4>1. q2 \in Pids \ {p} /\ procs[q2] = procs'[q2]
        BY <1>3, <3>2
      <4>2. procs'[p].fds[h] # procs[q2].fds[j]
        BY <2>3, <2>4, <3>2, <4>1
      <4> QED
        BY <2>4, <3>2, <4>1, <4>2
    <3>3. CASE q1 # p /\ q2 = p
      <4>1. q1 \in Pids \ {p} /\ procs[q1] = procs'[q1]
        BY <1>3, <3>3
      <4>2. procs'[p].fds[j] # procs[q1].fds[h]
        BY <2>3, <2>4, <3>3, <4>1
      <4> QED
        BY <2>4, <3>3, <4>1, <4>2
    <3> QED
      BY <3>1, <3>2, <3>3
  <2> QED
    BY <2>1, <2>2, <2>4 DEF TablesOK
<1>9. \A q \in Pids : procs'[q] = None \/ (procs[q] # None /\ procs'[q].start = procs[q].start)
  BY <1>1, <1>3
<1>10. \A q \in Pids, h \in Fds :
            procs'[q] # None =>
               \/ procs'[q].fds[h] \notin opened
               \/ /\ procs[q] # None /\ procs'[q].start = procs[q].start
                  /\ \E j \in Fds : procs[q].fds[j] = procs'[q].fds[h]
  BY <1>1, <1>3, <1>6, <1>7
<1> QED
  BY <1>1, <1>8, <1>9, <1>10, TableBusy

\* Engine time only grows.
LEMMA RunBusy ==
  ASSUME StreamInv, BusyInv, pc' = pc, NEW c \in Contexts, NEW e \in Engines[c], Run(c, e)
  PROVE  BusyInv'
<1>1. /\ busy' = [busy EXCEPT ![c][e] = @ + 1]
      /\ UNCHANGED <<procs, opened, selected, baseline, client>>
  BY DEF Run, table_only
<1>2. /\ DOMAIN busy' = Contexts
      /\ \A d \in Contexts : /\ DOMAIN busy'[d] = Engines[d]
                             /\ \A x \in Engines[d] : busy'[d][x] \in Nat /\ busy[d][x] \in Nat
                                                      /\ busy[d][x] <= busy'[d][x]
  BY <1>1 DEF BusyInv, TimesOK
<1>3. TimesOK' /\ TablesOK'
  BY <1>1, <1>2 DEF BusyInv, TimesOK, TablesOK
<1>4. ASSUME NEW g \in DOMAIN Groups PROVE BaselineOK(g)'
  <2>1. BaselineOK(g) /\ (Gone' <=> Gone) /\ (Own(baseline[g])' <=> Own(baseline[g]))
    BY <1>1 DEF BusyInv, Gone, starttime, Own
  <2> DEFINE b == baseline[g]
  <2>2. b # None => \A d \in Contexts : \A x \in Engines[d] : b.was[d][x] \in 0..busy[d][x]
    BY <2>1 DEF BaselineOK
  <2> HIDE DEF b
  <2>3. b # None => \A d \in Contexts : \A x \in Engines[d] : b.was[d][x] \in 0..busy'[d][x]
    BY <1>2, <2>2
  <2>4. (baseline[g] # None => \A d \in Contexts : \A x \in Engines[d] : baseline[g].was[d][x] \in 0..busy[d][x])'
    BY <1>1, <2>3 DEF b
  <2> QED
    BY <1>1, <2>1, <2>4 DEF BaselineOK
<1> QED
  BY <1>1, <1>3, <1>4 DEF BusyInv

LEMMA ProcessesBusy == StreamInv /\ BusyInv /\ Processes => BusyInv'
<1> SUFFICES ASSUME StreamInv, BusyInv, Processes PROVE BusyInv'
  OBVIOUS
<1>1. /\ pc' = pc
      /\ \/ \E p \in Pids, n \in BOOLEAN, c \in Contexts : StartProc(p, n, c)
         \/ \E p \in Pids : EndProc(p)
         \/ \E p \in Pids, f \in Fds, c \in Contexts \cup {None} : SetFd(p, f, c)
         \/ \E c \in Contexts : \E e \in Engines[c] : Run(c, e)
  BY DEF Processes
<1> QED
  BY <1>1, StartBusy, EndBusy, SetFdBusy, RunBusy

LEMMA BusyNext == Inv /\ BusyInv /\ [Next]_vars => BusyInv'
<1> SUFFICES ASSUME Inv, BusyInv, [Next]_vars PROVE BusyInv'
  OBVIOUS
<1>0. StreamInv
  BY DEF Inv
<1>1. CASE UNCHANGED vars
  BY <1>1, BusySame DEF vars, streamVars, table
<1>2. CASE Sleep
  BY <1>2, BusySame DEF Sleep, table
<1>3. CASE Poll \/ Collect \/ Shutdown \/ Joined
  <2>1. UNCHANGED streamVars /\ pc' # "sample"
    BY <1>3 DEF Poll, Collect, Shutdown, Joined
  <2> QED
    BY <2>1, BusySame DEF streamVars, table
<1>4. CASE Reader \/ ReaderFails \/ Machine \/ Gamescope \/ MangoHud
  <2>1. UNCHANGED streamVars /\ pc' = pc
    BY <1>4 DEF Reader, ReaderFails, Machine, Gamescope, MangoHud
  <2> QED
    BY <2>1, BusySame DEF streamVars, table
<1> QED
  BY <1>0, <1>1, <1>2, <1>3, <1>4, SelectBusy, SampleBusy, ProcessesBusy DEF Next, Agent

\* A busy percentage is of one process and its contexts, each once: all of them were
\* open in it, under the start time it was selected by, when its descriptors were
\* read, and the gain is their engine time since the baseline, whatever processes
\* end, start and do with their descriptors in between (stream_client.rs
\* delta_percent, deduplicate, selected_process).
THEOREM PercentagesRight == Spec => BusyTrue
<1>1. Inv /\ BusyInv /\ [Next]_vars => [pc = "sample" => \A g \in DOMAIN Groups : BusyTrueOf(g)]_vars
  <2> SUFFICES ASSUME Inv, BusyInv, Next, pc = "sample", NEW g \in DOMAIN Groups
               PROVE  BusyTrueOf(g)
    OBVIOUS
  <2>0. StreamInv
    BY DEF Inv
  <2>1. CASE SampleClient
    BY <2>0, <2>1, SampledRight DEF SampleClient
  <2>2. CASE ~SampleClient
    <3>1. client = NoBaselines
      BY DEF BusyInv
    <3>2. ~(Sleep \/ Poll \/ Collect \/ Select \/ Shutdown \/ Joined \/ Machine \/ MangoHud)
      BY DEF Sleep, Poll, Collect, Select, Shutdown, Joined, Machine, MangoHud
    <3>3. client' = client
      <4>1. ASSUME Reader \/ ReaderFails \/ Gamescope PROVE client' = client
        BY <4>1 DEF Reader, ReaderFails, Gamescope, streamVars
      <4>2. ASSUME Processes PROVE client' = client
        BY <4>2 DEF Processes, StartProc, EndProc, SetFd, Run, table_only
      <4> QED
        BY <2>2, <3>2, <4>1, <4>2 DEF Next, Agent
    <3>4. client'[g] = None
      BY <3>1, <3>3 DEF NoBaselines
    <3> QED
      BY <3>4 DEF BusyTrueOf
  <2> QED
    BY <2>1, <2>2
<1>2. Inv /\ BusyInv /\ [Next]_vars => (Inv /\ BusyInv)'
  BY StepInv, BusyNext
<1>3. Init => Inv /\ BusyInv
  BY InitInv, InitBusy
<1> QED
  BY <1>1, <1>2, <1>3, PTL DEF Spec, BusyTrue
=============================================================================
