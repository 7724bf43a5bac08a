---------------------------- MODULE EbpfProofs ----------------------------
(***************************************************************************)
(* Proofs about Ebpf for any hosts, sessions, sizes and kernel activity:   *)
(* EbpfCorrect (the daemon's invariant), LatenciesTrue (the events carry   *)
(* the latency of their call), FilterFollows (the kernel's filter is that  *)
(* of the shared session, when the channel has room for it and the map for *)
(* its threads) and DocumentsRight (what a tick's documents say is true of *)
(* the events of its interval).                                            *)
(***************************************************************************)
EXTENDS Ebpf, FiniteSetTheorems, SequenceTheorems, WellFoundedInduction, NaturalsInduction, TLAPS

-----------------------------------------------------------------------------
(* Sequences of whatever events and documents there are *)

IsSeq(s) == s \in Seq(Range(s))

LEMMA IsSeqIntro ==
  ASSUME NEW S, NEW s \in Seq(S)
  PROVE  IsSeq(s) /\ Range(s) \subseteq S
  <1>1. s \in [1..Len(s) -> S] /\ Len(s) \in Nat /\ DOMAIN s = 1..Len(s)
    BY LenProperties
  <1>2. \A i \in 1..Len(s) : s[i] \in Range(s)
    BY <1>1 DEF Range
  <1> QED
    BY <1>1, <1>2, SMTT(30) DEF Range, IsSeq

LEMMA IsSeqFacts ==
  ASSUME NEW s, IsSeq(s)
  PROVE  Len(s) \in Nat /\ DOMAIN s = 1..Len(s)
  BY DEF IsSeq

LEMMA EmptyIsSeq == IsSeq(<<>>) /\ Len(<<>>) = 0
  BY IsSeqIntro, EmptySeq

LEMMA SingleIsSeq ==
  ASSUME NEW e
  PROVE  IsSeq(<<e>>) /\ Len(<<e>>) = 1 /\ <<e>>[1] = e
  <1>1. <<e>> \in Seq({e})
    OBVIOUS
  <1> QED
    BY <1>1, IsSeqIntro

LEMMA AppendIsSeq ==
  ASSUME NEW s, IsSeq(s), NEW e
  PROVE  /\ IsSeq(Append(s, e)) /\ Len(Append(s, e)) = Len(s) + 1
         /\ \A i \in DOMAIN Append(s, e) : Append(s, e)[i] = IF i \in DOMAIN s THEN s[i] ELSE e
  <1> DEFINE S == Range(s) \cup {e}
  <1>1. s \in Seq(S)
    BY SeqMonotonic DEF IsSeq
  <1>2. Append(s, e) \in Seq(S) /\ e \in S
    BY <1>1
  <1> HIDE DEF S
  <1>3. IsSeq(Append(s, e))
    BY <1>2, IsSeqIntro
  <1>4. Len(s) \in Nat /\ DOMAIN s = 1..Len(s) /\ Len(Append(s, e)) = Len(s) + 1
        /\ DOMAIN Append(s, e) = 1..(Len(s) + 1)
    BY <1>1, <1>2
  <1>5. \A i \in 1..(Len(s) + 1) : Append(s, e)[i] = IF i <= Len(s) THEN s[i] ELSE e
    BY <1>1, <1>2, <1>4
  <1> QED
    BY <1>3, <1>4, <1>5

LEMMA ConcatIsSeq ==
  ASSUME NEW s, IsSeq(s), NEW t, IsSeq(t)
  PROVE  /\ IsSeq(s \o t) /\ Len(s \o t) = Len(s) + Len(t)
         /\ \A i \in 1..Len(s) : (s \o t)[i] = s[i]
         /\ \A i \in 1..Len(t) : (s \o t)[Len(s) + i] = t[i]
  <1> DEFINE S == Range(s) \cup Range(t)
  <1>1. s \in Seq(S) /\ t \in Seq(S)
    BY SeqMonotonic DEF IsSeq
  <1> HIDE DEF S
  <1>2. Len(s) \in Nat /\ Len(t) \in Nat
    BY <1>1, LenProperties
  <1>3. /\ s \o t \in Seq(S) /\ Len(s \o t) = Len(s) + Len(t)
        /\ \A i \in 1..(Len(s) + Len(t)) : (s \o t)[i] = IF i <= Len(s) THEN s[i] ELSE t[i - Len(s)]
    BY <1>1, ConcatProperties
  <1>4. IsSeq(s \o t)
    BY <1>3, IsSeqIntro
  <1>5. \A i \in 1..Len(t) : (s \o t)[Len(s) + i] = t[i]
    <2> SUFFICES ASSUME NEW i \in 1..Len(t) PROVE (s \o t)[Len(s) + i] = t[i]
      OBVIOUS
    <2>1. Len(s) + i \in 1..(Len(s) + Len(t)) /\ ~(Len(s) + i <= Len(s)) /\ (Len(s) + i) - Len(s) = i
      BY <1>2
    <2> QED
      BY <1>3, <2>1
  <1>6. \A i \in 1..Len(s) : (s \o t)[i] = s[i]
    BY <1>2, <1>3
  <1> QED
    BY <1>3, <1>4, <1>5, <1>6

LEMMA SubSeqIsSeq ==
  ASSUME NEW s, IsSeq(s), NEW m \in 1..(Len(s) + 1), NEW n \in 0..Len(s)
  PROVE  /\ IsSeq(SubSeq(s, m, n)) /\ Len(SubSeq(s, m, n)) = IF m <= n THEN n - m + 1 ELSE 0
         /\ \A i \in 1..(n - m + 1) : SubSeq(s, m, n)[i] = s[m + i - 1]
  <1>1. Len(s) \in Nat /\ \A i \in m..n : s[i] \in Range(s)
    BY IsSeqFacts DEF Range
  <1>2. /\ SubSeq(s, m, n) \in Seq(Range(s)) /\ Len(SubSeq(s, m, n)) = IF m <= n THEN n - m + 1 ELSE 0
        /\ \A i \in 1..(n - m + 1) : SubSeq(s, m, n)[i] = s[m + i - 1]
    BY <1>1, SubSeqProperties
  <1> QED
    BY <1>2, IsSeqIntro

LEMMA SeqOfInterval ==
  ASSUME NEW f, NEW n \in Nat, DOMAIN f = 1..n, f = [i \in DOMAIN f |-> f[i]]
  PROVE  IsSeq(f) /\ Len(f) = n
  <1>1. f \in [1..n -> Range(f)]
    BY DEF Range
  <1>2. f \in Seq(Range(f))
    BY <1>1
  <1> QED
    BY <1>1, <1>2, LenProperties DEF IsSeq
-----------------------------------------------------------------------------
(* How many events a batch of documents reports *)

\* Documents in a sequence, each with its events in a sequence.
DocsOK(ds) == IsSeq(ds) /\ \A i \in DOMAIN ds : ds[i].type = "metric" => IsSeq(ds[i].events)

LEMMA InEntries ==
  ASSUME NEW ds, NEW p, NEW x
  PROVE  x \in Entries(ds, p)
            <=> \E i \in Reports(ds, p) : \E j \in DOMAIN ds[i].events : x = <<i, j>>
  BY DEF Entries

LEMMA CountFinite ==
  ASSUME NEW ds, DocsOK(ds), NEW p
  PROVE  IsFiniteSet(Entries(ds, p)) /\ Count(ds, p) \in Nat
  <1> DEFINE R == Reports(ds, p)
             F == [i \in R |-> {i} \X DOMAIN ds[i].events]
             T == {F[i] : i \in R}
  <1>1. IsFiniteSet(R)
    <2>1. R \subseteq 1..Len(ds) /\ Len(ds) \in Nat
      BY IsSeqFacts DEF DocsOK, Reports
    <2>2. IsFiniteSet(1..Len(ds))
      BY <2>1, FS_Interval
    <2> HIDE DEF R
    <2> QED
      BY <2>1, <2>2, FS_Subset
  <1>2. \A i \in R : IsFiniteSet(F[i])
    <2> SUFFICES ASSUME NEW i \in R PROVE IsFiniteSet({i} \X DOMAIN ds[i].events)
      OBVIOUS
    <2>1. IsSeq(ds[i].events)
      BY DEF DocsOK, Reports
    <2>2. IsFiniteSet(DOMAIN ds[i].events)
      BY <2>1, IsSeqFacts, FS_Interval
    <2> QED
      BY <2>2, FS_Singleton, FS_Product
  <1>3. F \in Surjection(R, T)
    BY DEF Surjection
  <1>4. IsFiniteSet(T)
    BY <1>1, <1>3, FS_Surjection
  <1>5. IsFiniteSet(UNION T)
    BY <1>2, <1>4, FS_UNION
  <1>6. UNION T = Entries(ds, p)
    BY DEF Entries
  <1> QED
    BY <1>5, <1>6, FS_CardinalityType DEF Count

LEMMA CountEmpty ==
  ASSUME NEW p
  PROVE  DocsOK(<<>>) /\ Count(<<>>, p) = 0
  <1>1. DocsOK(<<>>) /\ DOMAIN <<>> = {}
    BY EmptyIsSeq, IsSeqFacts DEF DocsOK
  <1>2. Entries(<<>>, p) = {}
    BY <1>1 DEF Entries, Reports
  <1> QED
    BY <1>1, <1>2, FS_EmptySet DEF Count

\* One document reports its own events, if it is the probe's.
LEMMA CountSingle ==
  ASSUME NEW d, d.type = "metric" => IsSeq(d.events), NEW p
  PROVE  /\ DocsOK(<<d>>)
         /\ Count(<<d>>, p) = IF d.type = "metric" /\ d.probe = p THEN Len(d.events) ELSE 0
  <1>1. IsSeq(<<d>>) /\ Len(<<d>>) = 1 /\ <<d>>[1] = d /\ DOMAIN <<d>> = {1}
    BY SingleIsSeq, IsSeqFacts
  <1>2. DocsOK(<<d>>)
    BY <1>1 DEF DocsOK
  <1>3. CASE d.type = "metric" /\ d.probe = p
    <2>1. Entries(<<d>>, p) = {1} \X DOMAIN d.events
      BY <1>1, <1>3 DEF Entries, Reports
    <2> DEFINE n == Len(d.events)
    <2>2. n \in Nat /\ DOMAIN d.events = 1..n
      BY <1>3, IsSeqFacts
    <2> HIDE DEF n
    <2>3. IsFiniteSet(1..n) /\ Cardinality(1..n) = n
      BY <2>2, FS_Interval
    <2>4. IsFiniteSet({1}) /\ Cardinality({1}) = 1
      BY FS_Singleton
    <2>5. Cardinality({1} \X (1..n)) = Cardinality({1}) * Cardinality(1..n)
      BY <2>3, <2>4, FS_Product
    <2>6. Cardinality({1} \X (1..n)) = n
      BY <2>2, <2>3, <2>4, <2>5
    <2> QED
      BY <1>2, <1>3, <2>1, <2>2, <2>6 DEF Count, n
  <1>4. CASE ~(d.type = "metric" /\ d.probe = p)
    <2>1. Entries(<<d>>, p) = {}
      BY <1>1, <1>4 DEF Entries, Reports
    <2> QED
      BY <1>2, <1>4, <2>1, FS_EmptySet DEF Count
  <1> QED
    BY <1>3, <1>4

LEMMA CountConcat ==
  ASSUME NEW s, DocsOK(s), NEW t, DocsOK(t), NEW p
  PROVE  DocsOK(s \o t) /\ Count(s \o t, p) = Count(s, p) + Count(t, p)
  <1> DEFINE u == s \o t
             n == Len(s)
             late == {x \in Entries(u, p) : x[1] > n}
             F == [x \in Entries(t, p) |-> <<n + x[1], x[2]>>]
  <1>1. /\ IsSeq(u) /\ Len(u) = n + Len(t) /\ n \in Nat /\ Len(t) \in Nat
        /\ DOMAIN s = 1..n /\ DOMAIN t = 1..Len(t) /\ DOMAIN u = 1..(n + Len(t))
        /\ \A i \in 1..n : u[i] = s[i]
        /\ \A i \in 1..Len(t) : u[n + i] = t[i]
    BY ConcatIsSeq, IsSeqFacts DEF DocsOK
  <1> HIDE DEF u, n
  <1>2. \A i \in DOMAIN u : i \in DOMAIN s \/ \E k \in DOMAIN t : i = n + k
    <2> SUFFICES ASSUME NEW i \in DOMAIN u, i \notin DOMAIN s PROVE \E k \in DOMAIN t : i = n + k
      OBVIOUS
    <2>1. i - n \in DOMAIN t /\ i = n + (i - n)
      BY <1>1
    <2> QED
      BY <2>1
  <1>3. DocsOK(u)
    BY <1>1, <1>2 DEF DocsOK
  <1>4. Reports(u, p) \cap 1..n = Reports(s, p)
    BY <1>1 DEF Reports
  <1>5. \A k \in DOMAIN t : n + k \in Reports(u, p) <=> k \in Reports(t, p)
    BY <1>1 DEF Reports
  <1>6. Entries(u, p) = Entries(s, p) \cup late /\ Entries(s, p) \cap late = {}
    <2>1. \A i \in Reports(s, p) : i \in Reports(u, p) /\ u[i] = s[i] /\ ~(i > n) /\ i \in 1..n
      BY <1>1, <1>4 DEF Reports
    <2>2. Entries(s, p) \subseteq Entries(u, p) /\ Entries(s, p) \cap late = {}
      BY <2>1, InEntries
    <2>3. \A i \in Reports(u, p) : i > n \/ (i \in Reports(s, p) /\ u[i] = s[i])
      BY <1>1, <1>4 DEF Reports
    <2>4. Entries(u, p) \subseteq Entries(s, p) \cup late
      BY <2>3, InEntries
    <2> QED
      BY <2>2, <2>4
  <1>7. F \in Bijection(Entries(t, p), late)
    <2>1. \A x \in Entries(t, p) : F[x] \in late
      <3> SUFFICES ASSUME NEW x \in Entries(t, p) PROVE F[x] \in late
        OBVIOUS
      <3>1. PICK i \in Reports(t, p) : \E j \in DOMAIN t[i].events : x = <<i, j>>
        BY InEntries
      <3>2. PICK j \in DOMAIN t[i].events : x = <<i, j>>
        BY <3>1
      <3>3. i \in DOMAIN t /\ n + i > n /\ n + i \in Reports(u, p) /\ u[n + i] = t[i]
        BY <1>1, <1>5 DEF Reports
      <3>4. F[x] = <<n + i, j>>
        BY <3>2
      <3> QED
        BY <3>2, <3>3, <3>4, InEntries
    <2>2. \A x, y \in Entries(t, p) : F[x] = F[y] => x = y
      <3> SUFFICES ASSUME NEW x \in Entries(t, p), NEW y \in Entries(t, p), F[x] = F[y] PROVE x = y
        OBVIOUS
      <3>1. PICK i \in Reports(t, p) : \E j \in DOMAIN t[i].events : x = <<i, j>>
        BY InEntries
      <3>2. PICK k \in Reports(t, p) : \E j \in DOMAIN t[k].events : y = <<k, j>>
        BY InEntries
      <3>3. i \in Nat /\ k \in Nat
        BY <1>1 DEF Reports
      <3>4. n + x[1] = n + y[1] /\ x[2] = y[2]
        OBVIOUS
      <3> QED
        BY <1>1, <3>1, <3>2, <3>3, <3>4
    <2>3. \A z \in late : \E x \in Entries(t, p) : F[x] = z
      <3> SUFFICES ASSUME NEW z \in late PROVE \E x \in Entries(t, p) : F[x] = z
        OBVIOUS
      <3>1. PICK i \in Reports(u, p) : \E j \in DOMAIN u[i].events : z = <<i, j>>
        BY InEntries
      <3>2. PICK j \in DOMAIN u[i].events : z = <<i, j>>
        BY <3>1
      <3>3. i > n /\ i \in DOMAIN u
        BY <3>2 DEF Reports
      <3>4. PICK k \in DOMAIN t : i = n + k
        BY <1>1, <1>2, <3>3
      <3>5. k \in Reports(t, p) /\ u[i] = t[k]
        BY <1>1, <1>5, <3>4
      <3>6. <<k, j>> \in Entries(t, p)
        BY <3>2, <3>5, InEntries
      <3> QED
        BY <3>2, <3>4, <3>6
    <2> QED
      BY <2>1, <2>2, <2>3 DEF Bijection, Injection, Surjection, IsInjective
  <1>8. IsFiniteSet(Entries(s, p)) /\ IsFiniteSet(Entries(t, p)) /\ Count(s, p) \in Nat /\ Count(t, p) \in Nat
    BY CountFinite
  <1>9. IsFiniteSet(late) /\ Cardinality(late) = Count(t, p)
    BY <1>7, <1>8, FS_Bijection DEF ExistsBijection, Count
  <1>10. Cardinality(Entries(u, p)) = Count(s, p) + Count(t, p) - Cardinality({})
    BY <1>6, <1>8, <1>9, FS_Union DEF Count
  <1>11. Count(u, p) = Count(s, p) + Count(t, p)
    BY <1>8, <1>10, FS_EmptySet DEF Count
  <1> QED
    BY <1>3, <1>11 DEF u

\* Taking one document out of a batch takes its events out.
LEMMA CountRemove ==
  ASSUME NEW ds, DocsOK(ds), NEW i \in DOMAIN ds, NEW p
  PROVE  /\ DocsOK(RemoveAt(ds, i)) /\ DocsOK(<<ds[i]>>)
         /\ Count(ds, p) = Count(RemoveAt(ds, i), p) + Count(<<ds[i]>>, p)
  <1> DEFINE n == Len(ds)
             a == SubSeq(ds, 1, i - 1)
             b == SubSeq(ds, i + 1, n)
             c == <<ds[i]>>
  <1>0. IsSeq(ds) /\ n \in Nat /\ DOMAIN ds = 1..n /\ i \in 1..n
    BY IsSeqFacts DEF DocsOK
  <1>1. /\ IsSeq(a) /\ Len(a) = i - 1 /\ DOMAIN a = 1..(i - 1) /\ \A k \in 1..(i - 1) : a[k] = ds[k]
        /\ IsSeq(b) /\ Len(b) = n - i /\ DOMAIN b = 1..(n - i) /\ \A k \in 1..(n - i) : b[k] = ds[i + k]
    <2>1. 1 \in 1..(n + 1) /\ i - 1 \in 0..n /\ i + 1 \in 1..(n + 1) /\ n \in 0..n
      BY <1>0
    <2>2. /\ IsSeq(a) /\ Len(a) = (IF 1 <= i - 1 THEN i - 1 - 1 + 1 ELSE 0)
          /\ \A k \in 1..(i - 1 - 1 + 1) : a[k] = ds[1 + k - 1]
      BY <1>0, <2>1, SubSeqIsSeq
    <2>3. /\ IsSeq(b) /\ Len(b) = (IF i + 1 <= n THEN n - (i + 1) + 1 ELSE 0)
          /\ \A k \in 1..(n - (i + 1) + 1) : b[k] = ds[i + 1 + k - 1]
      BY <1>0, <2>1, SubSeqIsSeq
    <2> HIDE DEF a, b, n
    <2>4. Len(a) = i - 1 /\ \A k \in 1..(i - 1) : a[k] = ds[k]
      BY <1>0, <2>2
    <2>5. Len(b) = n - i /\ \A k \in 1..(n - i) : b[k] = ds[i + k]
      <3>1. n - (i + 1) + 1 = n - i /\ \A k \in 1..(n - i) : i + 1 + k - 1 = i + k
        BY <1>0
      <3>2. Len(b) = n - i
        BY <1>0, <2>3
      <3> QED
        BY <2>3, <3>1, <3>2
    <2> QED
      BY <2>2, <2>3, <2>4, <2>5, IsSeqFacts
  <1> HIDE DEF a, b, c, n
  <1>2. DocsOK(a) /\ DocsOK(b)
    <2>1. \A k \in 1..(i - 1) : k \in DOMAIN ds
      BY <1>0
    <2>2. \A k \in 1..(n - i) : i + k \in DOMAIN ds
      BY <1>0
    <2> QED
      BY <1>1, <2>1, <2>2 DEF DocsOK
  <1>3. DocsOK(c) /\ Len(c) = 1 /\ c[1] = ds[i]
    BY CountSingle, SingleIsSeq DEF c, DocsOK
  <1>4. IsSeq(a \o c) /\ Len(a \o c) = i
        /\ \A k \in 1..i : (a \o c)[k] = ds[k]
    <2>0. IsSeq(a) /\ IsSeq(c)
      BY <1>1, <1>3 DEF DocsOK
    <2>1. IsSeq(a \o c) /\ Len(a \o c) = Len(a) + Len(c)
          /\ (\A k \in 1..Len(a) : (a \o c)[k] = a[k]) /\ (\A k \in 1..Len(c) : (a \o c)[Len(a) + k] = c[k])
      BY <2>0, ConcatIsSeq
    <2>2. Len(a) + 1 = i /\ Len(a) + Len(c) = i /\ 1 \in 1..Len(c)
      BY <1>0, <1>1, <1>3
    <2>3. (a \o c)[i] = ds[i]
      BY <1>3, <2>1, <2>2
    <2>4. \A k \in 1..(i - 1) : (a \o c)[k] = ds[k]
      BY <1>1, <2>1
    <2>5. \A k \in 1..i : k \in 1..(i - 1) \/ k = i
      BY <1>0
    <2> QED
      BY <2>1, <2>2, <2>3, <2>4, <2>5
  <1>5. IsSeq((a \o c) \o b) /\ Len((a \o c) \o b) = n
        /\ \A k \in 1..n : ((a \o c) \o b)[k] = ds[k]
    <2> DEFINE ac == a \o c
    <2>0. IsSeq(ac) /\ Len(ac) = i /\ \A k \in 1..i : ac[k] = ds[k]
      BY <1>4
    <2> HIDE DEF ac
    <2>00. IsSeq(ac) /\ IsSeq(b)
      BY <1>1, <2>0
    <2>1. IsSeq(ac \o b) /\ Len(ac \o b) = Len(ac) + Len(b)
          /\ (\A k \in 1..Len(ac) : (ac \o b)[k] = ac[k])
          /\ (\A k \in 1..Len(b) : (ac \o b)[Len(ac) + k] = b[k])
      BY <2>00, ConcatIsSeq
    <2>2. \A k \in 1..n : k \in 1..i \/ (k - i \in 1..(n - i) /\ i + (k - i) = k)
      BY <1>0
    <2>3. Len(ac \o b) = n /\ \A k \in 1..i : (ac \o b)[k] = ds[k]
      BY <1>0, <1>1, <2>0, <2>1
    <2>4. \A k \in 1..(n - i) : (ac \o b)[i + k] = ds[i + k]
      BY <1>1, <2>0, <2>1, SMTT(30)
    <2> QED
      BY <2>1, <2>2, <2>3, <2>4 DEF ac
  <1>6. ds = (a \o c) \o b
    <2>1. ds \in Seq(Range(ds)) /\ DOMAIN ((a \o c) \o b) = 1..n
      BY <1>0, <1>5, IsSeqFacts DEF IsSeq
    <2>2. (a \o c) \o b \in Seq(Range(ds))
      <3>1. Range((a \o c) \o b) \subseteq Range(ds)
        BY <1>0, <1>5, <2>1 DEF Range
      <3> QED
        BY <1>5, <3>1, SeqMonotonic DEF IsSeq
    <2> QED
      BY <1>0, <1>5, <2>1, <2>2, SeqEqual DEF n
  <1>7. Count(ds, p) = Count(a, p) + Count(c, p) + Count(b, p)
    BY <1>2, <1>3, <1>6, CountConcat
  <1>8. RemoveAt(ds, i) = a \o b
    BY DEF RemoveAt, a, b, n
  <1>9. DocsOK(RemoveAt(ds, i)) /\ Count(RemoveAt(ds, i), p) = Count(a, p) + Count(b, p)
    BY <1>2, <1>8, CountConcat
  <1> QED
    BY <1>2, <1>3, <1>7, <1>9, CountFinite DEF c
-----------------------------------------------------------------------------
(* What a flush and the correlator return *)

LEMMA MetricFields ==
  ASSUME NEW p, NEW id, NEW es, NEW fields
  PROVE  /\ Metric(p, id, es, fields).type = "metric"
         /\ Metric(p, id, es, fields).probe = p
         /\ Metric(p, id, es, fields).events = es
  BY DEF Metric

LEMMA MetricCounts ==
  ASSUME NEW p, NEW id, NEW es, IsSeq(es), NEW fields, NEW q
  PROVE  /\ DocsOK(<<Metric(p, id, es, fields)>>)
         /\ Count(<<Metric(p, id, es, fields)>>, q) = IF q = p THEN Len(es) ELSE 0
  <1> DEFINE d == Metric(p, id, es, fields)
  <1>1. d.type = "metric" /\ d.probe = p /\ d.events = es
    BY MetricFields
  <1> HIDE DEF d
  <1>2. DocsOK(<<d>>) /\ Count(<<d>>, q) = IF d.type = "metric" /\ d.probe = q THEN Len(d.events) ELSE 0
    BY <1>1, CountSingle
  <1> QED
    BY <1>1, <1>2 DEF d

\* The thread documents report no event of their own.
LEMMA ThreadsCount ==
  ASSUME NEW es, IsSeq(es), NEW id, NEW r \in Ranked(es), NEW q
  PROVE  LET ds == [i \in DOMAIN r |-> ThreadDoc(es, id, i, r[i])]
         IN  DocsOK(ds) /\ Count(ds, q) = 0
  <1> DEFINE tids == {es[i].tid : i \in DOMAIN es}
             ds == [i \in DOMAIN r |-> ThreadDoc(es, id, i, r[i])]
  <1>1. IsFiniteSet(tids)
    <2> DEFINE F == [i \in DOMAIN es |-> es[i].tid]
    <2>1. Len(es) \in Nat /\ DOMAIN es = 1..Len(es)
      BY IsSeqFacts
    <2>2. IsFiniteSet(DOMAIN es)
      BY <2>1, FS_Interval
    <2>3. F \in Surjection(DOMAIN es, tids)
      BY DEF Surjection
    <2> QED
      BY <2>2, <2>3, FS_Surjection
  <1>2. PICK q0 \in SetToSeqs(tids) :
           r = SubSeq(q0, 1, IF Len(q0) < TopThreads THEN Len(q0) ELSE TopThreads)
    BY DEF Ranked
  <1> HIDE DEF tids
  <1>3. IsSeq(q0)
    <2>1. q0 \in [1..Cardinality(tids) -> tids]
      BY DEF SetToSeqs
    <2>2. Cardinality(tids) \in Nat
      BY <1>1, FS_CardinalityType
    <2>3. q0 \in Seq(tids)
      BY <2>1, <2>2
    <2> QED
      BY <2>3, IsSeqIntro
  <1>4. IsSeq(r)
    <2> DEFINE n == IF Len(q0) < TopThreads THEN Len(q0) ELSE TopThreads
    <2>1. Len(q0) \in Nat
      BY <1>3, IsSeqFacts
    <2>2. n \in 0..Len(q0) /\ 1 \in 1..(Len(q0) + 1)
      BY <2>1, AggregatorAssumptions
    <2> HIDE DEF n
    <2>3. IsSeq(SubSeq(q0, 1, n))
      BY <1>3, <2>2, SubSeqIsSeq
    <2> QED
      BY <1>2, <2>3 DEF n
  <1>5. Len(r) \in Nat /\ DOMAIN ds = 1..Len(r)
    BY <1>4, IsSeqFacts
  <1>6. IsSeq(ds)
    BY <1>5, SeqOfInterval
  <1>7. \A i \in DOMAIN ds : ds[i].type = "thread"
    BY DEF ThreadDoc
  <1> HIDE DEF ds
  <1>8. DocsOK(ds)
    BY <1>6, <1>7 DEF DocsOK
  <1>9. Entries(ds, q) = {}
    BY <1>7 DEF Entries, Reports
  <1> QED
    BY <1>8, <1>9, FS_EmptySet DEF Count, ds

LEMMA FlushesCount ==
  ASSUME NEW p \in ProbeNames, NEW es, IsSeq(es), NEW id, NEW new \in Flushes(p, es, id), NEW q
  PROVE  DocsOK(new) /\ Count(new, q) = IF q = p THEN Len(es) ELSE 0
  <1>1. CASE es = <<>>
    BY <1>1, CountEmpty, EmptyIsSeq DEF Flushes
  <1>2. CASE es # <<>> /\ p = "schedlatency"
    <2>0. new \in SchedFlushes(es, id)
      BY <1>2 DEF Flushes
    <2> DEFINE Batch(r, fields) == <<Metric("schedlatency", id, es, fields)>>
                                      \o [i \in DOMAIN r |-> ThreadDoc(es, id, i, r[i])]
    <2>1. PICK r \in Ranked(es) : \E fields : new = Batch(r, fields)
      BY <2>0 DEF SchedFlushes
    <2>2. PICK fields : new = Batch(r, fields)
      BY <2>1
    <2> DEFINE a == <<Metric("schedlatency", id, es, fields)>>
               b == [i \in DOMAIN r |-> ThreadDoc(es, id, i, r[i])]
    <2>3. DocsOK(a) /\ Count(a, q) = IF q = p THEN Len(es) ELSE 0
      BY <1>2, MetricCounts
    <2>4. DocsOK(b) /\ Count(b, q) = 0
      BY ThreadsCount
    <2>5. new = a \o b
      BY <2>2
    <2> HIDE DEF a, b
    <2>6. DocsOK(new) /\ Count(new, q) = Count(a, q) + Count(b, q)
      BY <2>3, <2>4, <2>5, CountConcat
    <2> QED
      BY <2>3, <2>4, <2>6, CountFinite
  <1>3. CASE es # <<>> /\ p # "schedlatency"
    <2>1. PICK fields : new = <<Metric(p, id, es, fields)>>
      BY <1>3 DEF Flushes, ProbeNames, BioFlush, GpuSchedFlush, FutexFlush, GpuFenceFlush, IrqFlush,
         VfsFlush, MemFlush, GpuSubmitFlush
    <2> QED
      BY <2>1, MetricCounts
  <1> QED
    BY <1>1, <1>2, <1>3

\* The stutter document reports no event of a probe.
LEMMA CorrelateCounts ==
  ASSUME NEW ds, NEW id, NEW q \in ProbeNames
  PROVE  DocsOK(correlate(ds, id)) /\ Count(correlate(ds, id), q) = 0
  <1>1. CASE correlate(ds, id) = <<>>
    BY <1>1, CountEmpty
  <1>2. CASE correlate(ds, id) # <<>>
    <2>1. PICK fields : correlate(ds, id) = <<Metric("stutter_correlation", id, <<>>, fields)>>
      BY <1>2 DEF correlate
    <2>2. q # "stutter_correlation"
      BY DEF ProbeNames
    <2> QED
      BY <2>1, <2>2, MetricCounts, EmptyIsSeq
  <1> QED
    BY <1>1, <1>2

LEMMA NothingToCorrelate ==
  ASSUME NEW id
  PROVE  correlate(<<>>, id) = <<>>
  <1>1. {i \in DOMAIN <<>> : <<>>[i].type = "metric" /\ Spiked(<<>>[i])} = {}
    BY EmptyIsSeq, IsSeqFacts
  <1>2. Cardinality({}) = 0 /\ 0 < 2
    BY FS_EmptySet
  <1> QED
    BY <1>1, <1>2 DEF correlate
-----------------------------------------------------------------------------
(* What the kernel's steps have in common *)

Emits == UNCHANGED <<ring, made, lost>> \/ \E p \in ProbeNames : \E e : Submit(p, e)

\* A step of the kernel, as far as counts and sizes go: the programs that do not look at
\* the gpu's jobs, a job that is queued, a job that runs.
Other == Emits /\ UNCHANGED <<loss, ran>> /\ (UNCHANGED starts \/ \E m \in Maps : \E k :
             Insert(m, k) \/ starts' = [starts EXCEPT ![m] = Without(@, k)])
Queued == \E j : drm_sched_job_queue(j)
Ran == \E j : drm_sched_job_run(j)

LEMMA EntryOther ==
  ASSUME NEW program, NEW m \in Maps, NEW op, NEW k, NEW passes, Entry(program, m, op, k, passes)
  PROVE  Other /\ UNCHANGED <<attached, pids>>
  BY DEF Entry, Begin, Other, Emits

LEMMA ReturnOther ==
  ASSUME NEW program, NEW p \in ProbeNames, NEW m \in Maps, NEW op, NEW k, NEW fields,
         Return(program, p, m, op, k, fields)
  PROVE  Other /\ UNCHANGED <<attached, pids>>
  BY DEF Return, Emits, End, Other

LEMMA ThreadShape ==
  ASSUME NEW t \in Threads, NEW busy, ThreadCalls(t, busy)
  PROVE  Other /\ UNCHANGED <<attached, pids>>
  <1>0. /\ {"wakeup", "bio", "futex", "read", "write", "fence", "hard", "soft"} \subseteq Maps
        /\ {"bio", "mem", "futex", "irq", "vfs", "gpu_fence", "gpu_submit", "schedlatency"} \subseteq ProbeNames
    BY DEF Maps, ProbeNames
  <1>1. CASE sched_wakeup(t)
    BY <1>0, <1>1 DEF sched_wakeup, Happens, Other, Emits
  <1>2. CASE sched_switch(t)
    BY <1>0, <1>2 DEF sched_switch, Happens, Other, Emits
  <1>3. CASE \E a, b \in Cpus : sched_migrate_task(t, a, b)
    BY <1>0, <1>3 DEF sched_migrate_task, Moment, Happens, Other, Emits
  <1>4. CASE do_futex_entry(t)
    BY <1>0, <1>4, EntryOther DEF do_futex_entry
  <1>5. CASE do_futex_return(t)
    BY <1>0, <1>5, ReturnOther DEF do_futex_return
  <1>6. CASE vfs_read_entry(t)
    BY <1>0, <1>6, EntryOther DEF vfs_read_entry
  <1>7. CASE vfs_read_return(t)
    BY <1>0, <1>7, ReturnOther DEF vfs_read_return
  <1>8. CASE vfs_write_entry(t)
    BY <1>0, <1>8, EntryOther DEF vfs_write_entry
  <1>9. CASE vfs_write_return(t)
    BY <1>0, <1>9, ReturnOther DEF vfs_write_return
  <1>10. CASE dma_fence_default_wait_entry(t)
    BY <1>0, <1>10, EntryOther DEF dma_fence_default_wait_entry
  <1>11. CASE dma_fence_default_wait_return(t)
    BY <1>0, <1>11, ReturnOther DEF dma_fence_default_wait_return
  <1>12. CASE \E w \in BOOLEAN : page_fault_user(t, w)
    BY <1>0, <1>12 DEF page_fault_user, Moment, Happens, Other, Emits
  <1> QED
    BY <1>1, <1>2, <1>3, <1>4, <1>5, <1>6, <1>7, <1>8, <1>9, <1>10, <1>11, <1>12 DEF ThreadCalls

LEMMA DeviceShape ==
  ASSUME NEW busy, DeviceCalls(busy)
  PROVE  (Other \/ Queued \/ Ran) /\ UNCHANGED <<attached, pids>>
  <1>0. /\ {"wakeup", "bio", "futex", "read", "write", "fence", "hard", "soft"} \subseteq Maps
        /\ {"bio", "mem", "futex", "irq", "vfs", "gpu_fence", "gpu_submit", "schedlatency"} \subseteq ProbeNames
    BY DEF Maps, ProbeNames
  <1>1. CASE \E d \in Devices, s \in Sectors : block_rq_issue(d, s)
    BY <1>0, <1>1, EntryOther DEF block_rq_issue
  <1>2. CASE \E d \in Devices, s \in Sectors : block_rq_complete(d, s)
    BY <1>0, <1>2, ReturnOther DEF block_rq_complete
  <1>3. CASE \E c \in Cpus : softirq_entry(c)
    BY <1>0, <1>3, EntryOther DEF softirq_entry
  <1>4. CASE \E c \in Cpus : softirq_exit(c)
    BY <1>0, <1>4, ReturnOther DEF softirq_exit
  <1>5. CASE \E c \in Cpus : \E n \in Lines : irq_handler_entry(c, n)
    BY <1>0, <1>5, EntryOther DEF irq_handler_entry
  <1>6. CASE \E c \in Cpus : \E n \in Lines : irq_handler_exit(c, n)
    BY <1>0, <1>6, ReturnOther DEF irq_handler_exit
  <1>7. CASE \E j \in Jobs : drm_sched_job_queue(j)
    BY <1>7 DEF drm_sched_job_queue, Queued
  <1>8. CASE \E j \in Jobs : drm_sched_job_run(j)
    BY <1>8 DEF drm_sched_job_run, End, Ran
  <1>9. CASE amdgpu_cs_ioctl_entry
    BY <1>0, <1>9 DEF amdgpu_cs_ioctl_entry, Moment, Happens, Other, Emits
  <1>10. CASE mm_vmscan_direct_reclaim_begin
    BY <1>0, <1>10 DEF mm_vmscan_direct_reclaim_begin, Moment, Happens, Other, Emits
  <1> QED
    BY <1>1, <1>2, <1>3, <1>4, <1>5, <1>6, <1>7, <1>8, <1>9, <1>10 DEF DeviceCalls

LEMMA KernelShape ==
  ASSUME Kernel
  PROVE  /\ (Other \/ Queued \/ Ran) /\ UNCHANGED <<attached, pids>>
         /\ UNCHANGED <<feed, host, pc, loaded, update, tick, tally, tracker, bounds, signal>>
         /\ pc \notin {"start", "stopped"}
  <1>1. Elapse => Other /\ UNCHANGED <<attached, pids>>
    BY DEF Elapse, Other, Emits
  <1> QED
    BY <1>1, ThreadShape, DeviceShape DEF Kernel, KernelNext

LEMMA QueuedQuiet == Queued => UNCHANGED <<ring, made, lost, ran>>
  BY DEF Queued, drm_sched_job_queue

LEMMA RanEmits == Ran => Emits
  BY DEF Ran, drm_sched_job_run, record_run, Unread, Emits, ProbeNames
-----------------------------------------------------------------------------
(* Every event is in one place *)

Rings ==
    /\ DOMAIN ring = ProbeNames /\ \A p \in ProbeNames : IsSeq(ring[p]) /\ Len(ring[p]) <= RingSize
    /\ made \in [ProbeNames -> Nat] /\ lost \in [ProbeNames -> Nat]
    /\ reported \in [ProbeNames -> Nat] /\ dropped \in [ProbeNames -> Nat]
    /\ loaded \subseteq ProbeNames /\ todo \subseteq ProbeNames
    /\ DocsOK(docs) /\ (docs # <<>> => pc \in {"collect", "flush"})
    /\ EachEventOnce

LEMMA RingsInit == Init => Rings
  <1> SUFFICES ASSUME Init PROVE Rings
    OBVIOUS
  <1>1. /\ ring = [p \in ProbeNames |-> <<>>] /\ docs = <<>> /\ loaded = {} /\ todo = {}
        /\ made = [p \in ProbeNames |-> 0] /\ lost = [p \in ProbeNames |-> 0]
        /\ reported = [p \in ProbeNames |-> 0] /\ dropped = [p \in ProbeNames |-> 0]
    BY DEF Init, KernelInit
  <1>2. DocsOK(<<>>) /\ IsSeq(<<>>) /\ Len(<<>>) = 0 /\ \A p : Count(<<>>, p) = 0
    BY CountEmpty, EmptyIsSeq
  <1> QED
    BY <1>1, <1>2, SizeAssumptions DEF Rings, EachEventOnce

\* A full buffer loses the event, one with room keeps it.
LEMMA RingsSubmit ==
  ASSUME Rings, NEW p \in ProbeNames, NEW e, Submit(p, e),
         UNCHANGED <<docs, reported, dropped, loaded, todo, pc>>
  PROVE  Rings'
  <1> DEFINE r == Append(ring[p], e)
  <1>1. IsSeq(ring[p]) /\ Len(ring[p]) \in Nat /\ Len(ring[p]) <= RingSize
    BY IsSeqFacts DEF Rings
  <1>2. IsSeq(r) /\ Len(r) = Len(ring[p]) + 1
    BY <1>1, AppendIsSeq
  <1> HIDE DEF r
  <1>3. made' \in [ProbeNames -> Nat] /\ made'[p] = made[p] + 1 /\ \A q \in ProbeNames \ {p} : made'[q] = made[q]
    BY DEF Submit, Rings
  <1>4. \A q \in ProbeNames : Count(docs, q) \in Nat
    BY CountFinite DEF Rings
  <1>5. CASE Len(ring[p]) < RingSize /\ ring' = [ring EXCEPT ![p] = r] /\ UNCHANGED lost
    <2>1. \A q \in ProbeNames : IsSeq(ring'[q]) /\ Len(ring'[q]) <= RingSize
      BY <1>1, <1>2, <1>5, SizeAssumptions DEF Rings
    <2>2. EachEventOnce'
      <3> SUFFICES ASSUME NEW q \in ProbeNames
                   PROVE  made'[q] = lost'[q] + Len(ring'[q]) + Count(docs', q) + reported'[q] + dropped'[q]
        BY DEF EachEventOnce
      <3>1. CASE q = p
        <4>1. Len(ring'[q]) = Len(ring[q]) + 1
          BY <1>2, <1>5, <3>1 DEF Rings
        <4> QED
          BY <1>1, <1>3, <1>4, <1>5, <3>1, <4>1, SMTT(30) DEF Rings, EachEventOnce
      <3>2. CASE q # p
        BY <1>3, <1>5, <3>2 DEF Rings, EachEventOnce
      <3> QED
        BY <3>1, <3>2
    <2> QED
      BY <1>3, <1>5, <2>1, <2>2 DEF Rings
  <1>6. CASE Len(ring[p]) >= RingSize /\ lost' = [lost EXCEPT ![p] = @ + 1] /\ UNCHANGED ring
    <2>1. lost' \in [ProbeNames -> Nat]
      BY <1>6 DEF Rings
    <2>2. EachEventOnce'
      <3> SUFFICES ASSUME NEW q \in ProbeNames
                   PROVE  made'[q] = lost'[q] + Len(ring'[q]) + Count(docs', q) + reported'[q] + dropped'[q]
        BY DEF EachEventOnce
      <3>1. CASE q = p
        BY <1>1, <1>3, <1>4, <1>6, <3>1 DEF Rings, EachEventOnce
      <3>2. CASE q # p
        BY <1>3, <1>6, <3>2 DEF Rings, EachEventOnce
      <3> QED
        BY <3>1, <3>2
    <2> QED
      BY <1>3, <1>6, <2>1, <2>2 DEF Rings
  <1> QED
    BY <1>5, <1>6 DEF Submit, r

LEMMA RingsKernel == Rings /\ Kernel => Rings'
  <1> SUFFICES ASSUME Rings, Kernel PROVE Rings'
    OBVIOUS
  <1>1. Emits /\ UNCHANGED <<docs, reported, dropped, loaded, todo, pc>>
    BY KernelShape, QueuedQuiet, RanEmits DEF Other, Emits, tick, tally
  <1>2. CASE UNCHANGED <<ring, made, lost>>
    BY <1>1, <1>2 DEF Rings, EachEventOnce
  <1> QED
    BY <1>1, <1>2, RingsSubmit DEF Emits

LEMMA RingsCollect == Rings /\ Collect => Rings'
  <1> SUFFICES ASSUME Rings, Collect PROVE Rings'
    OBVIOUS
  <1>1. \A n \in DOMAIN Candidates : Candidates[n] \in ProbeNames
    BY DEF Candidates, ProbeNames
  <1>2. PICK p \in ProbeNames :
           /\ todo' = todo \ {p}
           /\ \E new \in Flushes(p, ring[p], sid) : docs' = docs \o new
           /\ ring' = [ring EXCEPT ![p] = <<>>]
    BY <1>1 DEF Collect, Drain
  <1>3. PICK new \in Flushes(p, ring[p], sid) : docs' = docs \o new
    BY <1>2
  <1>4. pc = "collect" /\ UNCHANGED <<made, lost, pc, loaded, reported, dropped>>
    BY DEF Collect, tally
  <1>5. IsSeq(ring[p]) /\ Len(ring[p]) \in Nat
    BY IsSeqFacts DEF Rings
  <1>6. DocsOK(new) /\ \A q : Count(new, q) = IF q = p THEN Len(ring[p]) ELSE 0
    BY <1>5, FlushesCount
  <1>7. DocsOK(docs') /\ \A q : Count(docs', q) = Count(docs, q) + Count(new, q)
    BY <1>3, <1>6, CountConcat DEF Rings
  <1>8. \A q \in ProbeNames : IsSeq(ring'[q]) /\ Len(ring'[q]) <= RingSize
    BY <1>2, EmptyIsSeq, SizeAssumptions DEF Rings
  <1>9. EachEventOnce'
    <2> SUFFICES ASSUME NEW q \in ProbeNames
                 PROVE  made[q] = lost[q] + Len(ring'[q]) + Count(docs', q) + reported[q] + dropped[q]
      BY <1>4 DEF EachEventOnce
    <2>1. Count(docs, q) \in Nat
      BY CountFinite DEF Rings
    <2>2. CASE q = p
      <3>1. Len(ring'[q]) = 0
        BY <1>2, <2>2, EmptyIsSeq DEF Rings
      <3> QED
        BY <1>5, <1>6, <1>7, <2>1, <2>2, <3>1 DEF Rings, EachEventOnce
    <2>3. CASE q # p
      <3>1. ring'[q] = ring[q]
        BY <1>2, <2>3 DEF Rings
      <3>2. Count(docs', q) = Count(docs, q)
        BY <1>6, <1>7, <2>1, <2>3
      <3> QED
        BY <3>1, <3>2 DEF Rings, EachEventOnce
    <2> QED
      BY <2>2, <2>3
  <1> QED
    BY <1>2, <1>4, <1>7, <1>8, <1>9 DEF Rings

LEMMA RingsQueue == Rings /\ Queue => Rings'
  <1> SUFFICES ASSUME Rings, Queue PROVE Rings'
    OBVIOUS
  <1> DEFINE new == correlate(docs, sid)
  <1>1. /\ docs' = docs \o new /\ pc' = IF docs = <<>> THEN "select" ELSE "flush"
        /\ UNCHANGED <<ring, made, lost, loaded, todo, reported, dropped>>
    BY DEF Queue, kernel, tally
  <1>2. \A q \in ProbeNames : DocsOK(new) /\ Count(new, q) = 0
    BY CorrelateCounts
  <1>3. docs = <<>> => docs' = <<>>
    BY <1>1, NothingToCorrelate, ConcatEmptySeq, EmptySeq
  <1> HIDE DEF new
  <1>4. \A q \in ProbeNames : DocsOK(docs') /\ Count(docs', q) = Count(docs, q) + Count(new, q)
    BY <1>1, <1>2, CountConcat DEF Rings
  <1>5. \A q \in ProbeNames : Count(docs', q) = Count(docs, q)
    BY <1>2, <1>4, CountFinite DEF Rings
  <1>6. DocsOK(docs')
    BY <1>4 DEF ProbeNames
  <1>7. EachEventOnce'
    BY <1>1, <1>5 DEF Rings, EachEventOnce
  <1>8. docs' # <<>> => pc' \in {"collect", "flush"}
    BY <1>1, <1>3
  <1> QED
    BY <1>1, <1>6, <1>7, <1>8 DEF Rings

LEMMA RingsFlush == Rings /\ Flush => Rings'
  <1> SUFFICES ASSUME Rings, Flush PROVE Rings'
    OBVIOUS
  <1>1. docs' = <<>> /\ UNCHANGED <<ring, made, lost, loaded, todo>>
    BY DEF Flush, kernel
  <1>2. DocsOK(<<>>) /\ \A q : Count(<<>>, q) = 0
    BY CountEmpty
  <1>3. \A q : Count(docs, q) \in Nat
    BY CountFinite DEF Rings
  <1>4. PICK taken, refused :
           /\ Accept(taken, refused)
           /\ \A q : Count(taken, q) \in Nat /\ Count(refused, q) \in Nat
           /\ \A q : Count(docs, q) = Count(taken, q) + Count(refused, q)
    <2>1. CASE Accept(docs, <<>>) \/ Accept(<<>>, docs)
      BY <1>2, <1>3, <2>1
    <2>2. ASSUME NEW i \in DOMAIN docs, Accept(RemoveAt(docs, i), <<docs[i]>>)
          PROVE  \E taken, refused :
                    /\ Accept(taken, refused)
                    /\ \A q : Count(taken, q) \in Nat /\ Count(refused, q) \in Nat
                    /\ \A q : Count(docs, q) = Count(taken, q) + Count(refused, q)
      <3>1. \A q : Count(docs, q) = Count(RemoveAt(docs, i), q) + Count(<<docs[i]>>, q)
        BY CountRemove DEF Rings
      <3>2. \A q : Count(RemoveAt(docs, i), q) \in Nat /\ Count(<<docs[i]>>, q) \in Nat
        <4>1. DocsOK(RemoveAt(docs, i)) /\ DocsOK(<<docs[i]>>)
          BY CountRemove DEF Rings
        <4> QED
          BY <4>1, CountFinite
      <3> QED
        BY <2>2, <3>1, <3>2
    <2> QED
      BY <2>1, <2>2 DEF Flush
  <1>5. \A q \in ProbeNames : reported'[q] = reported[q] + Count(taken, q) /\ dropped'[q] = dropped[q] + Count(refused, q)
    BY <1>4 DEF Accept
  <1>6. reported' \in [ProbeNames -> Nat] /\ dropped' \in [ProbeNames -> Nat]
    BY <1>4 DEF Accept, Rings
  <1>7. EachEventOnce'
    <2> SUFFICES ASSUME NEW q \in ProbeNames
                 PROVE  made[q] = lost[q] + Len(ring[q]) + Count(docs', q) + reported'[q] + dropped'[q]
      BY <1>1 DEF EachEventOnce
    <2>1. Count(docs', q) = 0 /\ Len(ring[q]) \in Nat
      BY <1>1, <1>2, IsSeqFacts DEF Rings
    <2>2. Count(docs, q) = Count(taken, q) + Count(refused, q) /\ Count(taken, q) \in Nat /\ Count(refused, q) \in Nat
      BY <1>4
    <2> QED
      BY <1>5, <2>1, <2>2 DEF Rings, EachEventOnce
  <1> QED
    BY <1>1, <1>2, <1>6, <1>7 DEF Rings

LEMMA RingsNext == Rings /\ [Next]_vars => Rings'
  <1> SUFFICES ASSUME Rings, [Next]_vars PROVE Rings'
    OBVIOUS
  <1>1. CASE Load
    <2>1. \A p \in Range(Candidates) : p \in ProbeNames
      BY DEF Range, Candidates, ProbeNames
    <2>2. loaded' \subseteq ProbeNames /\ pc \notin {"collect", "flush"}
      BY <1>1, <2>1 DEF Load, Rings
    <2> QED
      BY <1>1, <2>2 DEF Load, Rings, EachEventOnce, tick, tally
  <1>2. CASE Seed \/ Connect \/ SessionChange \/ Shutdown \/ Detach
    BY <1>2 DEF Seed, Connect, SessionChange, Shutdown, Detach, Selecting, Rings, EachEventOnce, kernel, tick, tally
  <1>3. CASE UpdateStep \/ Signal \/ WatcherPublishes
    BY <1>3 DEF UpdateStep, Signal, WatcherPublishes, Rings, EachEventOnce, kernel, tick, tally
  <1>4. CASE Tick
    <2>1. docs = <<>>
      BY <1>4 DEF Tick, Selecting, Rings
    <2>2. docs' = <<>> /\ todo' \subseteq ProbeNames /\ UNCHANGED <<ring, made, lost, reported, dropped, loaded>>
      BY <1>4, <2>1 DEF Tick, Rings, kernel, tally, tick
    <2> QED
      BY <2>1, <2>2 DEF Rings, EachEventOnce
  <1>5. CASE UNCHANGED vars
    BY <1>5 DEF vars, Rings, EachEventOnce, kernel, tick, tally
  <1> QED
    BY <1>1, <1>2, <1>3, <1>4, <1>5, RingsKernel, RingsCollect, RingsQueue, RingsFlush
       DEF Next, Daemon, Loop
-----------------------------------------------------------------------------
(* Maps of start times stay within their size *)

MapsOK ==
    /\ DOMAIN starts = Maps
    /\ \A m \in Maps : IsFiniteSet(Started(m)) /\ Cardinality(Started(m)) <= MapSize

LEMMA PutDomain ==
  ASSUME NEW f, NEW k, NEW v
  PROVE  DOMAIN Put(f, k, v) = DOMAIN f \cup {k} /\ DOMAIN Without(f, k) = DOMAIN f \ {k}
  BY DEF Put, Without

\* One map changes, and its keys stay few.
LEMMA MapsChange ==
  ASSUME MapsOK, NEW m \in Maps, NEW f, starts' = [starts EXCEPT ![m] = f],
         IsFiniteSet(DOMAIN f), Cardinality(DOMAIN f) <= MapSize
  PROVE  MapsOK'
  <1>1. \A n \in Maps : starts'[n] = IF n = m THEN f ELSE starts[n]
    BY DEF MapsOK
  <1> QED
    BY <1>1 DEF MapsOK, Started

LEMMA MapsInsert ==
  ASSUME MapsOK, NEW m \in Maps, NEW k, Insert(m, k)
  PROVE  MapsOK'
  <1> DEFINE f == Put(starts[m], k, clock)
  <1>0. IsFiniteSet(Started(m)) /\ Cardinality(Started(m)) <= MapSize /\ Cardinality(Started(m)) \in Nat
    BY FS_CardinalityType DEF MapsOK
  <1>1. CASE UNCHANGED starts
    BY <1>1 DEF MapsOK, Started
  <1>2. CASE starts' = [starts EXCEPT ![m] = f] /\ (k \in Started(m) \/ Cardinality(Started(m)) < MapSize)
    <2>1. DOMAIN f = Started(m) \cup {k}
      BY PutDomain DEF Started
    <2> HIDE DEF f
    <2>2. IsFiniteSet(DOMAIN f) /\ Cardinality(DOMAIN f) = IF k \in Started(m) THEN Cardinality(Started(m)) ELSE Cardinality(Started(m)) + 1
      BY <1>0, <2>1, FS_AddElement
    <2>3. Cardinality(DOMAIN f) <= MapSize
      BY <1>0, <1>2, <2>2, SizeAssumptions
    <2> QED
      BY <1>2, <2>2, <2>3, MapsChange
  <1> QED
    BY <1>1, <1>2 DEF Insert

LEMMA MapsRemove ==
  ASSUME MapsOK, NEW m \in Maps, NEW k, starts' = [starts EXCEPT ![m] = Without(@, k)]
  PROVE  MapsOK'
  <1> DEFINE f == Without(starts[m], k)
  <1>1. DOMAIN f = Started(m) \ {k}
    BY PutDomain DEF Started
  <1>2. IsFiniteSet(Started(m)) /\ Cardinality(Started(m)) <= MapSize /\ Cardinality(Started(m)) \in Nat
    BY FS_CardinalityType DEF MapsOK
  <1> HIDE DEF f
  <1>3. IsFiniteSet(DOMAIN f) /\ Cardinality(DOMAIN f) <= Cardinality(Started(m)) /\ Cardinality(DOMAIN f) \in Nat
    <2>1. /\ IsFiniteSet(DOMAIN f)
          /\ Cardinality(DOMAIN f) = IF k \in Started(m) THEN Cardinality(Started(m)) - 1 ELSE Cardinality(Started(m))
      BY <1>1, <1>2, FS_RemoveElement
    <2>2. Cardinality(DOMAIN f) \in Nat
      BY <2>1, FS_CardinalityType
    <2> QED
      BY <1>2, <2>1, <2>2
  <1>4. Cardinality(DOMAIN f) <= MapSize
    BY <1>2, <1>3, SizeAssumptions
  <1> QED
    BY <1>3, <1>4, MapsChange DEF f

\* An eviction makes room for the new job.
LEMMA MapsEvict ==
  ASSUME MapsOK, NEW j, NEW old \in Started("gpu"),
         starts' = [starts EXCEPT !["gpu"] = Put(Without(@, old), j, clock)]
  PROVE  MapsOK'
  <1> DEFINE S == Started("gpu")
             f == Put(Without(starts["gpu"], old), j, clock)
  <1>1. DOMAIN f = (S \ {old}) \cup {j}
    <2> DEFINE g == Without(starts["gpu"], old)
    <2>1. DOMAIN g = S \ {old}
      BY PutDomain DEF Started
    <2> HIDE DEF g
    <2>2. DOMAIN Put(g, j, clock) = DOMAIN g \cup {j}
      BY PutDomain
    <2> QED
      BY <2>1, <2>2 DEF g
  <1>2. IsFiniteSet(S) /\ Cardinality(S) <= MapSize /\ Cardinality(S) \in Nat /\ "gpu" \in Maps
    BY FS_CardinalityType DEF MapsOK, Maps
  <1> HIDE DEF f, S
  <1>3. IsFiniteSet(S \ {old}) /\ Cardinality(S \ {old}) = Cardinality(S) - 1
    BY <1>2, FS_RemoveElement DEF S
  <1>4. IsFiniteSet(DOMAIN f) /\ Cardinality(DOMAIN f) <= Cardinality(S) /\ Cardinality(DOMAIN f) \in Nat
    <2> DEFINE T == S \ {old}
    <2>1. IsFiniteSet(T) /\ Cardinality(T) = Cardinality(S) - 1 /\ DOMAIN f = T \cup {j}
      BY <1>1, <1>3
    <2> HIDE DEF T
    <2>2. /\ IsFiniteSet(DOMAIN f)
          /\ Cardinality(DOMAIN f) = IF j \in T THEN Cardinality(T) ELSE Cardinality(T) + 1
      BY <2>1, FS_AddElement
    <2>3. Cardinality(DOMAIN f) \in Nat
      BY <2>2, FS_CardinalityType
    <2> QED
      BY <1>2, <2>1, <2>2, <2>3
  <1>5. Cardinality(DOMAIN f) <= MapSize
    BY <1>2, <1>4, SizeAssumptions
  <1> QED
    BY <1>2, <1>4, <1>5, MapsChange DEF f

LEMMA MapsNext == MapsOK /\ [Next]_vars => MapsOK'
  <1> SUFFICES ASSUME MapsOK, [Next]_vars PROVE MapsOK'
    OBVIOUS
  <1>1. CASE Kernel
    <2>0. "gpu" \in Maps
      BY DEF Maps
    <2>1. CASE Other
      <3>1. CASE UNCHANGED starts
        BY <3>1 DEF MapsOK, Started
      <3> QED
        BY <2>1, <3>1, MapsInsert, MapsRemove DEF Other
    <2>2. CASE Queued
      <3>1. PICK j : UNCHANGED starts \/ record_queue(j)
        BY <2>2 DEF Queued, drm_sched_job_queue
      <3>2. CASE UNCHANGED starts
        BY <3>2 DEF MapsOK, Started
      <3> QED
        BY <2>0, <3>1, <3>2, MapsInsert, MapsEvict DEF record_queue
    <2>3. CASE Ran
      <3>1. PICK j : UNCHANGED starts \/ starts' = [starts EXCEPT !["gpu"] = Without(@, j)]
        BY <2>3 DEF Ran, drm_sched_job_run, record_run, Unread
      <3>2. CASE UNCHANGED starts
        BY <3>2 DEF MapsOK, Started
      <3> QED
        BY <2>0, <3>1, <3>2, MapsRemove
    <2> QED
      BY <1>1, <2>1, <2>2, <2>3, KernelShape
  <1>2. CASE ~Kernel
    <2>1. UNCHANGED starts
      BY <1>2 DEF Next, Daemon, Loop, vars, Load, Seed, UpdateStep, Connect, Collect, Queue, Flush, Detach,
         Tick, SessionChange, Shutdown, Signal, WatcherPublishes, kernel
    <2> QED
      BY <2>1 DEF MapsOK, Started
  <1> QED
    BY <1>1, <1>2

LEMMA MapsInit == Init => MapsOK
  <1> SUFFICES ASSUME Init PROVE MapsOK
    OBVIOUS
  <1>1. DOMAIN NoKey = {}
    BY DEF NoKey
  <1>2. starts = [m \in Maps |-> NoKey]
    BY DEF Init, KernelInit
  <1> QED
    BY <1>1, <1>2, FS_EmptySet, SizeAssumptions DEF MapsOK, Started

-----------------------------------------------------------------------------
(* Losses are counted, and named once *)

Losses ==
    /\ loss \in [LossKinds -> Nat] /\ logged \in [LossKinds -> Nat]
    /\ warned.counted = logged /\ LossesNamedOnce
    /\ IsFiniteSet(ran) /\ GpuJobsAccounted

LEMMA LossesInit == Init => Losses
  <1> SUFFICES ASSUME Init PROVE Losses
    OBVIOUS
  <1>1. /\ loss = [k \in LossKinds |-> 0] /\ logged = [k \in LossKinds |-> 0] /\ ran = {}
        /\ made = [p \in ProbeNames |-> 0] /\ lost = [p \in ProbeNames |-> 0]
        /\ warned.counted = [k \in LossKinds |-> 0]
    BY DEF Init, KernelInit
  <1>2. IsFiniteSet({}) /\ Cardinality({}) = 0
    BY FS_EmptySet
  <1> QED
    BY <1>1, <1>2 DEF Losses, LossesNamedOnce, GpuJobsAccounted, LossKinds, ProbeNames

\* The jobs that ran, against what became of them.
Spare == made["gpu_sched"] - lost["gpu_sched"] + loss["key_read"] + loss["run_miss"] + loss["ringbuf_reserve"]

LEMMA LossesGrow ==
  ASSUME Losses, Rings, UNCHANGED tracker, loss' \in [LossKinds -> Nat], \A k \in LossKinds : loss'[k] >= loss[k],
         Spare \in Int, Spare' \in Int,
         \/ UNCHANGED ran /\ Spare' >= Spare
         \/ \E j : ran' = ran \cup {j} /\ Spare' >= Spare + 1
  PROVE  Losses'
  <1>1. LossesNamedOnce' /\ logged' \in [LossKinds -> Nat] /\ warned'.counted = logged'
    BY DEF Losses, LossesNamedOnce, tracker
  <1>2. Cardinality(ran) \in Nat /\ Cardinality(ran) <= Spare
    BY FS_CardinalityType DEF Losses, GpuJobsAccounted, Spare
  <1>3. IsFiniteSet(ran') /\ Cardinality(ran') <= Spare'
    <2>1. CASE UNCHANGED ran /\ Spare' >= Spare
      BY <1>2, <2>1 DEF Losses
    <2>2. ASSUME NEW j, ran' = ran \cup {j}, Spare' >= Spare + 1 PROVE IsFiniteSet(ran') /\ Cardinality(ran') <= Spare'
      <3>1. IsFiniteSet(ran') /\ Cardinality(ran') <= Cardinality(ran) + 1 /\ Cardinality(ran') \in Nat
        <4>1. IsFiniteSet(ran)
          BY DEF Losses
        <4>2. IsFiniteSet(ran') /\ Cardinality(ran') = IF j \in ran THEN Cardinality(ran) ELSE Cardinality(ran) + 1
          BY <2>2, <4>1, FS_AddElement
        <4>3. Cardinality(ran') \in Nat
          BY <4>2, FS_CardinalityType
        <4> QED
          BY <1>2, <4>2, <4>3
      <3> QED
        BY <1>2, <2>2, <3>1
    <2> QED
      BY <2>1, <2>2
  <1> QED
    BY <1>1, <1>3 DEF Losses, GpuJobsAccounted, Spare

LEMMA SubmitCounts ==
  ASSUME Rings, NEW p \in ProbeNames, NEW e, Submit(p, e)
  PROVE  /\ made' \in [ProbeNames -> Nat] /\ lost' \in [ProbeNames -> Nat]
         /\ \A q \in ProbeNames : made'[q] - lost'[q] >= made[q] - lost[q]
         /\ Len(ring[p]) < RingSize => made'[p] - lost'[p] = made[p] - lost[p] + 1
         /\ made'[p] - lost'[p] \in Int
  <1>1. Len(ring[p]) \in Nat
    BY IsSeqFacts DEF Rings
  <1>2. /\ made \in [ProbeNames -> Nat] /\ lost \in [ProbeNames -> Nat]
        /\ made' = [made EXCEPT ![p] = @ + 1]
        /\ (UNCHANGED lost \/ (lost' = [lost EXCEPT ![p] = @ + 1] /\ ~(Len(ring[p]) < RingSize)))
    BY <1>1, SizeAssumptions DEF Rings, Submit
  <1>3. made' \in [ProbeNames -> Nat] /\ lost' \in [ProbeNames -> Nat]
    BY <1>2
  <1>4. \A q \in ProbeNames : /\ made[q] \in Nat /\ lost[q] \in Nat
                              /\ made'[q] = IF q = p THEN made[q] + 1 ELSE made[q]
                              /\ lost'[q] = lost[q] \/ (q = p /\ lost'[q] = lost[q] + 1)
    BY <1>2
  <1>5. Len(ring[p]) < RingSize => lost'[p] = lost[p]
    BY <1>2
  <1>6. \A q \in ProbeNames : made'[q] - lost'[q] >= made[q] - lost[q]
    BY <1>4
  <1> QED
    BY <1>3, <1>4, <1>5, <1>6

LEMMA LossesKernel == Losses /\ Rings /\ Kernel => Losses'
  <1> SUFFICES ASSUME Losses, Rings, Kernel PROVE Losses'
    OBVIOUS
  <1>0. UNCHANGED tracker
    BY KernelShape
  <1>1. "gpu_sched" \in ProbeNames /\ {"key_read", "queue_insert", "run_miss", "ringbuf_reserve"} \subseteq LossKinds
    BY DEF ProbeNames, LossKinds
  <1>2. /\ made["gpu_sched"] - lost["gpu_sched"] \in Int
        /\ loss["key_read"] \in Nat /\ loss["run_miss"] \in Nat /\ loss["ringbuf_reserve"] \in Nat
        /\ Spare \in Int
    BY <1>1 DEF Spare, Rings, Losses
  <1>3. CASE Other
    <2>1. UNCHANGED <<loss, ran>> /\ Emits
      BY <1>3 DEF Other
    <2>2. CASE UNCHANGED <<ring, made, lost>>
      <3>1. Spare' = Spare
        BY <2>1, <2>2 DEF Spare
      <3> QED
        BY <1>0, <1>2, <2>1, <3>1, LossesGrow DEF Losses
    <2>3. ASSUME NEW p \in ProbeNames, NEW e, Submit(p, e) PROVE Losses'
      <3>1. Spare' \in Int /\ Spare' >= Spare
        <4>1. /\ made'["gpu_sched"] \in Nat /\ lost'["gpu_sched"] \in Nat
              /\ made'["gpu_sched"] - lost'["gpu_sched"] >= made["gpu_sched"] - lost["gpu_sched"]
          BY <1>1, <2>3, SubmitCounts
        <4> QED
          BY <1>2, <2>1, <4>1 DEF Spare
      <3> QED
        BY <1>0, <1>2, <2>1, <3>1, LossesGrow DEF Losses
    <2> QED
      BY <2>1, <2>2, <2>3 DEF Emits
  <1>4. CASE Queued
    <2>1. UNCHANGED <<made, lost, ran>>
      BY <1>4, QueuedQuiet
    <2>2. UNCHANGED loss \/ \E k \in LossKinds : count_loss(k)
      BY <1>1, <1>4 DEF Queued, drm_sched_job_queue, record_queue
    <2>3. loss' \in [LossKinds -> Nat] /\ \A k \in LossKinds : loss'[k] >= loss[k]
      BY <2>2 DEF count_loss, Losses
    <2>4. Spare' \in Int /\ Spare' >= Spare
      <3>1. \A k \in {"key_read", "run_miss", "ringbuf_reserve"} : loss'[k] \in Nat /\ loss'[k] >= loss[k]
        BY <1>1, <2>3
      <3> QED
        BY <1>2, <2>1, <3>1 DEF Spare
    <2> QED
      BY <1>0, <1>2, <2>1, <2>3, <2>4, LossesGrow
  <1>5. CASE Ran
    <2>1. PICK j : drm_sched_job_run(j)
      BY <1>5 DEF Ran
    <2>2. CASE UNCHANGED <<ring, loss, made, lost, ran>>
      <3>1. Spare' = Spare
        BY <2>2 DEF Spare
      <3> QED
        BY <1>0, <1>2, <2>2, <3>1, LossesGrow DEF Losses
    <2>3. ASSUME NEW k \in {"key_read", "run_miss"}, count_loss(k), UNCHANGED <<made, lost>>, ran' = ran \cup {j} PROVE Losses'
      <3>1. loss' \in [LossKinds -> Nat] /\ (\A h \in LossKinds : loss'[h] >= loss[h]) /\ loss'[k] = loss[k] + 1
        BY <1>1, <2>3 DEF count_loss, Losses
      <3>2. Spare' \in Int /\ Spare' >= Spare + 1
        <4>1. \A h \in {"key_read", "run_miss", "ringbuf_reserve"} : loss'[h] \in Nat /\ loss'[h] >= loss[h]
          BY <1>1, <3>1
        <4> QED
          BY <1>2, <2>3, <3>1, <4>1 DEF Spare
      <3> QED
        BY <1>0, <1>2, <2>3, <3>1, <3>2, LossesGrow
    <2>4. ASSUME NEW e, Submit("gpu_sched", e), ran' = ran \cup {j},
                 IF Len(ring["gpu_sched"]) < RingSize THEN UNCHANGED loss ELSE count_loss("ringbuf_reserve")
          PROVE  Losses'
      <3>1. /\ made' \in [ProbeNames -> Nat] /\ lost' \in [ProbeNames -> Nat]
            /\ made'["gpu_sched"] - lost'["gpu_sched"] >= made["gpu_sched"] - lost["gpu_sched"]
            /\ Len(ring["gpu_sched"]) < RingSize
                => made'["gpu_sched"] - lost'["gpu_sched"] = made["gpu_sched"] - lost["gpu_sched"] + 1
        BY <1>1, <2>4, SubmitCounts
      <3>2. loss' \in [LossKinds -> Nat] /\ (\A h \in LossKinds : loss'[h] >= loss[h])
            /\ (~(Len(ring["gpu_sched"]) < RingSize) => loss'["ringbuf_reserve"] = loss["ringbuf_reserve"] + 1)
        <4>1. CASE UNCHANGED loss /\ Len(ring["gpu_sched"]) < RingSize
          BY <4>1 DEF Losses
        <4>2. CASE count_loss("ringbuf_reserve")
          BY <1>1, <4>2 DEF count_loss, Losses
        <4> QED
          BY <2>4, <4>1, <4>2
      <3>3. Spare' \in Int /\ Spare' >= Spare + 1
        <4>1. \A h \in {"key_read", "run_miss", "ringbuf_reserve"} : loss'[h] \in Nat /\ loss'[h] >= loss[h]
          BY <1>1, <3>2
        <4>2. made'["gpu_sched"] - lost'["gpu_sched"] \in Int
          BY <1>1, <3>1
        <4> DEFINE gain == made["gpu_sched"] - lost["gpu_sched"]
        <4>3. \/ gain' = gain + 1 /\ gain \in Int
              \/ gain' >= gain /\ gain \in Int /\ gain' \in Int /\ loss'["ringbuf_reserve"] = loss["ringbuf_reserve"] + 1
          BY <1>2, <3>1, <3>2, <4>2
        <4>4. Spare = gain + loss["key_read"] + loss["run_miss"] + loss["ringbuf_reserve"]
              /\ Spare' = gain' + loss'["key_read"] + loss'["run_miss"] + loss'["ringbuf_reserve"]
          BY DEF Spare
        <4> HIDE DEF gain
        <4> QED
          BY <1>2, <4>1, <4>3, <4>4
      <3> QED
        BY <1>0, <1>2, <2>4, <3>2, <3>3, LossesGrow
    <2> QED
      BY <2>1, <2>2, <2>3, <2>4 DEF drm_sched_job_run, record_run, Unread
  <1> QED
    BY <1>3, <1>4, <1>5, KernelShape

LEMMA LossesNext == Losses /\ Rings /\ [Next]_vars => Losses'
  <1> SUFFICES ASSUME Losses, Rings, [Next]_vars PROVE Losses'
    OBVIOUS
  <1>1. CASE ~Kernel /\ ~Collect
    <2>1. UNCHANGED <<tracker, loss, ran, made, lost>>
      BY <1>1 DEF Next, Daemon, Loop, vars, Load, Seed, UpdateStep, Connect, Queue, Flush, Detach,
         Tick, SessionChange, Shutdown, Signal, WatcherPublishes, kernel
    <2> QED
      BY <2>1 DEF tracker, Losses, LossesNamedOnce, GpuJobsAccounted
  <1>2. CASE Collect
    <2>1. UNCHANGED <<loss, ran, made, lost>> /\ (UNCHANGED tracker \/ observe(loss))
      BY <1>2 DEF Collect
    <2>2. CASE UNCHANGED tracker
      BY <2>1, <2>2 DEF tracker, Losses, LossesNamedOnce, GpuJobsAccounted
    <2>3. CASE warned' = [at |-> clock, counted |-> loss]
               /\ logged' = [k \in LossKinds |-> logged[k] + (loss[k] - warned.counted[k])]
      <3>1. \A k \in LossKinds : logged[k] + (loss[k] - warned.counted[k]) = loss[k]
        BY DEF Losses
      <3>2. logged' = [k \in LossKinds |-> loss[k]]
        BY <2>3, <3>1
      <3>3. logged' = loss
        BY <3>2 DEF Losses
      <3> QED
        BY <2>1, <2>3, <3>3 DEF Losses, LossesNamedOnce, GpuJobsAccounted
    <2> QED
      BY <2>1, <2>2, <2>3 DEF observe
  <1> QED
    BY <1>1, <1>2, LossesKernel
-----------------------------------------------------------------------------
(* The filter and the session feed *)

Places == {"start", "seed", "connect", "select", "collect", "flush", "detach", "stopped"}

FilterOK ==
    /\ pc \in Places
    /\ pids \subseteq Threads /\ IsFiniteSet(pids) /\ Cardinality(pids) <= MapSize
    /\ update \in [remove : SUBSET Threads, insert : Seq(Threads)]
    /\ update # NoUpdate => pc \in {"connect", "select"}
    /\ state \in States /\ channel \in Seq(States) /\ Len(channel) <= ChannelSize

\* SetToSeq lists a finite set, each element once.
LEMMA SetToSeqLists ==
  ASSUME NEW S, IsFiniteSet(S)
  PROVE  /\ SetToSeq(S) \in Seq(S) /\ Range(SetToSeq(S)) = S
         /\ IsInjective(SetToSeq(S))
  <1> DEFINE n == Cardinality(S)
             q == SetToSeq(S)
  <1>1. n \in Nat /\ ExistsBijection(1..n, S)
    BY FS_CardinalityType
  <1> HIDE DEF n
  <1>2. \E f \in [1..n -> S] : IsInjective(f)
    BY <1>1 DEF ExistsBijection, Bijection, Injection
  <1>3. q \in [1..n -> S] /\ IsInjective(q)
    BY <1>2 DEF SetToSeq, n
  <1> HIDE DEF q
  <1>4. IsFiniteSet(1..n) /\ Cardinality(1..n) = n
    BY <1>1, FS_Interval
  <1>5. q \in Surjection(1..n, S)
    <2>1. q \in Injection(1..n, S)
      BY <1>3 DEF Injection
    <2>2. Cardinality(1..n) = Cardinality(S)
      BY <1>4 DEF n
    <2> QED
      BY <2>1, <2>2, FS_Injection
  <1>6. q \in Seq(S)
    BY <1>1, <1>3
  <1>7. Range(q) = S
    BY <1>3, <1>5 DEF Range, Surjection
  <1> QED
    BY <1>3, <1>6, <1>7 DEF q

LEMMA UpdateType ==
  ASSUME NEW s \in States, pids \subseteq Threads, StartUpdate(s)
  PROVE  update' \in [remove : SUBSET Threads, insert : Seq(Threads)]
  <1>1. s.tids \subseteq Threads /\ IsFiniteSet(s.tids)
    BY SessionAssumptions
  <1>2. SetToSeq(s.tids) \in Seq(s.tids)
    BY <1>1, SetToSeqLists
  <1>3. SetToSeq(s.tids) \in Seq(Threads)
    BY <1>1, <1>2, SeqMonotonic
  <1> QED
    BY <1>3 DEF StartUpdate

LEMMA FilterInit == Init => FilterOK
  <1> SUFFICES ASSUME Init PROVE FilterOK
    OBVIOUS
  <1>1. pc = "start" /\ pids = {} /\ update = NoUpdate /\ state = NoSession /\ channel = <<>>
    BY DEF Init, KernelInit, FeedInit
  <1>2. IsFiniteSet({}) /\ Cardinality({}) = 0
    BY FS_EmptySet
  <1>3. NoUpdate \in [remove : SUBSET Threads, insert : Seq(Threads)]
    BY DEF NoUpdate
  <1> QED
    BY <1>1, <1>2, <1>3, FeedAssumptions, SizeAssumptions DEF FilterOK, Places

LEMMA FilterUpdate == FilterOK /\ UpdateStep => FilterOK'
  <1> SUFFICES ASSUME FilterOK, UpdateStep PROVE FilterOK'
    OBVIOUS
  <1>0. /\ pc \in {"connect", "select"} /\ UNCHANGED <<pc, state, channel>>
        /\ Cardinality(pids) \in Nat
    BY FS_CardinalityType DEF FilterOK, UpdateStep, feed
  <1>1. CASE \E t \in update.remove : pids' = pids \ {t} /\ update' = [update EXCEPT !.remove = @ \ {t}]
    <2>1. PICK t \in update.remove : pids' = pids \ {t} /\ update' = [update EXCEPT !.remove = @ \ {t}]
      BY <1>1
    <2>2. update' \in [remove : SUBSET Threads, insert : Seq(Threads)]
      BY <2>1 DEF FilterOK
    <2>3. /\ IsFiniteSet(pids')
          /\ Cardinality(pids') = IF t \in pids THEN Cardinality(pids) - 1 ELSE Cardinality(pids)
      BY <2>1, FS_RemoveElement DEF FilterOK
    <2>4. Cardinality(pids') <= MapSize
      BY <1>0, <2>3, SizeAssumptions DEF FilterOK
    <2> QED
      BY <1>0, <2>1, <2>2, <2>3, <2>4 DEF FilterOK, Places
  <1>2. CASE /\ update.remove = {}
             /\ pids' = IF Cardinality(pids) < MapSize THEN pids \cup {Head(update.insert)} ELSE pids
             /\ update' = [update EXCEPT !.insert = Tail(@)]
    <2>1. update.insert # <<>> /\ update.insert \in Seq(Threads)
      BY <1>2 DEF FilterOK, UpdateStep, NoUpdate
    <2>2. Head(update.insert) \in Threads /\ Tail(update.insert) \in Seq(Threads)
      BY <2>1, HeadTailProperties
    <2>3. update' \in [remove : SUBSET Threads, insert : Seq(Threads)]
      BY <1>2, <2>2 DEF FilterOK
    <2>4. CASE pids' = pids
      BY <1>0, <2>3, <2>4 DEF FilterOK, Places
    <2>5. CASE Cardinality(pids) < MapSize /\ pids' = pids \cup {Head(update.insert)}
      <3> DEFINE t == Head(update.insert)
      <3>1. t \in Threads /\ pids' = pids \cup {t}
        BY <2>2, <2>5
      <3> HIDE DEF t
      <3>2. /\ IsFiniteSet(pids')
            /\ Cardinality(pids') = IF t \in pids THEN Cardinality(pids) ELSE Cardinality(pids) + 1
        BY <3>1, FS_AddElement DEF FilterOK
      <3>3. Cardinality(pids') <= MapSize
        BY <1>0, <2>5, <3>2, SizeAssumptions
      <3> QED
        BY <1>0, <2>3, <3>1, <3>2, <3>3 DEF FilterOK, Places
    <2> QED
      BY <1>2, <2>4, <2>5
  <1> QED
    BY <1>1, <1>2 DEF UpdateStep

LEMMA FilterNext == FilterOK /\ [Next]_vars => FilterOK'
  <1> SUFFICES ASSUME FilterOK, [Next]_vars PROVE FilterOK'
    OBVIOUS
  <1>1. CASE Kernel
    BY <1>1, KernelShape DEF FilterOK, feed
  <1>2. CASE Load \/ Connect \/ Shutdown \/ Detach \/ Collect \/ Queue \/ Flush \/ Tick \/ Signal \/ UNCHANGED vars
    <2>1. UNCHANGED <<pids, state, channel, update>>
      BY <1>2 DEF Load, Connect, Shutdown, Detach, Collect, Queue, Flush, Tick, Signal, vars, feed, kernel
    <2>2. pc' \in Places /\ (update # NoUpdate => pc' \in {"connect", "select"})
      BY <1>2 DEF Load, Connect, Shutdown, Detach, Collect, Queue, Flush, Tick, Signal, vars, Selecting, FilterOK, Places
    <2> QED
      BY <2>1, <2>2 DEF FilterOK
  <1>3. CASE Seed
    <2>1. pc' = "connect" /\ UNCHANGED <<pids, state, channel>> /\ (StartUpdate(state) \/ UNCHANGED update)
      BY <1>3 DEF Seed, Take, kernel
    <2>2. update' \in [remove : SUBSET Threads, insert : Seq(Threads)]
      BY <2>1, UpdateType DEF FilterOK
    <2> QED
      BY <2>1, <2>2 DEF FilterOK, Places
  <1>4. CASE SessionChange
    <2>1. /\ pc = "select" /\ UNCHANGED <<pids, state, pc>> /\ StartUpdate(Head(channel))
          /\ channel # <<>> /\ channel' = Tail(channel)
      BY <1>4 DEF SessionChange, Selecting, Recv, kernel
    <2>2. /\ Head(channel) \in States /\ channel' \in Seq(States) /\ Len(channel') = Len(channel) - 1
          /\ Len(channel) \in Nat /\ Len(channel) <= ChannelSize /\ ChannelSize \in Nat
      BY <2>1, HeadTailProperties, FeedAssumptions DEF FilterOK
    <2>3. update' \in [remove : SUBSET Threads, insert : Seq(Threads)]
      BY <2>1, <2>2, UpdateType DEF FilterOK
    <2>4. Len(channel') <= ChannelSize
      BY <2>2
    <2> QED
      BY <2>1, <2>2, <2>3, <2>4 DEF FilterOK, Places
  <1>5. CASE WatcherPublishes
    <2>1. UNCHANGED <<pids, update, pc>> /\ \E s \in States : Publish(s)
      BY <1>5 DEF WatcherPublishes, kernel
    <2>2. state' \in States /\ channel' \in Seq(States) /\ Len(channel') <= ChannelSize
      BY <2>1, FeedAssumptions DEF Publish, FilterOK
    <2> QED
      BY <2>1, <2>2 DEF FilterOK
  <1> QED
    BY <1>1, <1>2, <1>3, <1>4, <1>5, FilterUpdate DEF Next, Daemon, Loop

-----------------------------------------------------------------------------
(* The daemon's invariant *)

Daemonic == Rings /\ MapsOK /\ Losses /\ FilterOK

LEMMA DaemonicNext == Daemonic /\ [Next]_vars => Daemonic'
  BY RingsNext, MapsNext, LossesNext, FilterNext DEF Daemonic

\* The programs, the main loop and the shipper, on any host, for any activity of the
\* kernel, any session changes and any answers of the server: maps, ring buffers and channel
\* stay within their sizes, every event that was built is in exactly one place, a gpu job
\* that ran left an event or is counted as lost, and no loss is named twice.
THEOREM EbpfCorrect == Spec => []EbpfInv
  <1>1. Init => Daemonic
    BY RingsInit, MapsInit, LossesInit, FilterInit DEF Daemonic
  <1>2. Daemonic => EbpfInv
    <2> SUFFICES ASSUME Daemonic PROVE EbpfInv
      OBVIOUS
    <2>1. \A p \in ProbeNames : made[p] >= lost[p]
      <3> SUFFICES ASSUME NEW p \in ProbeNames PROVE made[p] >= lost[p]
        OBVIOUS
      <3>1. /\ Len(ring[p]) \in Nat /\ Count(docs, p) \in Nat /\ reported[p] \in Nat /\ dropped[p] \in Nat
            /\ lost[p] \in Nat /\ made[p] = lost[p] + Len(ring[p]) + Count(docs, p) + reported[p] + dropped[p]
        BY IsSeqFacts, CountFinite DEF Daemonic, Rings, EachEventOnce
      <3> QED
        BY <3>1
    <2>2. TypeOK
      BY <2>1 DEF Daemonic, TypeOK, Rings, MapsOK, FilterOK, Places
    <2> QED
      BY <2>2 DEF EbpfInv, Daemonic, Rings, Losses
  <1> QED
    BY <1>1, <1>2, DaemonicNext, PTL DEF Spec
-----------------------------------------------------------------------------
(* Latencies are of the calls that ended *)

\* The maps whose entries name one call, with the program that takes an entry out.
Paired == {"futex", "read", "write", "fence", "hard", "soft"}
EndOf == [futex |-> "do_futex_return", read |-> "vfs_read_return", write |-> "vfs_write_return",
          fence |-> "dma_fence_default_wait_return", hard |-> "irq_handler_exit",
          soft |-> "softirq_exit"]
Timed == {"futex", "vfs", "gpu_fence", "irq", "gpu_sched"}

\* The call behind an entry.
Op(m, k) == IF m = "hard" THEN <<m, k[1], k[2]>> ELSE <<m, k>>
KeyOK(m, k) == m = "hard" => k \in Cpus \X Lines

\* An entry is the start of a call in progress, as long as its second program runs.
StartsTrue ==
    \A m \in Paired : EndOf[m] \in attached => \A k \in Started(m) :
        KeyOK(m, k) /\ Op(m, k) \in DOMAIN calls /\ starts[m][k] = calls[Op(m, k)]

\* So is a job's, unless the job ran and its key could not be read; it does not run again.
JobsTrue ==
    /\ \A j \in ran : <<"gpu", j>> \notin DOMAIN calls
    /\ "gpu_run" \in attached => \A j \in Started("gpu") :
          j \in ran \/ (<<"gpu", j>> \in DOMAIN calls /\ starts["gpu"][j] = calls[<<"gpu", j>>])

\* Nothing was recorded before the programs were attached.
Unused == pc = "start" => \A m \in Maps : Started(m) = {}

Truthful == StartsTrue /\ JobsTrue /\ LatencyTrue

Opens(m, op, k) ==
    /\ op \notin DOMAIN calls /\ calls' = Put(calls, op, clock) /\ UNCHANGED <<attached, ran>>
    /\ UNCHANGED starts \/ starts' = [starts EXCEPT ![m] = Put(@, k, clock)]

Closes(m, op, k) ==
    /\ calls' = Without(calls, op) /\ UNCHANGED <<attached, ran>>
    /\ \/ starts' = [starts EXCEPT ![m] = Without(@, k)]
       \/ UNCHANGED starts /\ (m \in Paired => EndOf[m] \notin attached \/ k \notin Started(m))

\* Which operation belongs to which map and key.
Belongs(m, op, k) == op[1] = m /\ (m \in Paired => op = Op(m, k) /\ KeyOK(m, k))

LEMMA OpFacts ==
  /\ \A m \in Paired : \A k : Op(m, k)[1] = m
  /\ \A m \in Paired : \A k, l : KeyOK(m, k) /\ KeyOK(m, l) /\ Op(m, k) = Op(m, l) => k = l
  /\ Paired \subseteq Maps \ {"gpu"}
  <1>1. \A m \in Paired : \A k : Op(m, k)[1] = m
    BY DEF Op
  <1>2. ASSUME NEW m \in Paired, NEW k, NEW l, KeyOK(m, k), KeyOK(m, l), Op(m, k) = Op(m, l) PROVE k = l
    <2>1. CASE m = "hard"
      <3>1. k \in Cpus \X Lines /\ l \in Cpus \X Lines /\ <<m, k[1], k[2]>> = <<m, l[1], l[2]>>
        BY <1>2, <2>1 DEF KeyOK, Op
      <3> QED
        BY <3>1
    <2>2. CASE m # "hard"
      BY <1>2, <2>2 DEF Op
    <2> QED
      BY <2>1, <2>2
  <1> QED
    BY <1>1, <1>2 DEF Paired, Maps

LEMMA OpensTrue ==
  ASSUME StartsTrue, JobsTrue, MapsOK, NEW m \in Maps \ {"gpu"}, NEW op, NEW k, Belongs(m, op, k), Opens(m, op, k)
  PROVE  StartsTrue' /\ JobsTrue'
  <1>1. \A o \in DOMAIN calls : o # op /\ o \in DOMAIN calls' /\ calls'[o] = calls[o]
    BY DEF Opens, Put
  <1>2. DOMAIN calls' = DOMAIN calls \cup {op} /\ calls'[op] = clock
    BY DEF Opens, Put
  <1>3. \A n \in Maps \ {m} : starts'[n] = starts[n]
    BY DEF Opens, MapsOK
  <1>4. \A x \in Started(m)' : (x \in Started(m) /\ starts'[m][x] = starts[m][x]) \/ (x = k /\ starts'[m][x] = clock)
    BY DEF Opens, MapsOK, Started, Put
  <1>5. StartsTrue'
    <2> SUFFICES ASSUME NEW n \in Paired, EndOf[n] \in attached', NEW x \in Started(n)'
                 PROVE  KeyOK(n, x) /\ Op(n, x) \in DOMAIN calls' /\ starts'[n][x] = calls'[Op(n, x)]
      BY DEF StartsTrue
    <2>1. EndOf[n] \in attached /\ n \in Maps
      BY OpFacts DEF Opens
    <2>2. CASE x \in Started(n) /\ starts'[n][x] = starts[n][x]
      BY <1>1, <2>1, <2>2 DEF StartsTrue
    <2>3. CASE ~(x \in Started(n) /\ starts'[n][x] = starts[n][x])
      <3>1. n = m
        BY <1>3, <2>1, <2>3 DEF Started
      <3>2. x = k /\ starts'[n][x] = clock
        BY <1>4, <2>3, <3>1
      <3> QED
        BY <1>2, <3>1, <3>2 DEF Belongs
    <2> QED
      BY <2>2, <2>3
  <1>6. JobsTrue'
    <2>1. \A j : <<"gpu", j>> # op
      BY DEF Belongs
    <2>2. starts'["gpu"] = starts["gpu"] /\ attached' = attached /\ ran' = ran
      BY <1>3 DEF Opens, Maps
    <2> QED
      BY <1>1, <1>2, <2>1, <2>2 DEF JobsTrue, Started
  <1> QED
    BY <1>5, <1>6

LEMMA ClosesTrue ==
  ASSUME StartsTrue, JobsTrue, MapsOK, NEW m \in Maps \ {"gpu"}, NEW op, NEW k, Belongs(m, op, k), Closes(m, op, k)
  PROVE  StartsTrue' /\ JobsTrue'
  <1>1. DOMAIN calls' = DOMAIN calls \ {op} /\ \A o \in DOMAIN calls : o # op => calls'[o] = calls[o]
    BY DEF Closes, Without
  <1>2. \A n \in Maps \ {m} : starts'[n] = starts[n]
    BY DEF Closes, MapsOK
  <1>3. \A x \in Started(m)' : x \in Started(m) /\ starts'[m][x] = starts[m][x]
    BY DEF Closes, MapsOK, Started, Without
  <1>4. StartsTrue'
    <2> SUFFICES ASSUME NEW n \in Paired, EndOf[n] \in attached', NEW x \in Started(n)'
                 PROVE  KeyOK(n, x) /\ Op(n, x) \in DOMAIN calls' /\ starts'[n][x] = calls'[Op(n, x)]
      BY DEF StartsTrue
    <2>1. EndOf[n] \in attached /\ n \in Maps
      BY OpFacts DEF Closes
    <2>2. x \in Started(n) /\ starts'[n][x] = starts[n][x]
      BY <1>2, <1>3, <2>1 DEF Started
    <2>3. KeyOK(n, x) /\ Op(n, x) \in DOMAIN calls /\ starts[n][x] = calls[Op(n, x)]
      BY <2>1, <2>2 DEF StartsTrue
    <2>4. Op(n, x) # op
      <3>1. CASE n # m
        BY <3>1, OpFacts DEF Belongs
      <3>2. CASE n = m
        <4>1. x # k
          BY <2>1, <2>2, <3>2 DEF Closes, MapsOK, Started, Without
        <4> QED
          BY <2>3, <3>2, <4>1, OpFacts DEF Belongs
      <3> QED
        BY <3>1, <3>2
    <2> QED
      BY <1>1, <2>2, <2>3, <2>4
  <1>5. JobsTrue'
    <2>1. \A j : <<"gpu", j>> # op
      BY DEF Belongs
    <2>2. starts'["gpu"] = starts["gpu"] /\ attached' = attached /\ ran' = ran
      BY <1>2 DEF Closes, Maps
    <2> QED
      BY <1>1, <2>1, <2>2 DEF JobsTrue, Started
  <1> QED
    BY <1>4, <1>5

\* An event that is true of its call goes into the buffer.
LEMMA SubmitTrue ==
  ASSUME LatencyTrue, Rings, NEW p \in ProbeNames, NEW e, Submit(p, e), p \in Timed => e.latency = e.real
  PROVE  LatencyTrue'
  <1>1. CASE UNCHANGED ring
    BY <1>1 DEF LatencyTrue
  <1>2. CASE ring' = [ring EXCEPT ![p] = Append(@, e)]
    <2> DEFINE r == Append(ring[p], e)
    <2>1. \A i \in DOMAIN r : r[i] = IF i \in DOMAIN ring[p] THEN ring[p][i] ELSE e
      BY AppendIsSeq DEF Rings
    <2> HIDE DEF r
    <2>2. ring' = [ring EXCEPT ![p] = r]
      BY <1>2 DEF r
    <2> SUFFICES ASSUME NEW q \in Timed, NEW i \in DOMAIN ring'[q] PROVE ring'[q][i].latency = ring'[q][i].real
      BY DEF LatencyTrue, Timed
    <2>3. q \in ProbeNames /\ \A h \in DOMAIN ring[q] : ring[q][h].latency = ring[q][h].real
      BY DEF LatencyTrue, Timed, ProbeNames
    <2>4. CASE q = p
      <3>1. ring'[q] = r
        BY <2>2, <2>3, <2>4 DEF Rings
      <3> QED
        BY <2>1, <2>3, <2>4, <3>1
    <2>5. CASE q # p
      <3>1. ring'[q] = ring[q]
        BY <2>2, <2>3, <2>5 DEF Rings
      <3> QED
        BY <2>3, <3>1
    <2> QED
      BY <2>4, <2>5
  <1> QED
    BY <1>1, <1>2 DEF Submit

LEMMA EventFields ==
  ASSUME NEW op, NEW fields, NEW latency
  PROVE  Event(op, fields, latency).latency = latency /\ Event(op, fields, latency).real = clock - calls[op]
  BY DEF Event, Put

LEMMA EntryTruthful ==
  ASSUME Truthful, MapsOK, NEW m \in Maps \ {"gpu"}, NEW op, NEW k, NEW program, NEW passes,
         Belongs(m, op, k), Entry(program, m, op, k, passes)
  PROVE  Truthful'
  <1>1. Opens(m, op, k) /\ UNCHANGED ring
    BY DEF Entry, Begin, Insert, Opens
  <1> QED
    BY <1>1, OpensTrue DEF Truthful, LatencyTrue

LEMMA ReturnTruthful ==
  ASSUME Truthful, MapsOK, Rings, NEW m \in Maps \ {"gpu"}, NEW op, NEW k, NEW program, NEW p \in ProbeNames,
         NEW fields, Belongs(m, op, k), m \in Paired => program = EndOf[m], p \in Timed => m \in Paired,
         Return(program, p, m, op, k, fields)
  PROVE  Truthful'
  <1>1. Closes(m, op, k)
    BY DEF Return, End, Closes
  <1>2. StartsTrue' /\ JobsTrue'
    BY <1>1, ClosesTrue DEF Truthful
  <1>3. LatencyTrue'
    <2>1. CASE program \in attached /\ k \in Started(m)
      <3> DEFINE e == Event(op, fields, clock - starts[m][k])
      <3>1. Submit(p, e)
        BY <2>1 DEF Return
      <3>2. m \in Paired => starts[m][k] = calls[op]
        BY <2>1 DEF Truthful, StartsTrue, Belongs
      <3>3. p \in Timed => e.latency = e.real
        BY <3>2, EventFields
      <3> HIDE DEF e
      <3> QED
        BY <3>1, <3>3, SubmitTrue DEF Truthful
    <2>2. CASE ~(program \in attached /\ k \in Started(m))
      BY <2>2 DEF Return, Truthful, LatencyTrue
    <2> QED
      BY <2>1, <2>2
  <1> QED
    BY <1>2, <1>3 DEF Truthful
LEMMA BelongsFacts ==
  /\ \A m \in {"wakeup", "futex", "read", "write", "fence", "soft"} : \A k : Belongs(m, <<m, k>>, k)
  /\ \A d, s : Belongs("bio", <<"bio", d, s>>, s)
  /\ \A c \in Cpus, n \in Lines : Belongs("hard", <<"hard", c, n>>, <<c, n>>)
  <1>1. \A m \in {"wakeup", "futex", "read", "write", "fence", "soft"} : \A k : Belongs(m, <<m, k>>, k)
    BY DEF Belongs, Op, KeyOK
  <1>2. \A d, s : Belongs("bio", <<"bio", d, s>>, s)
    BY DEF Belongs, Paired
  <1>3. \A c \in Cpus, n \in Lines : Belongs("hard", <<"hard", c, n>>, <<c, n>>)
    BY DEF Belongs, Op, KeyOK
  <1> QED
    BY <1>1, <1>2, <1>3

\* A program that reports without timing.
LEMMA MomentTruthful ==
  ASSUME Truthful, Rings, Moment, NEW p \in ProbeNames \ Timed, NEW e,
         Submit(p, e) \/ UNCHANGED <<ring, made, lost>>
  PROVE  Truthful'
  <1>1. UNCHANGED <<starts, calls, attached, ran>>
    BY DEF Moment, Happens
  <1>2. StartsTrue' /\ JobsTrue'
    BY <1>1 DEF Truthful, StartsTrue, JobsTrue, Started
  <1>3. LatencyTrue'
    <2>1. CASE UNCHANGED ring
      BY <2>1 DEF Truthful, LatencyTrue
    <2>2. CASE Submit(p, e)
      BY <2>2, SubmitTrue DEF Truthful
    <2> QED
      BY <2>1, <2>2
  <1> QED
    BY <1>2, <1>3 DEF Truthful

\* Wake-ups and switches are of no call: they touch one map, which is in no pair.
LEMMA SchedTruthful ==
  ASSUME Truthful, MapsOK, Rings, NEW t, sched_wakeup(t) \/ sched_switch(t)
  PROVE  Truthful'
  <1>0. "wakeup" \notin Paired \cup {"gpu"} /\ Paired \cup {"gpu"} \subseteq Maps /\ "schedlatency" \in ProbeNames \ Timed
    BY DEF Maps, Paired, ProbeNames, Timed
  <1>1. UNCHANGED <<attached, calls, ran>> /\ \A m \in Paired \cup {"gpu"} : starts'[m] = starts[m]
    BY <1>0 DEF sched_wakeup, sched_switch, Happens, Insert, MapsOK
  <1>2. StartsTrue' /\ JobsTrue'
    BY <1>1 DEF Truthful, StartsTrue, JobsTrue, Started
  <1>3. UNCHANGED ring \/ \E e : Submit("schedlatency", e)
    BY DEF sched_wakeup, sched_switch
  <1>4. LatencyTrue'
    <2>1. CASE UNCHANGED ring
      BY <2>1 DEF Truthful, LatencyTrue
    <2> QED
      BY <1>0, <1>3, <2>1, SubmitTrue DEF Truthful
  <1> QED
    BY <1>2, <1>4 DEF Truthful

LEMMA ThreadTruthful ==
  ASSUME Truthful, MapsOK, Rings, NEW t \in Threads, NEW busy, ThreadCalls(t, busy)
  PROVE  Truthful'
  <1>0. /\ {"wakeup", "futex", "read", "write", "fence"} \subseteq Maps \ {"gpu"}
        /\ {"futex", "read", "write", "fence"} \subseteq Paired
        /\ {"schedlatency", "mem"} \subseteq ProbeNames \ Timed
        /\ {"futex", "vfs", "gpu_fence"} \subseteq ProbeNames
        /\ EndOf["futex"] = "do_futex_return" /\ EndOf["read"] = "vfs_read_return"
        /\ EndOf["write"] = "vfs_write_return" /\ EndOf["fence"] = "dma_fence_default_wait_return"
    BY DEF Maps, Paired, ProbeNames, Timed, EndOf
  <1>b. \A m \in {"wakeup", "futex", "read", "write", "fence"} : Belongs(m, <<m, t>>, t)
    BY BelongsFacts
  <1>1. CASE sched_wakeup(t)
    BY <1>1, SchedTruthful
  <1>2. CASE sched_switch(t)
    BY <1>2, SchedTruthful
  <1>3. CASE \E a, b \in Cpus : sched_migrate_task(t, a, b)
    BY <1>0, <1>3, MomentTruthful DEF sched_migrate_task
  <1>4. CASE do_futex_entry(t)
    BY <1>0, <1>b, <1>4, EntryTruthful DEF do_futex_entry
  <1>5. CASE do_futex_return(t)
    BY <1>0, <1>b, <1>5, ReturnTruthful DEF do_futex_return
  <1>6. CASE vfs_read_entry(t)
    BY <1>0, <1>b, <1>6, EntryTruthful DEF vfs_read_entry
  <1>7. CASE vfs_read_return(t)
    BY <1>0, <1>b, <1>7, ReturnTruthful DEF vfs_read_return
  <1>8. CASE vfs_write_entry(t)
    BY <1>0, <1>b, <1>8, EntryTruthful DEF vfs_write_entry
  <1>9. CASE vfs_write_return(t)
    BY <1>0, <1>b, <1>9, ReturnTruthful DEF vfs_write_return
  <1>10. CASE dma_fence_default_wait_entry(t)
    BY <1>0, <1>b, <1>10, EntryTruthful DEF dma_fence_default_wait_entry
  <1>11. CASE dma_fence_default_wait_return(t)
    BY <1>0, <1>b, <1>11, ReturnTruthful DEF dma_fence_default_wait_return
  <1>12. CASE \E w \in BOOLEAN : page_fault_user(t, w)
    BY <1>0, <1>12, MomentTruthful DEF page_fault_user
  <1> QED
    BY <1>1, <1>2, <1>3, <1>4, <1>5, <1>6, <1>7, <1>8, <1>9, <1>10, <1>11, <1>12 DEF ThreadCalls

\* A job is queued: its entry is new, or it was evicted, or none could be made.
LEMMA QueueTruthful ==
  ASSUME Truthful, MapsOK, NEW j, drm_sched_job_queue(j)
  PROVE  Truthful'
  <1> DEFINE op == <<"gpu", j>>
  <1>0. "gpu" \in Maps /\ "gpu" \notin Paired /\ Paired \subseteq Maps
    BY DEF Maps, Paired
  <1>1. op \notin DOMAIN calls /\ j \notin ran /\ calls' = Put(calls, op, clock) /\ UNCHANGED <<attached, ran, ring>>
    BY DEF drm_sched_job_queue
  <1>2. /\ DOMAIN calls' = DOMAIN calls \cup {op} /\ calls'[op] = clock
        /\ \A o \in DOMAIN calls : o # op /\ calls'[o] = calls[o]
    BY <1>1 DEF Put
  <1>3. /\ \A m \in Maps \ {"gpu"} : starts'[m] = starts[m]
        /\ \A i \in Started("gpu")' : \/ i \in Started("gpu") /\ starts'["gpu"][i] = starts["gpu"][i]
                                      \/ i = j /\ starts'["gpu"][i] = clock
    <2>1. CASE UNCHANGED starts
      BY <2>1 DEF Started
    <2>2. CASE starts' = [starts EXCEPT !["gpu"] = Put(@, j, clock)]
      BY <1>0, <2>2 DEF Started, MapsOK, Put
    <2>3. ASSUME NEW old, starts' = [starts EXCEPT !["gpu"] = Put(Without(@, old), j, clock)]
          PROVE  /\ \A m \in Maps \ {"gpu"} : starts'[m] = starts[m]
                 /\ \A i \in Started("gpu")' : \/ i \in Started("gpu") /\ starts'["gpu"][i] = starts["gpu"][i]
                                               \/ i = j /\ starts'["gpu"][i] = clock
      BY <1>0, <2>3 DEF Started, MapsOK, Put, Without
    <2> QED
      BY <2>1, <2>2, <2>3 DEF drm_sched_job_queue, record_queue, Insert
  <1>4. StartsTrue'
    <2>1. \A m \in Paired : starts'[m] = starts[m]
      BY <1>0, <1>3
    <2> QED
      BY <1>1, <1>2, <2>1 DEF Truthful, StartsTrue, Started
  <1>5. \A i \in ran' : <<"gpu", i>> \notin DOMAIN calls'
    BY <1>1, <1>2 DEF Truthful, JobsTrue
  <1>6. ASSUME "gpu_run" \in attached', NEW i \in Started("gpu")'
        PROVE  i \in ran' \/ (<<"gpu", i>> \in DOMAIN calls' /\ starts'["gpu"][i] = calls'[<<"gpu", i>>])
    <2>1. CASE i \in Started("gpu") /\ starts'["gpu"][i] = starts["gpu"][i]
      BY <1>1, <1>2, <1>6, <2>1 DEF Truthful, JobsTrue
    <2>2. CASE i = j /\ starts'["gpu"][i] = clock
      BY <1>2, <2>2
    <2> QED
      BY <1>3, <2>1, <2>2
  <1>7. LatencyTrue'
    BY <1>1 DEF Truthful, LatencyTrue
  <1> QED
    BY <1>4, <1>5, <1>6, <1>7 DEF Truthful, JobsTrue

LEMMA RunTruthful ==
  ASSUME Truthful, MapsOK, Rings, NEW j, drm_sched_job_run(j)
  PROVE  Truthful'
  <1> DEFINE op == <<"gpu", j>>
  <1>0. "gpu" \in Maps /\ "gpu" \notin Paired /\ Paired \subseteq Maps /\ "gpu_sched" \in ProbeNames
    BY DEF Maps, Paired, ProbeNames
  <1>1. op \in DOMAIN calls /\ calls' = Without(calls, op) /\ UNCHANGED attached
    BY DEF drm_sched_job_run, End
  <1>2. DOMAIN calls' = DOMAIN calls \ {op} /\ \A o \in DOMAIN calls : o # op => calls'[o] = calls[o]
    BY <1>1 DEF Without
  <1>3. /\ \A m \in Maps \ {"gpu"} : starts'[m] = starts[m]
        /\ \A i \in Started("gpu")' : i \in Started("gpu") /\ starts'["gpu"][i] = starts["gpu"][i]
    <2>1. CASE UNCHANGED starts
      BY <2>1 DEF Started
    <2>2. CASE starts' = [starts EXCEPT !["gpu"] = Without(@, j)]
      BY <1>0, <2>2 DEF Started, MapsOK, Without
    <2> QED
      BY <2>1, <2>2 DEF drm_sched_job_run, record_run, Unread
  <1>4. \/ ran' = ran \cup {j}
        \/ ran' = ran /\ "gpu_run" \notin attached
    BY DEF drm_sched_job_run
  <1>5. StartsTrue'
    <2>1. \A m \in Paired : starts'[m] = starts[m]
      BY <1>0, <1>3
    <2>2. \A m \in Paired : \A k : Op(m, k) # op
      BY <1>0, OpFacts
    <2> QED
      BY <1>1, <1>2, <2>1, <2>2 DEF Truthful, StartsTrue, Started
  <1>6. \A i \in ran' : <<"gpu", i>> \notin DOMAIN calls'
    BY <1>2, <1>4 DEF Truthful, JobsTrue
  <1>7. ASSUME "gpu_run" \in attached', NEW i \in Started("gpu")'
        PROVE  i \in ran' \/ (<<"gpu", i>> \in DOMAIN calls' /\ starts'["gpu"][i] = calls'[<<"gpu", i>>])
    <2>1. i \in ran \/ (<<"gpu", i>> \in DOMAIN calls /\ starts["gpu"][i] = calls[<<"gpu", i>>])
      BY <1>1, <1>3, <1>7 DEF Truthful, JobsTrue
    <2>2. ran' = ran \cup {j}
      BY <1>1, <1>4, <1>7
    <2>3. i # j => <<"gpu", i>> # op
      OBVIOUS
    <2> QED
      BY <1>2, <1>3, <2>1, <2>2, <2>3
  <1>8. LatencyTrue'
    <2>1. CASE UNCHANGED ring
      BY <2>1 DEF Truthful, LatencyTrue
    <2>2. CASE "gpu_run" \in attached /\ j \in Started("gpu")
               /\ Submit("gpu_sched", Event(op, [kind |-> "gpu"], clock - starts["gpu"][j]))
      <3> DEFINE e == Event(op, [kind |-> "gpu"], clock - starts["gpu"][j])
      <3>1. starts["gpu"][j] = calls[op]
        BY <1>1, <2>2 DEF Truthful, JobsTrue
      <3>2. e.latency = e.real
        BY <3>1, EventFields
      <3> HIDE DEF e
      <3>3. Submit("gpu_sched", e)
        BY <2>2 DEF e
      <3> QED
        BY <1>0, <3>2, <3>3, SubmitTrue DEF Truthful
    <2> QED
      BY <2>1, <2>2 DEF drm_sched_job_run, record_run, Unread
  <1> QED
    BY <1>5, <1>6, <1>7, <1>8 DEF Truthful, JobsTrue

LEMMA DeviceTruthful ==
  ASSUME Truthful, MapsOK, Rings, NEW busy, DeviceCalls(busy)
  PROVE  Truthful'
  <1>0. /\ {"bio", "soft", "hard"} \subseteq Maps \ {"gpu"}
        /\ {"soft", "hard"} \subseteq Paired /\ "bio" \notin Paired
        /\ {"bio", "mem", "gpu_submit"} \subseteq ProbeNames \ Timed /\ "irq" \in ProbeNames
        /\ EndOf["soft"] = "softirq_exit" /\ EndOf["hard"] = "irq_handler_exit"
    BY DEF Maps, Paired, ProbeNames, Timed, EndOf
  <1>1. CASE \E d \in Devices, s \in Sectors : block_rq_issue(d, s)
    <2>1. PICK d \in Devices, s \in Sectors : block_rq_issue(d, s)
      BY <1>1
    <2>2. Belongs("bio", <<"bio", d, s>>, s)
      BY BelongsFacts
    <2> QED
      BY <1>0, <2>1, <2>2, EntryTruthful DEF block_rq_issue
  <1>2. CASE \E d \in Devices, s \in Sectors : block_rq_complete(d, s)
    BY <1>0, <1>2, BelongsFacts, ReturnTruthful DEF block_rq_complete
  <1>3. CASE \E c \in Cpus : softirq_entry(c)
    BY <1>0, <1>3, BelongsFacts, EntryTruthful DEF softirq_entry
  <1>4. CASE \E c \in Cpus : softirq_exit(c)
    BY <1>0, <1>4, BelongsFacts, ReturnTruthful DEF softirq_exit
  <1>5. CASE \E c \in Cpus : \E n \in Lines : irq_handler_entry(c, n)
    BY <1>0, <1>5, BelongsFacts, EntryTruthful DEF irq_handler_entry
  <1>6. CASE \E c \in Cpus : \E n \in Lines : irq_handler_exit(c, n)
    BY <1>0, <1>6, BelongsFacts, ReturnTruthful DEF irq_handler_exit
  <1>7. CASE \E j \in Jobs : drm_sched_job_queue(j)
    BY <1>7, QueueTruthful
  <1>8. CASE \E j \in Jobs : drm_sched_job_run(j)
    BY <1>8, RunTruthful
  <1>9. CASE amdgpu_cs_ioctl_entry
    BY <1>0, <1>9, MomentTruthful DEF amdgpu_cs_ioctl_entry
  <1>10. CASE mm_vmscan_direct_reclaim_begin
    BY <1>0, <1>10, MomentTruthful DEF mm_vmscan_direct_reclaim_begin
  <1> QED
    BY <1>1, <1>2, <1>3, <1>4, <1>5, <1>6, <1>7, <1>8, <1>9, <1>10 DEF DeviceCalls

LEMMA TruthfulNext == Truthful /\ Unused /\ MapsOK /\ Rings /\ [Next]_vars => Truthful' /\ Unused'
  <1> SUFFICES ASSUME Truthful, Unused, MapsOK, Rings, [Next]_vars PROVE Truthful' /\ Unused'
    OBVIOUS
  <1>1. CASE Kernel
    <2>1. Unused'
      BY <1>1, KernelShape DEF Unused
    <2>2. CASE Elapse
      BY <2>1, <2>2 DEF Elapse, Truthful, StartsTrue, JobsTrue, LatencyTrue, Started
    <2> QED
      BY <1>1, <2>1, <2>2, ThreadTruthful, DeviceTruthful DEF Kernel, KernelNext
  <1>2. CASE Load
    <2>1. \A m \in Maps : Started(m) = {}
      BY <1>2 DEF Load, Unused
    <2>2. UNCHANGED <<starts, calls, ran, ring>> /\ pc' # "start"
      BY <1>2 DEF Load
    <2>3. "gpu" \in Maps /\ Paired \subseteq Maps
      BY DEF Maps, Paired
    <2>4. StartsTrue' /\ JobsTrue'
      BY <2>1, <2>2, <2>3 DEF Truthful, StartsTrue, JobsTrue, Started
    <2> QED
      BY <2>2, <2>4 DEF Truthful, LatencyTrue, Unused
  <1>3. CASE Connect \/ Detach
    <2>1. UNCHANGED <<starts, calls, ran, ring>> /\ pc' # "start" /\ (UNCHANGED attached \/ attached' = {})
      BY <1>3 DEF Connect, Detach
    <2> QED
      BY <2>1 DEF Truthful, StartsTrue, JobsTrue, LatencyTrue, Started, Unused
  <1>4. CASE Collect
    <2>1. UNCHANGED <<starts, calls, ran, attached>> /\ pc' # "start"
      BY <1>4 DEF Collect
    <2>2. PICK p : ring' = [ring EXCEPT ![p] = <<>>]
      BY <1>4 DEF Collect, Drain
    <2>3. LatencyTrue'
      <3> SUFFICES ASSUME NEW q \in Timed, NEW i \in DOMAIN ring'[q] PROVE ring'[q][i].latency = ring'[q][i].real
        BY DEF LatencyTrue, Timed
      <3>1. q \in ProbeNames
        BY DEF Timed, ProbeNames
      <3>2. ring'[q] # <<>>
        BY EmptyIsSeq, IsSeqFacts
      <3>3. ring'[q] = ring[q]
        BY <2>2, <3>1, <3>2 DEF Rings
      <3> QED
        BY <3>3 DEF Truthful, LatencyTrue, Timed
    <2> QED
      BY <2>1, <2>3 DEF Truthful, StartsTrue, JobsTrue, Started, Unused
  <1>5. CASE ~Kernel /\ ~Load /\ ~Connect /\ ~Detach /\ ~Collect
    <2>1. UNCHANGED <<starts, calls, ran, attached, ring>> /\ (pc' = "start" => pc = "start")
      BY <1>5 DEF Next, Daemon, Loop, vars, Seed, UpdateStep, Queue, Flush, Tick, SessionChange, Shutdown,
         Signal, WatcherPublishes, kernel
    <2> QED
      BY <2>1 DEF Truthful, StartsTrue, JobsTrue, LatencyTrue, Started, Unused
  <1> QED
    BY <1>1, <1>2, <1>3, <1>4, <1>5

\* Return, record_run and record_queue, for any interleaving of calls, changes of the
\* filter, full maps, evictions, keys that cannot be read and full ring buffers: an event
\* of a futex, file, fence, interrupt or gpu job has the latency of the call that ended.
THEOREM LatenciesTrue == Spec => []LatencyTrue
  <1> DEFINE Inv == Daemonic /\ Truthful /\ Unused
  <1>1. Init => Inv
    <2> SUFFICES ASSUME Init PROVE Inv
      OBVIOUS
    <2>1. Daemonic
      BY RingsInit, MapsInit, LossesInit, FilterInit DEF Daemonic
    <2>2. /\ starts = [m \in Maps |-> NoKey] /\ ran = {} /\ attached = {}
          /\ ring = [p \in ProbeNames |-> <<>>] /\ DOMAIN NoKey = {}
      BY DEF Init, KernelInit, NoKey
    <2>3. LatencyTrue
      BY <2>2, EmptyIsSeq, IsSeqFacts DEF LatencyTrue, ProbeNames
    <2>4. StartsTrue /\ JobsTrue /\ Unused
      BY <2>2 DEF StartsTrue, JobsTrue, Unused, Started
    <2> QED
      BY <2>1, <2>3, <2>4 DEF Truthful
  <1>2. Inv /\ [Next]_vars => Inv'
    BY DaemonicNext, TruthfulNext DEF Daemonic
  <1>3. Inv => LatencyTrue
    BY DEF Truthful
  <1> HIDE DEF Inv
  <1> QED
    BY <1>1, <1>2, <1>3, PTL DEF Spec
-----------------------------------------------------------------------------
(* The filter *)

\* Every published state finds room in the channel.
Room == Len(channel) < ChannelSize \/ state' = state

\* The filter map has room for the threads of any session.
FitsMap == \A s \in States : Cardinality(s.tids) <= MapSize

\* The newest state is the last one under way, or the one the main loop took; and the
\* threads that an update leaves in the map and those it will insert are, each once,
\* the threads of the state that was taken.
Follow ==
    /\ filter \in States
    /\ IF channel = <<>> THEN filter = state ELSE channel[Len(channel)] = state
    /\ pc \in {"start", "seed"} => pids = {} /\ filter = NoSession
    /\ update.remove \subseteq pids
    /\ IsInjective(update.insert)
    /\ (pids \ update.remove) \cap Range(update.insert) = {}
    /\ (pids \ update.remove) \cup Range(update.insert) = filter.tids

LEMMA FollowInit == Init => Follow
  <1> SUFFICES ASSUME Init PROVE Follow
    OBVIOUS
  <1>1. /\ pc = "start" /\ pids = {} /\ update = NoUpdate /\ state = NoSession /\ channel = <<>>
        /\ filter = NoSession
    BY DEF Init, KernelInit, FeedInit
  <1>2. update.remove = {} /\ update.insert = <<>>
    BY <1>1 DEF NoUpdate
  <1>3. Range(update.insert) = {} /\ IsInjective(update.insert)
    BY <1>2 DEF Range, IsInjective
  <1> QED
    BY <1>1, <1>2, <1>3, FeedAssumptions, SessionAssumptions DEF Follow

\* A new update will bring the map to the threads of the state it is for.
LEMMA FollowStart ==
  ASSUME FilterOK, NEW s \in States, StartUpdate(s)
  PROVE  /\ update'.remove = pids
         /\ IsInjective(update'.insert) /\ Range(update'.insert) = s.tids
  <1>1. update'.remove = pids /\ update'.insert = SetToSeq(s.tids)
    BY DEF StartUpdate
  <1>2. IsFiniteSet(s.tids)
    BY SessionAssumptions
  <1>3. Range(SetToSeq(s.tids)) = s.tids /\ IsInjective(SetToSeq(s.tids))
    BY <1>2, SetToSeqLists
  <1> QED
    BY <1>1, <1>3

\* What is left of a list without repetitions when its head is taken.
LEMMA InjectiveTail ==
  ASSUME NEW S, NEW q \in Seq(S), q # <<>>, IsInjective(q)
  PROVE  /\ IsInjective(Tail(q))
         /\ Head(q) \in Range(q)
         /\ Range(Tail(q)) = Range(q) \ {Head(q)}
  <1>1. /\ Len(q) \in Nat /\ Len(q) > 0 /\ DOMAIN q = 1..Len(q) /\ Head(q) = q[1]
        /\ DOMAIN Tail(q) = 1..(Len(q) - 1)
    OBVIOUS
  <1>2. \A i \in 1..(Len(q) - 1) : Tail(q)[i] = q[i + 1]
    OBVIOUS
  <1>3. \A i, j \in 1..Len(q) : q[i] = q[j] => i = j
    BY <1>1 DEF IsInjective
  <1>4. \A i, j \in 1..(Len(q) - 1) : Tail(q)[i] = Tail(q)[j] => i = j
    <2> SUFFICES ASSUME NEW i \in 1..(Len(q) - 1), NEW j \in 1..(Len(q) - 1), Tail(q)[i] = Tail(q)[j]
                 PROVE  i = j
      OBVIOUS
    <2>1. q[i + 1] = q[j + 1] /\ i + 1 \in 1..Len(q) /\ j + 1 \in 1..Len(q)
      BY <1>1, <1>2
    <2>2. i + 1 = j + 1
      BY <1>3, <2>1
    <2> QED
      BY <2>2
  <1>5. ASSUME NEW x PROVE x \in Range(Tail(q)) <=> x \in Range(q) /\ x # Head(q)
    <2>1. ASSUME x \in Range(Tail(q)) PROVE x \in Range(q) /\ x # Head(q)
      <3>1. PICK i \in 1..(Len(q) - 1) : x = Tail(q)[i]
        BY <1>1, <2>1 DEF Range
      <3>2. x = q[i + 1] /\ i + 1 \in 1..Len(q) /\ i + 1 # 1 /\ 1 \in 1..Len(q)
        BY <1>1, <1>2, <3>1
      <3> QED
        BY <1>1, <1>3, <3>2 DEF Range
    <2>2. ASSUME x \in Range(q), x # Head(q) PROVE x \in Range(Tail(q))
      <3>1. PICK i \in 1..Len(q) : x = q[i]
        BY <1>1, <2>2 DEF Range
      <3>2. i # 1 /\ i - 1 \in 1..(Len(q) - 1) /\ (i - 1) + 1 = i
        BY <1>1, <2>2, <3>1
      <3>3. x = Tail(q)[i - 1]
        BY <1>2, <3>1, <3>2
      <3> QED
        BY <1>1, <3>2, <3>3 DEF Range
    <2> QED
      BY <2>1, <2>2
  <1>6. Head(q) \in Range(q)
    <2>1. 1 \in DOMAIN q
      BY <1>1
    <2> QED
      BY <1>1, <2>1 DEF Range
  <1>7. IsInjective(Tail(q))
    BY <1>1, <1>4 DEF IsInjective
  <1> QED
    BY <1>5, <1>6, <1>7
\* update_pids, one map operation: it never meets a full map when every session fits.
LEMMA FollowUpdate ==
  ASSUME FitsMap, FilterOK, Follow, UpdateStep
  PROVE  Follow'
  <1>0. UNCHANGED <<state, channel, filter>> /\ pc' \notin {"start", "seed"}
    BY DEF UpdateStep, feed, FilterOK
  <1>1. CASE \E t \in update.remove : pids' = pids \ {t} /\ update' = [update EXCEPT !.remove = @ \ {t}]
    <2>1. PICK t \in update.remove : pids' = pids \ {t} /\ update' = [update EXCEPT !.remove = @ \ {t}]
      BY <1>1
    <2>2. update'.remove = update.remove \ {t} /\ update'.insert = update.insert
      BY <2>1 DEF FilterOK
    <2>3. pids' \ update'.remove = pids \ update.remove /\ update'.remove \subseteq pids'
      BY <2>1, <2>2 DEF Follow
    <2> QED
      BY <1>0, <2>2, <2>3 DEF Follow
  <1>2. CASE /\ update.remove = {}
             /\ pids' = IF Cardinality(pids) < MapSize THEN pids \cup {Head(update.insert)} ELSE pids
             /\ update' = [update EXCEPT !.insert = Tail(@)]
    <2> DEFINE q == update.insert
               t == Head(q)
    <2>1. q # <<>> /\ q \in Seq(Threads) /\ IsInjective(q)
      BY <1>2 DEF FilterOK, UpdateStep, NoUpdate, Follow
    <2>2. update'.remove = {} /\ update'.insert = Tail(q)
      BY <1>2 DEF FilterOK
    <2>3. pids' = IF Cardinality(pids) < MapSize THEN pids \cup {t} ELSE pids
      BY <1>2
    <2>4. pids \cap Range(q) = {} /\ pids \cup Range(q) = filter.tids /\ filter \in States
      BY <1>2 DEF Follow
    <2> HIDE DEF q
    <2>5. IsInjective(Tail(q)) /\ t \in Range(q) /\ Range(Tail(q)) = Range(q) \ {t}
      BY <2>1, InjectiveTail
    <2> HIDE DEF t
    <2>6. Cardinality(pids) < MapSize
      <3> DEFINE T == filter.tids
                 n == Cardinality(pids)
                 m == Cardinality(T)
      <3>1. IsFiniteSet(T) /\ pids \subseteq T /\ pids # T
        BY <2>4, <2>5, SessionAssumptions
      <3>2. m <= MapSize
        BY <2>4 DEF FitsMap
      <3> HIDE DEF T
      <3>3. n \in Nat /\ m \in Nat /\ n < m
        BY <3>1, FS_Subset, FS_CardinalityType
      <3> HIDE DEF n, m
      <3>4. n < MapSize
        BY <3>2, <3>3, SizeAssumptions
      <3> QED
        BY <3>4 DEF n
    <2>7. pids' = pids \cup {t}
      BY <2>3, <2>6
    <2>8. /\ (pids' \ update'.remove) \cap Range(update'.insert) = {}
          /\ (pids' \ update'.remove) \cup Range(update'.insert) = filter.tids
      BY <2>2, <2>4, <2>5, <2>7
    <2> QED
      BY <1>0, <2>2, <2>5, <2>8 DEF Follow
  <1> QED
    BY <1>1, <1>2 DEF UpdateStep

\* The last state of a channel that loses its head.
LEMMA ChannelTail ==
  ASSUME NEW S, NEW q \in Seq(S), q # <<>>
  PROVE  /\ Head(q) \in S
         /\ Tail(q) = <<>> => q[Len(q)] = Head(q)
         /\ Tail(q) # <<>> => Tail(q)[Len(Tail(q))] = q[Len(q)]
  <1>1. /\ Len(q) \in Nat /\ Len(q) > 0 /\ Head(q) = q[1] /\ Head(q) \in S
        /\ Tail(q) \in Seq(S) /\ Len(Tail(q)) = Len(q) - 1
    OBVIOUS
  <1>2. \A i \in 1..(Len(q) - 1) : Tail(q)[i] = q[i + 1]
    OBVIOUS
  <1>3. Tail(q) = <<>> => Len(q) = 1
    <2> DEFINE t == Tail(q)
               n == Len(q)
    <2>1. Len(t) = n - 1 /\ n \in Nat
      BY <1>1
    <2> HIDE DEF t, n
    <2>2. t = <<>> => Len(t) = 0
      BY EmptySeq
    <2>3. t = <<>> => n = 1
      BY <2>1, <2>2
    <2> QED
      BY <2>3 DEF t, n
  <1>4. Tail(q) # <<>> => Len(q) - 1 \in 1..(Len(q) - 1)
    BY <1>1
  <1> QED
    BY <1>1, <1>2, <1>3, <1>4

LEMMA FollowNext ==
  ASSUME FitsMap, FilterOK, Follow, [Next]_vars, [Room]_vars
  PROVE  Follow'
  <1>1. CASE Kernel
    BY <1>1, KernelShape DEF Follow, feed
  <1>2. CASE Load \/ Connect \/ Shutdown \/ Detach \/ Collect \/ Queue \/ Flush \/ Tick \/ Signal \/ UNCHANGED vars
    <2>1. UNCHANGED <<pids, state, channel, update, filter>>
      BY <1>2 DEF Load, Connect, Shutdown, Detach, Collect, Queue, Flush, Tick, Signal, vars, feed, kernel
    <2>2. pc' \in {"start", "seed"} => pc \in {"start", "seed"}
      BY <1>2 DEF Load, Connect, Shutdown, Detach, Collect, Queue, Flush, Tick, Signal, vars, Selecting
    <2> QED
      BY <2>1, <2>2 DEF Follow
  <1>3. CASE Seed
    <2>1. /\ pc = "seed" /\ pc' = "connect" /\ UNCHANGED <<pids, state, channel>>
          /\ filter' = IF state # NoSession THEN state ELSE filter
      BY <1>3 DEF Seed, Take, kernel
    <2>2. pids = {} /\ filter = NoSession
      BY <2>1 DEF Follow
    <2>3. filter' = state /\ state \in States
      BY <2>1, <2>2 DEF FilterOK
    <2>4. CASE StartUpdate(state)
      BY <2>1, <2>2, <2>3, <2>4, FollowStart DEF Follow
    <2>5. CASE state = NoSession /\ UNCHANGED update
      BY <2>1, <2>2, <2>3, <2>5 DEF Follow
    <2> QED
      BY <1>3, <2>4, <2>5 DEF Seed
  <1>4. CASE SessionChange
    <2>1. /\ pc = "select" /\ UNCHANGED <<pids, state, pc>> /\ StartUpdate(Head(channel))
          /\ channel # <<>> /\ channel' = Tail(channel) /\ filter' = Head(channel)
      BY <1>4 DEF SessionChange, Selecting, Recv, kernel
    <2>2. channel \in Seq(States) /\ channel[Len(channel)] = state
      BY <2>1 DEF FilterOK, Follow
    <2>3. /\ Head(channel) \in States
          /\ IF channel' = <<>> THEN filter' = state' ELSE channel'[Len(channel')] = state'
      BY <2>1, <2>2, ChannelTail
    <2>4. /\ update'.remove = pids
          /\ IsInjective(update'.insert) /\ Range(update'.insert) = Head(channel).tids
      BY <2>1, <2>3, FollowStart
    <2> QED
      BY <2>1, <2>3, <2>4 DEF Follow
  <1>5. CASE WatcherPublishes
    <2>1. UNCHANGED <<pids, update, pc, filter>> /\ \E s \in States : s # state /\ Publish(s)
      BY <1>5 DEF WatcherPublishes, kernel, Publish
    <2>2. PICK s \in States : s # state /\ Publish(s)
      BY <2>1
    <2>3. Len(channel) < ChannelSize
      BY <2>2 DEF Publish, Room, vars, feed
    <2>4. channel' = Append(channel, s) /\ state' = s /\ channel \in Seq(States)
      BY <2>2, <2>3 DEF Publish, FilterOK
    <2>5. channel' # <<>> /\ channel'[Len(channel')] = state'
      BY <2>4
    <2> QED
      BY <2>1, <2>5 DEF Follow
  <1> QED
    BY <1>1, <1>2, <1>3, <1>4, <1>5, FollowUpdate DEF Next, Daemon, Loop

\* update_pids, the seeding and the receiving loop, with sessions that fit the filter
\* map and a channel that is never full when the watcher sends: whatever is published
\* while the filter is seeded, changed or waiting, and wherever the daemon is, a main
\* loop with nothing left to receive has the kernel filter on the shared state's
\* threads.  A channel that is full makes try_send leave the newest state out, and a map
\* that is full refuses a thread: either breaks it.
THEOREM FilterFollows ==
  ASSUME FitsMap
  PROVE  Spec /\ [][Room]_vars => []FilterFollowsState
  <1>1. Init => FilterOK /\ Follow
    BY FilterInit, FollowInit
  <1>2. FilterOK /\ Follow /\ [Next]_vars /\ [Room]_vars => FilterOK' /\ Follow'
    BY FilterNext, FollowNext
  <1>3. Follow => FilterFollowsState
    <2> SUFFICES ASSUME Follow, Selecting, channel = <<>> PROVE pids = state.tids
      BY DEF FilterFollowsState
    <2>1. update.remove = {} /\ update.insert = <<>>
      BY DEF Selecting, NoUpdate
    <2>2. Range(update.insert) = {}
      BY <2>1 DEF Range
    <2> QED
      BY <2>1, <2>2 DEF Follow
  <1> QED
    BY <1>1, <1>2, <1>3, PTL DEF Spec

-----------------------------------------------------------------------------
(* What a document says is true of its events *)

\* A set of numbers that is not empty has a least element.
LEMMA Least ==
  ASSUME NEW T, T \subseteq Nat, T # {}
  PROVE  \E m \in T : \A k \in T : m <= k
  <1>1. \E x \in T : \A y \in T : ~(<<y, x>> \in OpToRel(<, Nat))
    BY NatLessThanWellFounded, WFMin
  <1>2. PICK x \in T : \A y \in T : ~(<<y, x>> \in OpToRel(<, Nat))
    BY <1>1
  <1>3. ASSUME NEW y \in T PROVE x <= y
    <2>1. SUFFICES ASSUME y < x PROVE FALSE
      OBVIOUS
    <2>2. <<y, x>> \in Nat \X Nat /\ <<y, x>>[1] = y /\ <<y, x>>[2] = x
      OBVIOUS
    <2>3. <<y, x>> \in OpToRel(<, Nat)
      BY <2>1, <2>2 DEF OpToRel
    <2> QED
      BY <1>2, <2>3
  <1> QED
    BY <1>3

\* Induction up to a bound, for a set.
LEMMA UpTo ==
  ASSUME NEW N \in Nat, NEW S, 0 \in S, \A k \in 0..(N - 1) : k \in S => k + 1 \in S
  PROVE  0..N \subseteq S
  <1> DEFINE T == {k \in 0..N : k \notin S}
  <1> SUFFICES ASSUME T # {} PROVE FALSE
      OBVIOUS
  <1>1. T \subseteq Nat
    OBVIOUS
  <1>2. PICK m \in T : \A k \in T : m <= k
    BY <1>1, Least
  <1>3. m \in 0..N /\ m \notin S /\ m # 0
    BY <1>2
  <1>4. m - 1 \in 0..(N - 1) /\ m - 1 \in S
    BY <1>2, <1>3
  <1> QED
    BY <1>3, <1>4

\* What upto[n] of Kept is, as equations.
LEMMA KeptUnfolds ==
  ASSUME NEW es, Len(es) \in Nat, NEW keep
  PROVE  \E L : /\ Kept(es, keep) = L[Len(es)] /\ L[0] = <<>>
                /\ \A n \in 1..Len(es) :
                      L[n] = IF n \in keep THEN Append(L[n - 1], es[n]) ELSE L[n - 1]
  <1> DEFINE N == Len(es)
             Step(n, v) == IF n \in keep THEN Append(v, es[n]) ELSE v
             Is(f, k) == f = [n \in 0..k |-> IF n = 0 THEN <<>> ELSE Step(n, f[n - 1])]
             L == CHOOSE f : Is(f, N)
             T == {k \in 0..N : \E f : Is(f, k)}
  <1>1. Kept(es, keep) = L[N]
    BY DEF Kept
  <1> HIDE DEF N, Step
  <1>0. N \in Nat
    BY DEF N
  <1>2. 0 \in T
    <2>1. Is([n \in 0..0 |-> <<>>], 0)
      OBVIOUS
    <2> HIDE DEF Is
    <2>2. \E f : Is(f, 0)
      BY <2>1
    <2> QED
      BY <1>0, <2>2
  <1>3. ASSUME NEW k \in 0..(N - 1), k \in T PROVE k + 1 \in T
    <2>1. PICK f : Is(f, k)
      BY <1>3
    <2> DEFINE h == [n \in 0..(k + 1) |-> IF n = k + 1 THEN Step(k + 1, f[k]) ELSE f[n]]
    <2>2. \A n \in 0..(k + 1) : h[n] = IF n = 0 THEN <<>> ELSE Step(n, h[n - 1])
      BY <1>0, <2>1
    <2>3. Is(h, k + 1)
      BY <1>0, <2>2
    <2> HIDE DEF Is, h
    <2>4. \E e : Is(e, k + 1)
      BY <2>3
    <2> QED
      BY <1>0, <2>4
  <1> HIDE DEF T
  <1>4. 0..N \subseteq T
    BY <1>0, <1>2, <1>3, UpTo
  <1>5. Is(L, N)
    <2> HIDE DEF Is
    <2>1. \E f : Is(f, N)
      BY <1>0, <1>4 DEF T
    <2> QED
      BY <2>1
  <1> HIDE DEF L
  <1>6. L[0] = <<>> /\ \A n \in 1..N : L[n] = Step(n, L[n - 1])
    BY <1>0, <1>5
  <1> QED
    BY <1>1, <1>6 DEF N, Step

\* Kept takes these elements and no others.
LEMMA KeptElements ==
  ASSUME NEW R, NEW es \in Seq(R), NEW keep
  PROVE  /\ Kept(es, keep) \in Seq(R)
         /\ \A x : x \in Range(Kept(es, keep)) <=> \E i \in DOMAIN es : i \in keep /\ es[i] = x
  <1> DEFINE N == Len(es)
             Holds(s, k) == /\ s \in Seq(R)
                            /\ \A x : (\E j \in 1..Len(s) : s[j] = x)
                                        <=> \E i \in 1..k : i \in keep /\ es[i] = x
  <1>0. N \in Nat /\ DOMAIN es = 1..N
    OBVIOUS
  <1>1. PICK L : /\ Kept(es, keep) = L[N] /\ L[0] = <<>>
                 /\ \A n \in 1..N : L[n] = IF n \in keep THEN Append(L[n - 1], es[n]) ELSE L[n - 1]
    BY <1>0, KeptUnfolds
  <1> DEFINE T == {k \in 0..N : Holds(L[k], k)}
  <1>2. 0 \in T
    <2>1. <<>> \in Seq(R) /\ Len(<<>>) = 0 /\ \A i : i \notin 1..0
      OBVIOUS
    <2>2. Holds(<<>>, 0)
      BY <2>1
    <2> HIDE DEF Holds
    <2> QED
      BY <1>0, <1>1, <2>2
  <1>3. ASSUME NEW k \in 0..(N - 1), k \in T PROVE k + 1 \in T
    <2> DEFINE s == L[k]
    <2>1. Holds(s, k) /\ k + 1 \in 1..N /\ es[k + 1] \in R
      BY <1>0, <1>3
    <2>2. L[k + 1] = IF k + 1 \in keep THEN Append(s, es[k + 1]) ELSE s
      BY <1>0, <1>1
    <2> HIDE DEF s
    <2>3. CASE k + 1 \in keep
      <3> DEFINE u == Append(s, es[k + 1])
      <3>1. /\ u \in Seq(R) /\ Len(u) = Len(s) + 1 /\ u[Len(s) + 1] = es[k + 1]
            /\ \A j \in 1..Len(s) : u[j] = s[j]
        BY <2>1
      <3> HIDE DEF u
      <3>2. Len(s) \in Nat
        BY <2>1
      <3>3. ASSUME NEW x PROVE (\E j \in 1..Len(u) : u[j] = x) <=> \E i \in 1..(k + 1) : i \in keep /\ es[i] = x
        <4>1. (\E j \in 1..Len(u) : u[j] = x) <=> (\E j \in 1..Len(s) : s[j] = x) \/ es[k + 1] = x
          BY <3>1, <3>2
        <4>2. (\E i \in 1..(k + 1) : i \in keep /\ es[i] = x) <=> (\E i \in 1..k : i \in keep /\ es[i] = x) \/ es[k + 1] = x
          BY <2>3
        <4>3. (\E j \in 1..Len(s) : s[j] = x) <=> (\E i \in 1..k : i \in keep /\ es[i] = x)
          BY <2>1
        <4> QED
          BY <4>1, <4>2, <4>3
      <3>4. L[k + 1] = u
        BY <2>2, <2>3 DEF u
      <3>5. Holds(L[k + 1], k + 1)
        BY <3>1, <3>3, <3>4
      <3> QED
        BY <3>5, <2>1, <1>0
    <2>4. CASE k + 1 \notin keep
      <3>1. \A i \in 1..(k + 1) : i \in keep => i \in 1..k
        BY <2>4
      <3>2. \A i \in 1..k : i \in 1..(k + 1)
        OBVIOUS
      <3>3. Holds(L[k + 1], k + 1)
        BY <2>1, <2>2, <2>4, <3>1, <3>2
      <3> QED
        BY <3>3, <2>1, <1>0
    <2> QED
      BY <2>3, <2>4
  <1>4. N \in T
    <2> HIDE DEF T, N
    <2>1. N \in Nat
      BY <1>0
    <2>2. 0..N \subseteq T
      BY <1>2, <1>3, <2>1, UpTo
    <2> QED
      BY <2>1, <2>2
  <1> DEFINE r == Kept(es, keep)
  <1>5. Holds(r, N)
    BY <1>1, <1>4
  <1> HIDE DEF r
  <1>6. r \in Seq(R) /\ DOMAIN r = 1..Len(r)
    BY <1>5
  <1>7. ASSUME NEW x PROVE x \in Range(r) <=> \E i \in DOMAIN es : i \in keep /\ es[i] = x
    BY <1>0, <1>5, <1>6 DEF Range
  <1> QED
    BY <1>6, <1>7 DEF r
-----------------------------------------------------------------------------
(* Events recorded one by one *)

\* A sequence of events that all carry a latency of the clock's.
TimedSeq(es) == IsSeq(es) /\ \A i \in DOMAIN es : es[i].latency \in 0..MaxClock

LEMMA OfKindElements ==
  ASSUME NEW es, IsSeq(es), NEW kind
  PROVE  /\ IsSeq(OfKind(es, kind))
         /\ \A x : x \in Range(OfKind(es, kind)) <=> \E i \in DOMAIN es : es[i].kind = kind /\ es[i] = x
  <1> DEFINE keep == {i \in DOMAIN es : es[i].kind = kind}
             s == Kept(es, keep)
  <1>1. /\ s \in Seq(Range(es))
        /\ \A x : x \in Range(s) <=> \E i \in DOMAIN es : i \in keep /\ es[i] = x
    BY KeptElements DEF IsSeq
  <1>2. OfKind(es, kind) = s
    BY DEF OfKind
  <1> HIDE DEF s
  <1>3. IsSeq(s)
    BY <1>1, IsSeqIntro
  <1> QED
    BY <1>1, <1>2, <1>3

LEMMA OfThreadElements ==
  ASSUME NEW es, IsSeq(es), NEW t
  PROVE  /\ IsSeq(OfThread(es, t))
         /\ \A x : x \in Range(OfThread(es, t)) <=> \E i \in DOMAIN es : es[i].tid = t /\ es[i] = x
  <1> DEFINE keep == {i \in DOMAIN es : es[i].tid = t}
             s == Kept(es, keep)
  <1>1. /\ s \in Seq(Range(es))
        /\ \A x : x \in Range(s) <=> \E i \in DOMAIN es : i \in keep /\ es[i] = x
    BY KeptElements DEF IsSeq
  <1>2. OfThread(es, t) = s
    BY DEF OfThread
  <1> HIDE DEF s
  <1>3. IsSeq(s)
    BY <1>1, IsSeqIntro
  <1> QED
    BY <1>1, <1>2, <1>3

\* What after[n] of Recorded is, as equations.
LEMMA RecordedUnfolds ==
  ASSUME NEW es, Len(es) \in Nat
  PROVE  \E L : /\ Recorded(es) = L[Len(es)] /\ L[0] = EmptyStats
                /\ \A n \in 1..Len(es) : L[n] = Record(L[n - 1], es[n].latency)
  <1> DEFINE N == Len(es)
             Step(n, v) == Record(v, es[n].latency)
             Is(f, k) == f = [n \in 0..k |-> IF n = 0 THEN EmptyStats ELSE Step(n, f[n - 1])]
             L == CHOOSE f : Is(f, N)
             T == {k \in 0..N : \E f : Is(f, k)}
  <1>1. Recorded(es) = L[N]
    BY DEF Recorded
  <1> HIDE DEF N, Step
  <1>0. N \in Nat
    BY DEF N
  <1>2. 0 \in T
    <2>1. Is([n \in 0..0 |-> EmptyStats], 0)
      OBVIOUS
    <2> HIDE DEF Is
    <2>2. \E f : Is(f, 0)
      BY <2>1
    <2> QED
      BY <1>0, <2>2
  <1>3. ASSUME NEW k \in 0..(N - 1), k \in T PROVE k + 1 \in T
    <2>1. PICK f : Is(f, k)
      BY <1>3
    <2> DEFINE h == [n \in 0..(k + 1) |-> IF n = k + 1 THEN Step(k + 1, f[k]) ELSE f[n]]
    <2>2. \A n \in 0..(k + 1) : h[n] = IF n = 0 THEN EmptyStats ELSE Step(n, h[n - 1])
      BY <1>0, <2>1
    <2>3. Is(h, k + 1)
      BY <1>0, <2>2
    <2> HIDE DEF Is, h
    <2>4. \E e : Is(e, k + 1)
      BY <2>3
    <2> QED
      BY <1>0, <2>4
  <1> HIDE DEF T
  <1>4. 0..N \subseteq T
    BY <1>0, <1>2, <1>3, UpTo
  <1>5. Is(L, N)
    <2> HIDE DEF Is
    <2>1. \E f : Is(f, N)
      BY <1>0, <1>4 DEF T
    <2> QED
      BY <2>1
  <1> HIDE DEF L
  <1>6. L[0] = EmptyStats /\ \A n \in 1..N : L[n] = Step(n, L[n - 1])
    BY <1>0, <1>5
  <1> QED
    BY <1>1, <1>6 DEF N, Step

\* One more position counts once if it is in the set.
LEMMA CountNext ==
  ASSUME NEW S, NEW k \in Nat
  PROVE  /\ Cardinality(S \cap (1..k)) \in Nat
         /\ Cardinality(S \cap (1..(k + 1)))
              = IF k + 1 \in S THEN Cardinality(S \cap (1..k)) + 1 ELSE Cardinality(S \cap (1..k))
  <1> DEFINE U == S \cap (1..k)
  <1>1. IsFiniteSet(1..k)
    BY FS_Interval
  <1>2. IsFiniteSet(U) /\ Cardinality(U) \in Nat
    BY <1>1, FS_Subset, FS_CardinalityType
  <1>3. CASE k + 1 \in S
    <2>1. S \cap (1..(k + 1)) = U \cup {k + 1} /\ k + 1 \notin U
      BY <1>3
    <2> HIDE DEF U
    <2>2. Cardinality(U \cup {k + 1}) = Cardinality(U) + 1
      BY <1>2, <2>1, FS_AddElement
    <2> QED
      BY <1>2, <1>3, <2>1, <2>2 DEF U
  <1>4. CASE k + 1 \notin S
    <2>1. S \cap (1..(k + 1)) = U
      BY <1>4
    <2> QED
      BY <1>2, <1>4, <2>1
  <1> QED
    BY <1>3, <1>4

\* record_ns puts a latency into the one bucket whose bounds enclose it.
LEMMA BucketEncloses ==
  ASSUME NEW n \in Nat
  PROVE  /\ Bucket(n) \in DOMAIN Bounds
         /\ \A b \in DOMAIN Bounds :
               Bucket(n) = b <=> /\ b = 1 \/ n >= Bounds[b - 1]
                                 /\ b = Len(Bounds) \/ n < Bounds[b]
  <1> DEFINE N == Len(Bounds)
  <1>0. N \in Nat \ {0} /\ DOMAIN Bounds = 1..N /\ \A b \in 1..N : Bounds[b] \in Nat
    BY AggregatorAssumptions
  <1>1. \A b, c \in 1..N : b < c => Bounds[b] < Bounds[c]
    BY <1>0, AggregatorAssumptions, SMTT(30)
  <1> HIDE DEF N
  <1>2. CASE \E b \in 1..N : n < Bounds[b]
    <2> DEFINE T == {b \in 1..N : n < Bounds[b]}
    <2>1. PICK m \in T : \A k \in T : m <= k
      <3>1. T \subseteq Nat /\ T # {}
        BY <1>0, <1>2, SMTT(30)
      <3> QED
        BY <3>1, Least
    <2>2. m \in 1..N /\ n < Bounds[m] /\ \A c \in 1..(m - 1) : n >= Bounds[c]
      <3>1. ASSUME NEW c \in 1..(m - 1) PROVE n >= Bounds[c]
        <4>1. c \in 1..N /\ c \notin T
          BY <1>0, <2>1
        <4> QED
          BY <1>0, <4>1
      <3> QED
        BY <2>1, <3>1
    <2>3. Bucket(n) = CHOOSE b \in DOMAIN Bounds : n < Bounds[b] /\ \A c \in 1..(b - 1) : n >= Bounds[c]
      BY <1>0, <1>2 DEF Bucket
    <2>4. /\ Bucket(n) \in 1..N /\ n < Bounds[Bucket(n)]
          /\ \A c \in 1..(Bucket(n) - 1) : n >= Bounds[c]
      BY <1>0, <2>2, <2>3
    <2> DEFINE x == Bucket(n)
    <2> HIDE DEF x
    <2>5. x \in 1..N /\ n < Bounds[x] /\ \A c \in 1..(x - 1) : n >= Bounds[c]
      BY <2>4 DEF x
    <2>6. ASSUME NEW b \in 1..N, x = b PROVE (b = 1 \/ n >= Bounds[b - 1]) /\ (b = N \/ n < Bounds[b])
      <3>1. n < Bounds[b] /\ \A c \in 1..(b - 1) : n >= Bounds[c]
        BY <2>5, <2>6
      <3>2. b = 1 \/ b - 1 \in 1..(b - 1)
        BY <1>0
      <3> QED
        BY <3>1, <3>2
    <2>7. ASSUME NEW b \in 1..N, b = 1 \/ n >= Bounds[b - 1], b = N \/ n < Bounds[b] PROVE x = b
      <3>1. SUFFICES ASSUME x # b PROVE FALSE
        OBVIOUS
      <3>2. CASE x < b
        <4>1. b - 1 \in 1..N /\ n >= Bounds[b - 1] /\ x <= b - 1
          <5>1. x >= 1 /\ x \in Int /\ b \in Int /\ b <= N /\ b # 1
            BY <1>0, <2>5, <3>2
          <5> QED
            BY <1>0, <2>7, <3>2, <5>1
        <4>2. Bounds[x] <= Bounds[b - 1]
          BY <1>0, <1>1, <2>5, <4>1, SMTT(30)
        <4> QED
          BY <1>0, <2>5, <4>1, <4>2
      <3>3. CASE b < x
        <4>1. n < Bounds[b] /\ b \in 1..(x - 1)
          <5>1. x <= N /\ x \in Int /\ b \in Int /\ b >= 1 /\ b # N
            BY <1>0, <2>5, <3>3
          <5> QED
            BY <1>0, <2>7, <3>3, <5>1
        <4> QED
          BY <1>0, <2>5, <4>1
      <3> QED
        BY <2>5, <3>1, <3>2, <3>3
    <2> QED
      BY <1>0, <2>5, <2>6, <2>7 DEF x, N
  <1>3. CASE \A b \in 1..N : ~(n < Bounds[b])
    <2>1. Bucket(n) = N
      BY <1>0, <1>3 DEF Bucket, N
    <2>2. \A b \in 1..N : n >= Bounds[b]
      BY <1>0, <1>3
    <2>3. N = 1 \/ n >= Bounds[N - 1]
      BY <1>0, <2>2
    <2> QED
      BY <1>0, <2>1, <2>2, <2>3 DEF N
  <1> QED
    BY <1>2, <1>3
\* The positions of slow calls, and of the calls of a bucket.
SlowAt(es) == {i \in DOMAIN es : es[i].latency > Slow}
InBucket(es, b) == {i \in DOMAIN es : Bucket(es[i].latency) = b}

\* The statistics s are those of the first k events.
RecordOf(s, es, k) ==
    /\ s.count = k /\ s.slow = Cardinality(SlowAt(es) \cap (1..k))
    /\ s.min \in Nat /\ s.max \in Nat
    /\ \A i \in 1..k : s.min <= es[i].latency /\ es[i].latency <= s.max
    /\ k = 0 => s.min = Unset /\ s.max = 0
    /\ k > 0 => (\E i \in 1..k : es[i].latency = s.min) /\ (\E i \in 1..k : es[i].latency = s.max)
    /\ s.hist \in [DOMAIN Bounds -> Nat]
    /\ \A b \in DOMAIN Bounds : s.hist[b] = Cardinality(InBucket(es, b) \cap (1..k))

LEMMA RecordOfNone ==
  ASSUME NEW es
  PROVE  RecordOf(EmptyStats, es, 0)
  <1>1. \A S : S \cap (1..0) = {}
    OBVIOUS
  <1>2. Cardinality({}) = 0
    BY FS_EmptySet
  <1>3. \A S : Cardinality(S \cap (1..0)) = 0
    BY <1>1, <1>2
  <1>4. /\ EmptyStats.count = 0 /\ EmptyStats.slow = 0 /\ EmptyStats.min = Unset /\ EmptyStats.max = 0
        /\ EmptyStats.hist = [b \in DOMAIN Bounds |-> 0]
    BY DEF EmptyStats
  <1> QED
    BY <1>3, <1>4 DEF RecordOf, Unset

LEMMA RecordOfNext ==
  ASSUME NEW es, TimedSeq(es), NEW k \in Nat, k + 1 \in DOMAIN es, NEW s, RecordOf(s, es, k)
  PROVE  RecordOf(Record(s, es[k + 1].latency), es, k + 1)
  <1> DEFINE n == es[k + 1].latency
             r == Record(s, n)
  <1>0. /\ n \in Nat /\ n < Unset /\ DOMAIN es = 1..Len(es) /\ Len(es) \in Nat
    BY SizeAssumptions, SessionAssumptions, IsSeqFacts DEF TimedSeq, Unset
  <1>1. /\ r.count = s.count + 1 /\ r.min = (IF n < s.min THEN n ELSE s.min)
        /\ r.max = (IF n > s.max THEN n ELSE s.max)
        /\ r.slow = (IF n > Slow THEN s.slow + 1 ELSE s.slow)
        /\ r.hist = [s.hist EXCEPT ![Bucket(n)] = @ + 1]
    BY DEF Record
  <1>2. \A i \in 1..k : es[i].latency \in Nat
    BY <1>0, SizeAssumptions DEF TimedSeq
  <1>3. r.slow = Cardinality(SlowAt(es) \cap (1..(k + 1)))
    <2>1. k + 1 \in SlowAt(es) <=> n > Slow
      BY DEF SlowAt
    <2>2. /\ Cardinality(SlowAt(es) \cap (1..k)) \in Nat
          /\ Cardinality(SlowAt(es) \cap (1..(k + 1)))
                = IF k + 1 \in SlowAt(es) THEN Cardinality(SlowAt(es) \cap (1..k)) + 1
                  ELSE Cardinality(SlowAt(es) \cap (1..k))
      BY CountNext
    <2>3. s.slow = Cardinality(SlowAt(es) \cap (1..k))
      BY DEF RecordOf
    <2> QED
      BY <1>1, <2>1, <2>2, <2>3
  <1>4. /\ r.hist \in [DOMAIN Bounds -> Nat]
        /\ \A b \in DOMAIN Bounds : r.hist[b] = Cardinality(InBucket(es, b) \cap (1..(k + 1)))
    <2>1. Bucket(n) \in DOMAIN Bounds
      BY <1>0, BucketEncloses
    <2>2. s.hist \in [DOMAIN Bounds -> Nat]
      BY DEF RecordOf
    <2>3. r.hist \in [DOMAIN Bounds -> Nat]
      BY <1>1, <2>1, <2>2
    <2>4. ASSUME NEW b \in DOMAIN Bounds PROVE r.hist[b] = Cardinality(InBucket(es, b) \cap (1..(k + 1)))
      <3>1. k + 1 \in InBucket(es, b) <=> Bucket(n) = b
        BY DEF InBucket
      <3>2. /\ Cardinality(InBucket(es, b) \cap (1..k)) \in Nat
            /\ Cardinality(InBucket(es, b) \cap (1..(k + 1)))
                  = IF k + 1 \in InBucket(es, b) THEN Cardinality(InBucket(es, b) \cap (1..k)) + 1
                    ELSE Cardinality(InBucket(es, b) \cap (1..k))
        BY CountNext
      <3>3. s.hist[b] = Cardinality(InBucket(es, b) \cap (1..k))
        BY DEF RecordOf
      <3>4. r.hist[b] = IF Bucket(n) = b THEN s.hist[b] + 1 ELSE s.hist[b]
        BY <1>1, <2>1, <2>2
      <3> QED
        BY <3>1, <3>2, <3>3, <3>4
    <2> QED
      BY <2>3, <2>4
  <1> HIDE DEF n, r
  <1>5. /\ s.min \in Nat /\ s.max \in Nat /\ s.count = k
        /\ \A i \in 1..k : s.min <= es[i].latency /\ es[i].latency <= s.max
        /\ k = 0 => s.min = Unset /\ s.max = 0
        /\ k > 0 => (\E i \in 1..k : es[i].latency = s.min) /\ (\E i \in 1..k : es[i].latency = s.max)
    BY DEF RecordOf
  <1>6. es[k + 1].latency = n /\ \A i \in 1..(k + 1) : i = k + 1 \/ i \in 1..k
    BY DEF n
  <1>7. r.min \in Nat /\ r.max \in Nat
    BY <1>0, <1>1, <1>5
  <1>8. ASSUME NEW i \in 1..(k + 1) PROVE r.min <= es[i].latency /\ es[i].latency <= r.max
    BY <1>0, <1>1, <1>2, <1>5, <1>6
  <1>9. \E i \in 1..(k + 1) : es[i].latency = r.min
    BY <1>0, <1>1, <1>5, <1>6
  <1>10. \E i \in 1..(k + 1) : es[i].latency = r.max
    BY <1>0, <1>1, <1>5, <1>6
  <1>11. RecordOf(r, es, k + 1)
    BY <1>1, <1>3, <1>4, <1>5, <1>7, <1>8, <1>9, <1>10 DEF RecordOf
  <1> QED
    BY <1>11 DEF r, n

LEMMA RecordedAll ==
  ASSUME NEW es, TimedSeq(es)
  PROVE  RecordOf(Recorded(es), es, Len(es))
  <1> DEFINE N == Len(es)
  <1>0. N \in Nat /\ DOMAIN es = 1..N
    BY IsSeqFacts DEF TimedSeq
  <1>1. PICK L : /\ Recorded(es) = L[N] /\ L[0] = EmptyStats
                 /\ \A n \in 1..N : L[n] = Record(L[n - 1], es[n].latency)
    BY <1>0, RecordedUnfolds
  <1> DEFINE T == {k \in 0..N : RecordOf(L[k], es, k)}
  <1> HIDE DEF N
  <1>2. 0 \in T
    BY <1>0, <1>1, RecordOfNone
  <1>3. ASSUME NEW k \in 0..(N - 1), k \in T PROVE k + 1 \in T
    <2>1. k \in Nat /\ k + 1 \in 1..N /\ k + 1 \in 0..N /\ (k + 1) - 1 = k
      BY <1>0
    <2>2. L[k + 1] = Record(L[k], es[k + 1].latency)
      BY <1>1, <2>1
    <2>3. RecordOf(Record(L[k], es[k + 1].latency), es, k + 1)
      <3>1. RecordOf(L[k], es, k) /\ k + 1 \in DOMAIN es
        BY <1>0, <1>3, <2>1
      <3> QED
        BY <2>1, <3>1, RecordOfNext
    <2> QED
      BY <2>1, <2>2, <2>3
  <1>4. N \in T
    <2> HIDE DEF T
    <2>1. 0..N \subseteq T
      BY <1>0, <1>2, <1>3, UpTo
    <2> QED
      BY <1>0, <2>1
  <1> QED
    BY <1>1, <1>4 DEF N

\* The statistics shown are those of the events.
LEMMA StatsRight ==
  ASSUME NEW es, TimedSeq(es)
  PROVE  StatsTrue(Stats(es), es)
  <1> DEFINE r == Recorded(es)
             s == Stats(es)
  <1>0. Len(es) \in Nat /\ DOMAIN es = 1..Len(es) /\ (es # <<>> => Len(es) > 0)
    <2>1. es \in Seq(Range(es))
      BY DEF TimedSeq, IsSeq
    <2> QED
      BY <2>1
  <1>1. RecordOf(r, es, Len(es))
    BY RecordedAll
  <1>2. /\ s.count = r.count /\ s.slow = r.slow /\ s.max = r.max /\ s.hist = r.hist
        /\ s.min = IF r.min = Unset THEN 0 ELSE r.min
    BY DEF Stats, Shown
  <1> HIDE DEF r, s
  <1>3. \A i \in DOMAIN es : es[i].latency \in 0..MaxClock /\ es[i].latency \in Nat /\ es[i].latency < Unset
    BY SizeAssumptions, SessionAssumptions DEF TimedSeq, Unset
  <1>4. s.count = Len(es)
    BY <1>1, <1>2 DEF RecordOf
  <1>5. s.slow = Cardinality(Longer(es, Slow + 1))
    <2>1. SlowAt(es) \cap (1..Len(es)) = Longer(es, Slow + 1)
      BY <1>0, <1>3, AggregatorAssumptions DEF SlowAt, Longer
    <2> QED
      BY <1>1, <1>2, <2>1 DEF RecordOf
  <1>6. ASSUME es # <<>>
        PROVE  /\ Longer(es, s.max) # {} /\ Longer(es, s.max + 1) = {}
               /\ Longer(es, s.min) = DOMAIN es /\ Longer(es, s.min + 1) # DOMAIN es
    <2>1. /\ r.min \in Nat /\ r.max \in Nat
          /\ \A i \in DOMAIN es : r.min <= es[i].latency /\ es[i].latency <= r.max
          /\ \E i \in DOMAIN es : es[i].latency = r.min
          /\ \E i \in DOMAIN es : es[i].latency = r.max
      BY <1>0, <1>1, <1>6 DEF RecordOf
    <2>2. s.min = r.min /\ s.max = r.max
      BY <1>2, <1>3, <2>1
    <2>3. PICK i \in DOMAIN es : es[i].latency = r.min
      BY <2>1
    <2>4. PICK j \in DOMAIN es : es[j].latency = r.max
      BY <2>1
    <2>5. j \in Longer(es, r.max) /\ i \notin Longer(es, r.min + 1)
      BY <2>1, <2>3, <2>4 DEF Longer
    <2>6. Longer(es, r.max + 1) = {}
      BY <1>3, <2>1 DEF Longer
    <2>7. Longer(es, r.min) = DOMAIN es
      BY <1>3, <2>1 DEF Longer
    <2> QED
      BY <2>2, <2>3, <2>4, <2>5, <2>6, <2>7
  <1>7. ASSUME NEW b \in DOMAIN Bounds
        PROVE  s.hist[b] = Cardinality(Longer(es, IF b = 1 THEN 0 ELSE Bounds[b - 1])
                                       \ (IF b = Len(Bounds) THEN {} ELSE Longer(es, Bounds[b])))
    <2> DEFINE low == IF b = 1 THEN 0 ELSE Bounds[b - 1]
               rest == IF b = Len(Bounds) THEN {} ELSE Longer(es, Bounds[b])
    <2>0. Bounds[b] \in Nat
      BY AggregatorAssumptions
    <2>1. ASSUME NEW i \in DOMAIN es PROVE i \in Longer(es, low) \ rest <=> Bucket(es[i].latency) = b
      <3> DEFINE n == es[i].latency
      <3>1. n \in Nat
        BY <1>3
      <3>2. Bucket(n) = b <=> (b = 1 \/ n >= Bounds[b - 1]) /\ (b = Len(Bounds) \/ n < Bounds[b])
        BY <3>1, BucketEncloses
      <3>3. i \in Longer(es, low) <=> b = 1 \/ n >= Bounds[b - 1]
        BY <3>1 DEF Longer
      <3>4. i \in rest <=> b # Len(Bounds) /\ ~(n < Bounds[b])
        BY <2>0, <3>1 DEF Longer
      <3> QED
        BY <3>2, <3>3, <3>4
    <2>2. Longer(es, low) \ rest = InBucket(es, b) \cap (1..Len(es))
      BY <1>0, <2>1 DEF Longer, InBucket
    <2> QED
      BY <1>1, <1>2, <2>2 DEF RecordOf
  <1>8. StatsTrue(s, es)
    BY <1>4, <1>5, <1>6, <1>7 DEF StatsTrue
  <1> QED
    BY <1>8 DEF s

-----------------------------------------------------------------------------
(* Every event carries a latency of the clock's *)

\* The probes all of whose events are timed.
Clocked == {"bio", "gpu_sched", "futex", "irq", "vfs", "gpu_fence"}

EventOK(p, e) ==
    /\ p \in Clocked => e.kind # "migrate" /\ e.latency \in 0..MaxClock
    /\ p = "schedlatency" => \/ e.kind = "migrate"
                             \/ e.kind = "switch" /\ e.latency \in 0..MaxClock

\* What is in a ring buffer, or will be, was timed by the clock.
Timely ==
    /\ clock \in 0..MaxClock
    /\ \A m \in Maps : \A k \in Started(m) : starts[m][k] \in 0..clock
    /\ \A p \in ProbeNames : \A i \in DOMAIN ring[p] : EventOK(p, ring[p][i])

LEMMA TimelyInit == Init => Timely
  <1> SUFFICES ASSUME Init PROVE Timely
      OBVIOUS
  <1>1. clock = 0 /\ starts = [m \in Maps |-> NoKey] /\ ring = [p \in ProbeNames |-> <<>>]
    BY DEF Init, KernelInit
  <1>2. DOMAIN NoKey = {} /\ DOMAIN <<>> = {}
    BY EmptyIsSeq, IsSeqFacts DEF NoKey
  <1> QED
    BY <1>1, <1>2, SizeAssumptions DEF Timely, Started

\* An entry of the next state was there, or is of this moment.
StartsOfClock ==
    \A m \in Maps : \A k \in Started(m)' :
        (k \in Started(m) /\ starts'[m][k] = starts[m][k]) \/ starts'[m][k] = clock

LEMMA StartsOfKernel ==
  ASSUME MapsOK, Kernel
  PROVE  StartsOfClock
  <1>0. "gpu" \in Maps
    BY DEF Maps
  <1>1. CASE UNCHANGED starts
    BY <1>1 DEF StartsOfClock, Started
  <1>2. ASSUME NEW m \in Maps, NEW k, starts' = [starts EXCEPT ![m] = Put(@, k, clock)] PROVE StartsOfClock
    BY <1>2 DEF StartsOfClock, Started, MapsOK, Put
  <1>3. ASSUME NEW m \in Maps, NEW k, starts' = [starts EXCEPT ![m] = Without(@, k)] PROVE StartsOfClock
    BY <1>3 DEF StartsOfClock, Started, MapsOK, Without
  <1>4. ASSUME NEW j, NEW old, starts' = [starts EXCEPT !["gpu"] = Put(Without(@, old), j, clock)]
        PROVE  StartsOfClock
    BY <1>0, <1>4 DEF StartsOfClock, Started, MapsOK, Put, Without
  <1>5. CASE Other
    BY <1>1, <1>2, <1>3, <1>5 DEF Other, Insert
  <1>6. CASE Queued
    <2>1. PICK j : UNCHANGED starts \/ record_queue(j)
      BY <1>6 DEF Queued, drm_sched_job_queue
    <2> QED
      BY <1>0, <1>1, <1>2, <1>4, <2>1 DEF record_queue, Insert
  <1>7. CASE Ran
    <2>1. PICK j : UNCHANGED starts \/ starts' = [starts EXCEPT !["gpu"] = Without(@, j)]
      BY <1>7 DEF Ran, drm_sched_job_run, record_run, Unread
    <2> QED
      BY <1>0, <1>1, <1>3, <2>1
  <1> QED
    BY <1>5, <1>6, <1>7, KernelShape

\* A step of the kernel emits at most one event, a good one.
EmitsTimed == UNCHANGED <<clock, ring>> \/ (UNCHANGED clock /\ \E p \in ProbeNames : \E e : EventOK(p, e) /\ Submit(p, e))

LEMMA EventKind ==
  ASSUME NEW op, NEW fields, NEW n, "kind" \in DOMAIN fields
  PROVE  Event(op, fields, n).kind = fields.kind /\ Event(op, fields, n).latency = n
  BY DEF Event, Put

LEMMA EntryTimed ==
  ASSUME NEW program, NEW m, NEW op, NEW k, NEW passes, Entry(program, m, op, k, passes)
  PROVE  EmitsTimed
  BY DEF Entry, Begin, EmitsTimed

LEMMA WaitOfClock ==
  ASSUME Timely, NEW m \in Maps, NEW k \in Started(m)
  PROVE  clock - starts[m][k] \in 0..MaxClock
  BY SizeAssumptions DEF Timely

LEMMA ReturnTimed ==
  ASSUME Timely, NEW program, NEW p \in ProbeNames \ {"schedlatency"}, NEW m \in Maps, NEW op, NEW k, NEW fields,
         "kind" \in DOMAIN fields, fields.kind # "migrate", Return(program, p, m, op, k, fields)
  PROVE  EmitsTimed
  <1> DEFINE e == Event(op, fields, clock - starts[m][k])
  <1>1. CASE program \in attached /\ k \in Started(m)
    <2>1. Submit(p, e) /\ UNCHANGED clock
      BY <1>1 DEF Return, End
    <2>2. e.kind # "migrate" /\ e.latency = clock - starts[m][k]
      BY EventKind
    <2>3. clock - starts[m][k] \in 0..MaxClock
      BY <1>1, WaitOfClock
    <2> HIDE DEF e
    <2>4. EventOK(p, e)
      BY <2>2, <2>3 DEF EventOK
    <2> QED
      BY <2>1, <2>4 DEF EmitsTimed
  <1>2. CASE ~(program \in attached /\ k \in Started(m))
    BY <1>2 DEF Return, End, EmitsTimed
  <1> QED
    BY <1>1, <1>2

LEMMA SwitchTimed ==
  ASSUME Timely, NEW t, sched_switch(t)
  PROVE  EmitsTimed
  <1> DEFINE seen == t \in Started("wakeup")
             wait == IF seen THEN clock - starts["wakeup"][t] ELSE 0
             e == [kind |-> "switch", tid |-> t, latency |-> wait]
  <1>0. "wakeup" \in Maps /\ "schedlatency" \in ProbeNames
    BY DEF Maps, ProbeNames
  <1>1. wait \in 0..MaxClock
    BY <1>0, WaitOfClock, SizeAssumptions
  <1>2. UNCHANGED clock /\ (UNCHANGED ring \/ Submit("schedlatency", e))
    BY DEF sched_switch, Happens
  <1> HIDE DEF wait
  <1>3. e.kind = "switch" /\ e.latency = wait
    OBVIOUS
  <1> HIDE DEF e
  <1>4. EventOK("schedlatency", e)
    BY <1>1, <1>3 DEF EventOK, Clocked
  <1> QED
    BY <1>0, <1>2, <1>4 DEF EmitsTimed

LEMMA ThreadTimed ==
  ASSUME Timely, NEW t \in Threads, NEW busy, ThreadCalls(t, busy)
  PROVE  EmitsTimed
  <1>0. /\ {"futex", "read", "write", "fence"} \subseteq Maps /\ {"schedlatency", "mem"} \subseteq ProbeNames
        /\ {"futex", "vfs", "gpu_fence"} \subseteq ProbeNames \ {"schedlatency"}
    BY DEF Maps, ProbeNames
  <1>1. CASE sched_wakeup(t)
    BY <1>1 DEF sched_wakeup, Happens, EmitsTimed
  <1>2. CASE sched_switch(t)
    BY <1>2, SwitchTimed
  <1>3. CASE \E a, b \in Cpus : sched_migrate_task(t, a, b)
    <2>1. PICK a \in Cpus, b \in Cpus : sched_migrate_task(t, a, b)
      BY <1>3
    <2> DEFINE e == [kind |-> "migrate", tid |-> t, prev |-> a, next |-> b]
    <2>2. UNCHANGED clock /\ (UNCHANGED ring \/ Submit("schedlatency", e))
      BY <2>1 DEF sched_migrate_task, Moment, Happens
    <2>3. EventOK("schedlatency", e)
      BY DEF EventOK, Clocked
    <2> HIDE DEF e
    <2> QED
      BY <1>0, <2>2, <2>3 DEF EmitsTimed
  <1>4. CASE do_futex_entry(t)
    BY <1>4, EntryTimed DEF do_futex_entry
  <1>5. CASE do_futex_return(t)
    BY <1>0, <1>5, ReturnTimed DEF do_futex_return
  <1>6. CASE vfs_read_entry(t)
    BY <1>6, EntryTimed DEF vfs_read_entry
  <1>7. CASE vfs_read_return(t)
    BY <1>0, <1>7, ReturnTimed DEF vfs_read_return
  <1>8. CASE vfs_write_entry(t)
    BY <1>8, EntryTimed DEF vfs_write_entry
  <1>9. CASE vfs_write_return(t)
    BY <1>0, <1>9, ReturnTimed DEF vfs_write_return
  <1>10. CASE dma_fence_default_wait_entry(t)
    BY <1>10, EntryTimed DEF dma_fence_default_wait_entry
  <1>11. CASE dma_fence_default_wait_return(t)
    BY <1>0, <1>11, ReturnTimed DEF dma_fence_default_wait_return
  <1>12. CASE \E w \in BOOLEAN : page_fault_user(t, w)
    <2>1. UNCHANGED clock /\ (UNCHANGED ring \/ \E e : Submit("mem", e))
      BY <1>12 DEF page_fault_user, Moment, Happens
    <2>2. \A e : EventOK("mem", e)
      BY DEF EventOK, Clocked
    <2> QED
      BY <1>0, <2>1, <2>2 DEF EmitsTimed
  <1> QED
    BY <1>1, <1>2, <1>3, <1>4, <1>5, <1>6, <1>7, <1>8, <1>9, <1>10, <1>11, <1>12 DEF ThreadCalls

LEMMA DeviceTimed ==
  ASSUME Timely, NEW busy, DeviceCalls(busy)
  PROVE  EmitsTimed
  <1>0. /\ {"bio", "soft", "hard", "gpu"} \subseteq Maps /\ {"mem", "gpu_submit"} \subseteq ProbeNames
        /\ {"bio", "irq", "gpu_sched"} \subseteq ProbeNames \ {"schedlatency"}
    BY DEF Maps, ProbeNames
  <1>1. CASE \E d \in Devices, s \in Sectors : block_rq_issue(d, s)
    BY <1>1, EntryTimed DEF block_rq_issue
  <1>2. CASE \E d \in Devices, s \in Sectors : block_rq_complete(d, s)
    BY <1>0, <1>2, ReturnTimed DEF block_rq_complete
  <1>3. CASE \E c \in Cpus : softirq_entry(c)
    BY <1>3, EntryTimed DEF softirq_entry
  <1>4. CASE \E c \in Cpus : softirq_exit(c)
    BY <1>0, <1>4, ReturnTimed DEF softirq_exit
  <1>5. CASE \E c \in Cpus : \E n \in Lines : irq_handler_entry(c, n)
    BY <1>5, EntryTimed DEF irq_handler_entry
  <1>6. CASE \E c \in Cpus : \E n \in Lines : irq_handler_exit(c, n)
    BY <1>0, <1>6, ReturnTimed DEF irq_handler_exit
  <1>7. CASE \E j \in Jobs : drm_sched_job_queue(j)
    BY <1>7 DEF drm_sched_job_queue, EmitsTimed
  <1>8. CASE \E j \in Jobs : drm_sched_job_run(j)
    <2>1. PICK j \in Jobs : drm_sched_job_run(j)
      BY <1>8
    <2> DEFINE e == Event(<<"gpu", j>>, [kind |-> "gpu"], clock - starts["gpu"][j])
    <2>2. UNCHANGED clock /\ (UNCHANGED ring \/ (j \in Started("gpu") /\ Submit("gpu_sched", e)))
      BY <2>1 DEF drm_sched_job_run, End, record_run, Unread
    <2>3. e.kind = "gpu" /\ e.latency = clock - starts["gpu"][j]
      BY EventKind
    <2> HIDE DEF e
    <2>4. j \in Started("gpu") => EventOK("gpu_sched", e)
      BY <1>0, <2>3, WaitOfClock DEF EventOK
    <2> QED
      BY <1>0, <2>2, <2>4 DEF EmitsTimed
  <1>9. CASE amdgpu_cs_ioctl_entry
    <2>1. UNCHANGED clock /\ (UNCHANGED ring \/ \E e : Submit("gpu_submit", e))
      BY <1>9 DEF amdgpu_cs_ioctl_entry, Moment, Happens
    <2>2. \A e : EventOK("gpu_submit", e)
      BY DEF EventOK, Clocked
    <2> QED
      BY <1>0, <2>1, <2>2 DEF EmitsTimed
  <1>10. CASE mm_vmscan_direct_reclaim_begin
    <2>1. UNCHANGED clock /\ (UNCHANGED ring \/ \E e : Submit("mem", e))
      BY <1>10 DEF mm_vmscan_direct_reclaim_begin, Moment, Happens
    <2>2. \A e : EventOK("mem", e)
      BY DEF EventOK, Clocked
    <2> QED
      BY <1>0, <2>1, <2>2 DEF EmitsTimed
  <1> QED
    BY <1>1, <1>2, <1>3, <1>4, <1>5, <1>6, <1>7, <1>8, <1>9, <1>10 DEF DeviceCalls

LEMMA TimelyNext == Timely /\ MapsOK /\ Rings /\ [Next]_vars => Timely'
  <1> SUFFICES ASSUME Timely, MapsOK, Rings, [Next]_vars PROVE Timely'
      OBVIOUS
  <1>1. CASE Kernel
    <2>1. StartsOfClock
      BY <1>1, StartsOfKernel
    <2>2. EmitsTimed \/ (Elapse /\ UNCHANGED ring)
      BY <1>1, ThreadTimed, DeviceTimed DEF Kernel, KernelNext, Elapse
    <2>3. clock' \in 0..MaxClock /\ clock \in 0..clock' /\ clock \in Nat
      BY <2>2, SizeAssumptions DEF EmitsTimed, Elapse, Timely
    <2>4. ASSUME NEW m \in Maps, NEW k \in Started(m)' PROVE starts'[m][k] \in 0..clock'
      <3>1. starts'[m][k] \in 0..clock
        BY <2>1, <2>3 DEF StartsOfClock, Timely
      <3> QED
        BY <2>3, <3>1
    <2>5. ASSUME NEW q \in ProbeNames, NEW i \in DOMAIN ring'[q] PROVE EventOK(q, ring'[q][i])
      <3>1. CASE UNCHANGED ring
        BY <3>1 DEF Timely
      <3>2. CASE \E p \in ProbeNames : \E e : EventOK(p, e) /\ Submit(p, e)
        <4>1. PICK p \in ProbeNames : \E e : EventOK(p, e) /\ Submit(p, e)
          BY <3>2
        <4>2. PICK e : EventOK(p, e) /\ Submit(p, e)
          BY <4>1
        <4> DEFINE r == Append(ring[p], e)
        <4>3. \A n \in DOMAIN r : r[n] = IF n \in DOMAIN ring[p] THEN ring[p][n] ELSE e
          BY AppendIsSeq DEF Rings
        <4>4. ring' = ring \/ ring' = [ring EXCEPT ![p] = r]
          BY <4>2 DEF Submit
        <4> HIDE DEF r
        <4>5. CASE q = p /\ ring' # ring
          <5>1. ring'[q] = r
            BY <4>4, <4>5 DEF Rings
          <5> QED
            BY <4>2, <4>3, <4>5, <5>1 DEF Timely
        <4>6. CASE ring'[q] = ring[q]
          BY <4>6 DEF Timely
        <4> QED
          BY <4>4, <4>5, <4>6 DEF Rings
      <3> QED
        BY <2>2, <3>1, <3>2 DEF EmitsTimed
    <2> QED
      BY <2>3, <2>4, <2>5 DEF Timely
  <1>2. CASE Collect
    <2>1. UNCHANGED <<starts, clock>>
      BY <1>2 DEF Collect
    <2>2. PICK p : ring' = [ring EXCEPT ![p] = <<>>]
      BY <1>2 DEF Collect, Drain
    <2>3. ASSUME NEW q \in ProbeNames, NEW i \in DOMAIN ring'[q] PROVE EventOK(q, ring'[q][i])
      <3>1. ring'[q] # <<>>
        BY EmptyIsSeq, IsSeqFacts
      <3>2. ring'[q] = ring[q]
        BY <2>2, <3>1 DEF Rings
      <3> QED
        BY <3>2 DEF Timely
    <2> QED
      BY <2>1, <2>3 DEF Timely, Started
  <1>3. CASE ~Kernel /\ ~Collect
    <2>1. UNCHANGED <<starts, clock, ring>>
      BY <1>3 DEF Next, Daemon, Loop, vars, Load, Connect, Detach, Seed, UpdateStep, Queue, Flush, Tick,
         SessionChange, Shutdown, Signal, WatcherPublishes, kernel
    <2> QED
      BY <2>1 DEF Timely, Started
  <1> QED
    BY <1>1, <1>2, <1>3-----------------------------------------------------------------------------
(* The busiest threads *)

\* A drained batch of the scheduler's probe.
SchedSeq(es) == IsSeq(es) /\ \A i \in DOMAIN es : EventOK("schedlatency", es[i])

SwitchesOf(es, t) == Len(Switches(OfThread(es, t)))

LEMMA SwitchesTimed ==
  ASSUME NEW es, SchedSeq(es)
  PROVE  TimedSeq(Switches(es)) /\ \A t : TimedSeq(Switches(OfThread(es, t)))
  <1>1. ASSUME NEW us, SchedSeq(us) PROVE TimedSeq(Switches(us))
    <2> DEFINE s == OfKind(us, "switch")
    <2>1. IsSeq(us)
      BY <1>1 DEF SchedSeq
    <2>2. IsSeq(s) /\ \A x : x \in Range(s) <=> \E i \in DOMAIN us : us[i].kind = "switch" /\ us[i] = x
      BY <2>1, OfKindElements
    <2>3. Switches(us) = s
      BY DEF Switches
    <2> HIDE DEF s
    <2>4. ASSUME NEW j \in DOMAIN s PROVE s[j].latency \in 0..MaxClock
      <3>1. s[j] \in Range(s)
        BY DEF Range
      <3>2. PICK i \in DOMAIN us : us[i].kind = "switch" /\ us[i] = s[j]
        BY <2>2, <3>1
      <3> QED
        BY <1>1, <3>2 DEF SchedSeq, EventOK
    <2> QED
      BY <2>2, <2>3, <2>4 DEF TimedSeq
  <1>2. ASSUME NEW t PROVE SchedSeq(OfThread(es, t))
    <2> DEFINE s == OfThread(es, t)
    <2>1. IsSeq(es)
      BY DEF SchedSeq
    <2>2. IsSeq(s) /\ \A x : x \in Range(s) <=> \E i \in DOMAIN es : es[i].tid = t /\ es[i] = x
      BY <2>1, OfThreadElements
    <2> HIDE DEF s
    <2>3. ASSUME NEW j \in DOMAIN s PROVE EventOK("schedlatency", s[j])
      <3>1. s[j] \in Range(s)
        BY DEF Range
      <3> QED
        BY <2>2, <3>1 DEF SchedSeq
    <2>4. SchedSeq(s)
      BY <2>2, <2>3 DEF SchedSeq
    <2> QED
      BY <2>4 DEF s
  <1> QED
    BY <1>1, <1>2

LEMMA SwitchesCounted ==
  ASSUME NEW es, SchedSeq(es), NEW t
  PROVE  /\ SwitchesOf(es, t) \in Nat
         /\ Stats(Switches(OfThread(es, t))).count = SwitchesOf(es, t)
  <1> DEFINE s == Switches(OfThread(es, t))
  <1>1. TimedSeq(s)
    BY SwitchesTimed
  <1> HIDE DEF s
  <1>2. Len(s) \in Nat /\ StatsTrue(Stats(s), s)
    BY <1>1, StatsRight, IsSeqFacts DEF TimedSeq
  <1> QED
    BY <1>2 DEF StatsTrue, SwitchesOf, s

\* The threads named by r are different, sorted, and no other is busier.
RankedOf(r, es) ==
    /\ IsSeq(r) /\ Len(r) <= TopThreads
    /\ \A i, j \in DOMAIN r : i < j => r[i] # r[j] /\ SwitchesOf(es, r[i]) >= SwitchesOf(es, r[j])
    /\ \A k \in DOMAIN es :
          \/ \E i \in DOMAIN r : r[i] = es[k].tid
          \/ Len(r) = TopThreads /\ \A i \in DOMAIN r : SwitchesOf(es, es[k].tid) <= SwitchesOf(es, r[i])

LEMMA RankedRight ==
  ASSUME NEW es, SchedSeq(es), NEW r \in Ranked(es)
  PROVE  RankedOf(r, es)
  <1> DEFINE tids == {es[i].tid : i \in DOMAIN es}
             n == Cardinality(tids)
  <1>0. IsSeq(es)
    BY DEF SchedSeq
  <1>1. IsFiniteSet(tids)
    <2> DEFINE F == [i \in DOMAIN es |-> es[i].tid]
    <2>1. Len(es) \in Nat /\ DOMAIN es = 1..Len(es)
      BY <1>0, IsSeqFacts
    <2>2. IsFiniteSet(DOMAIN es)
      BY <2>1, FS_Interval
    <2>3. F \in Surjection(DOMAIN es, tids)
      BY DEF Surjection
    <2> QED
      BY <2>2, <2>3, FS_Surjection
  <1>2. PICK q \in SetToSeqs(tids) :
           /\ \A i, j \in DOMAIN q : i < j => SwitchesOf(es, q[i]) >= SwitchesOf(es, q[j])
           /\ r = SubSeq(q, 1, IF Len(q) < TopThreads THEN Len(q) ELSE TopThreads)
    BY DEF Ranked, SwitchesOf
  <1>3. \A k \in DOMAIN es : es[k].tid \in tids
    OBVIOUS
  <1> HIDE DEF tids
  <1>4. q \in [1..n -> tids] /\ IsInjective(q) /\ n \in Nat
    <2>1. n \in Nat
      BY <1>1, FS_CardinalityType
    <2>2. q \in [1..n -> tids] /\ \A i, j \in 1..n : i # j => q[i] # q[j]
      BY <1>2 DEF SetToSeqs
    <2> HIDE DEF n
    <2> QED
      BY <2>1, <2>2 DEF IsInjective
  <1>5. \A t \in tids : \E i \in 1..n : q[i] = t
    <2>1. q \in Injection(1..n, tids)
      BY <1>4 DEF Injection, IsInjective
    <2> DEFINE N == n
    <2> HIDE DEF N
    <2>2. IsFiniteSet(1..N) /\ Cardinality(1..N) = N
      BY <1>4, FS_Interval DEF N
    <2>3. q \in Surjection(1..n, tids)
      BY <1>1, <2>1, <2>2, FS_Injection DEF N
    <2> QED
      BY <2>3 DEF Surjection
  <1> HIDE DEF n
  <1>6. IsSeq(q) /\ Len(q) = n /\ DOMAIN q = 1..n
    <2>1. q \in Seq(tids)
      BY <1>4
    <2> QED
      BY <1>4, <2>1, IsSeqIntro
  <1> DEFINE m == IF n < TopThreads THEN n ELSE TopThreads
  <1>7. m \in 0..n /\ m <= TopThreads /\ (m < n => m = TopThreads) /\ 1 \in 1..(n + 1) /\ m \in Nat
    BY <1>4, AggregatorAssumptions
  <1>8. r = SubSeq(q, 1, m)
    BY <1>2, <1>6
  <1> HIDE DEF m
  <1>9. /\ IsSeq(SubSeq(q, 1, m)) /\ Len(SubSeq(q, 1, m)) = IF 1 <= m THEN m - 1 + 1 ELSE 0
        /\ \A i \in 1..(m - 1 + 1) : SubSeq(q, 1, m)[i] = q[1 + i - 1]
    BY <1>6, <1>7, SubSeqIsSeq
  <1>10. IsSeq(r) /\ Len(r) = m /\ DOMAIN r = 1..m /\ \A i \in 1..m : r[i] = q[i]
    <2>1. Len(r) = m
      BY <1>7, <1>8, <1>9
    <2>2. \A i \in 1..m : i \in 1..(m - 1 + 1) /\ 1 + i - 1 = i
      BY <1>7
    <2>3. \A i \in 1..m : r[i] = q[i]
      BY <1>8, <1>9, <2>2
    <2> QED
      BY <1>8, <1>9, <2>1, <2>3, IsSeqFacts
  <1>11. ASSUME NEW i \in DOMAIN r, NEW j \in DOMAIN r, i < j
         PROVE  r[i] # r[j] /\ SwitchesOf(es, r[i]) >= SwitchesOf(es, r[j])
    <2>1. i \in 1..n /\ j \in 1..n /\ i # j /\ r[i] = q[i] /\ r[j] = q[j]
      BY <1>4, <1>7, <1>10, <1>11
    <2> QED
      BY <1>2, <1>4, <1>6, <1>11, <2>1 DEF IsInjective
  <1>12. ASSUME NEW k \in DOMAIN es, ~ \E i \in DOMAIN r : r[i] = es[k].tid
         PROVE  Len(r) = TopThreads /\ \A i \in DOMAIN r : SwitchesOf(es, es[k].tid) <= SwitchesOf(es, r[i])
    <2>1. PICK x \in 1..n : q[x] = es[k].tid
      BY <1>3, <1>5
    <2>2. m < x /\ m < n
      BY <1>4, <1>7, <1>10, <1>12, <2>1
    <2>3. ASSUME NEW i \in DOMAIN r PROVE SwitchesOf(es, es[k].tid) <= SwitchesOf(es, r[i])
      <3>1. i \in 1..n /\ i < x /\ r[i] = q[i]
        BY <1>4, <1>7, <1>10, <2>1, <2>2
      <3>2. SwitchesOf(es, q[i]) >= SwitchesOf(es, q[x])
        BY <1>2, <1>6, <2>1, <3>1
      <3>3. SwitchesOf(es, q[i]) \in Nat /\ SwitchesOf(es, q[x]) \in Nat
        BY SwitchesCounted
      <3> QED
        BY <2>1, <3>1, <3>2, <3>3
    <2> QED
      BY <1>7, <1>10, <2>2, <2>3
  <1> QED
    BY <1>7, <1>10, <1>11, <1>12 DEF RankedOf

LEMMA ThreadsBusiest ==
  ASSUME NEW es, SchedSeq(es), NEW id, NEW r, RankedOf(r, es), NEW listed,
         listed = {ThreadDoc(es, id, i, r[i]) : i \in DOMAIN r}
  PROVE  Busiest(es, listed)
  <1> DEFINE D(i) == ThreadDoc(es, id, i, r[i])
  <1>0. IsSeq(r) /\ Len(r) \in Nat /\ DOMAIN r = 1..Len(r)
    BY IsSeqFacts DEF RankedOf
  <1>1. ASSUME NEW i \in DOMAIN r
        PROVE  D(i).rank = i /\ D(i).tid = r[i] /\ D(i).stats.count = SwitchesOf(es, r[i])
    <2>1. D(i).rank = i /\ D(i).tid = r[i] /\ D(i).stats = Stats(Switches(OfThread(es, r[i])))
      BY DEF ThreadDoc
    <2>2. Stats(Switches(OfThread(es, r[i]))).count = SwitchesOf(es, r[i])
      BY SwitchesCounted
    <2> QED
      BY <2>1, <2>2
  <1> HIDE DEF D
  <1>2. listed = {D(i) : i \in DOMAIN r}
    BY DEF D
  <1>3. ASSUME NEW d \in listed PROVE d.stats.count = SwitchesOf(es, d.tid)
    <2>1. PICK i \in DOMAIN r : d = D(i)
      BY <1>2
    <2> QED
      BY <1>1, <2>1
  <1>4. ASSUME NEW d \in listed, NEW e \in listed, d.rank < e.rank PROVE d.stats.count >= e.stats.count
    <2>1. PICK i \in DOMAIN r : d = D(i)
      BY <1>2
    <2>2. PICK j \in DOMAIN r : e = D(j)
      BY <1>2
    <2>3. i < j
      BY <1>1, <1>4, <2>1, <2>2
    <2> QED
      BY <1>1, <2>1, <2>2, <2>3 DEF RankedOf
  <1>5. Cardinality(listed) = Len(r)
    <2> DEFINE F == [i \in 1..Len(r) |-> D(i)]
               N == Len(r)
    <2>1. F \in Bijection(1..N, listed)
      <3>1. F \in [1..N -> listed]
        BY <1>0, <1>2
      <3>2. \A i, j \in 1..N : F[i] = F[j] => i = j
        BY <1>0, <1>1
      <3>3. \A d \in listed : \E i \in 1..N : F[i] = d
        BY <1>0, <1>2
      <3> QED
        BY <3>1, <3>2, <3>3 DEF Bijection, Injection, Surjection, IsInjective
    <2> HIDE DEF F, N
    <2>2. N \in Nat
      BY <1>0 DEF N
    <2>3. IsFiniteSet(1..N) /\ Cardinality(1..N) = N
      BY <2>2, FS_Interval
    <2>4. Cardinality(listed) = Cardinality(1..N)
      <3>1. ExistsBijection(1..N, listed)
        BY <2>1 DEF ExistsBijection
      <3> QED
        BY <2>3, <3>1, FS_Bijection
    <2> QED
      BY <2>3, <2>4 DEF N
  <1>6. ASSUME NEW t, t \notin {d.tid : d \in listed}, OfThread(es, t) # <<>>
        PROVE  /\ Cardinality(listed) = TopThreads
               /\ \A d \in listed : SwitchesOf(es, t) <= SwitchesOf(es, d.tid)
    <2> DEFINE s == OfThread(es, t)
    <2>1. IsSeq(s) /\ \A x : x \in Range(s) <=> \E i \in DOMAIN es : es[i].tid = t /\ es[i] = x
      BY OfThreadElements DEF SchedSeq
    <2>2. s # <<>>
      BY <1>6
    <2> HIDE DEF s
    <2>3. \E x : x \in Range(s)
      <3>1. s \in Seq(Range(s))
        BY <2>1 DEF IsSeq
      <3>2. 1 \in DOMAIN s
        BY <2>2, <3>1
      <3> QED
        BY <3>2 DEF Range
    <2>4. PICK k \in DOMAIN es : es[k].tid = t
      BY <2>1, <2>3
    <2>5. \A i \in DOMAIN r : r[i] # t
      BY <1>1, <1>2, <1>6
    <2>6. Len(r) = TopThreads /\ \A i \in DOMAIN r : SwitchesOf(es, t) <= SwitchesOf(es, r[i])
      BY <2>4, <2>5 DEF RankedOf
    <2> QED
      BY <1>1, <1>2, <1>5, <2>6, ZenonT(60)
  <1> QED
    BY <1>3, <1>4, <1>6 DEF Busiest, SwitchesOf

-----------------------------------------------------------------------------
(* What each flush returns *)

LEMMA MetricField ==
  ASSUME NEW p, NEW id, NEW es, NEW fields, NEW f \in DOMAIN fields, f \notin {"type", "probe", "session", "events"}
  PROVE  Metric(p, id, es, fields)[f] = fields[f]
  BY DEF Metric

\* The probes correlate looks at.
Watched == {"schedlatency", "bio", "gpu_sched", "mem"}

\* The statistics of a document are its events', and it counts as a spike when they have one.
DocOK(d) ==
    /\ \A pair \in StatsOf(d) : StatsTrue(pair[1], pair[2])
    /\ Spiked(d) <=> d.probe \in Watched /\ Over(d.probe, d.events)

\* What a probe's ring buffer holds.
DrainOK(p, es) == IsSeq(es) /\ \A i \in DOMAIN es : EventOK(p, es[i])

LEMMA MaxSpikes ==
  ASSUME NEW es, TimedSeq(es)
  PROVE  Stats(es).max > Spike <=> \E i \in DOMAIN es : es[i].latency > Spike
  <1> DEFINE r == Recorded(es)
             s == Stats(es)
  <1>0. Len(es) \in Nat /\ DOMAIN es = 1..Len(es)
    BY IsSeqFacts DEF TimedSeq
  <1>1. RecordOf(r, es, Len(es))
    BY RecordedAll
  <1>2. s.max = r.max
    BY DEF Stats, Shown
  <1> HIDE DEF r, s
  <1>3. /\ r.max \in Nat /\ \A i \in DOMAIN es : es[i].latency <= r.max /\ es[i].latency \in Nat
        /\ Len(es) = 0 => r.max = 0
        /\ Len(es) > 0 => \E i \in DOMAIN es : es[i].latency = r.max
    BY <1>0, <1>1, SizeAssumptions DEF RecordOf, TimedSeq
  <1>4. s.max > Spike <=> \E i \in DOMAIN es : es[i].latency > Spike
    BY <1>0, <1>2, <1>3, AggregatorAssumptions
  <1> QED
    BY <1>4 DEF s

LEMMA OfKindTimed ==
  ASSUME NEW es, TimedSeq(es), NEW kind
  PROVE  TimedSeq(OfKind(es, kind))
  <1> DEFINE s == OfKind(es, kind)
  <1>1. IsSeq(s) /\ \A x : x \in Range(s) <=> \E i \in DOMAIN es : es[i].kind = kind /\ es[i] = x
    BY OfKindElements DEF TimedSeq
  <1> HIDE DEF s
  <1>2. ASSUME NEW j \in DOMAIN s PROVE s[j].latency \in 0..MaxClock
    <2>1. s[j] \in Range(s)
      BY DEF Range
    <2> QED
      BY <1>1, <2>1 DEF TimedSeq
  <1>3. TimedSeq(s)
    BY <1>1, <1>2 DEF TimedSeq
  <1> QED
    BY <1>3 DEF s

\* A probe with one set of statistics.
LEMMA PlainDoc ==
  ASSUME NEW p \in {"bio", "gpu_sched", "futex", "gpu_fence"}, NEW es, DrainOK(p, es), NEW id,
         NEW fields, "stats" \in DOMAIN fields, fields.stats = Stats(es)
  PROVE  DocOK(Metric(p, id, es, fields))
  <1> DEFINE d == Metric(p, id, es, fields)
  <1>1. d.probe = p /\ d.events = es /\ d.stats = Stats(es)
    BY MetricFields, MetricField
  <1> HIDE DEF d
  <1>2. TimedSeq(es) /\ \A i \in DOMAIN es : es[i].kind # "migrate"
    BY DEF DrainOK, EventOK, Clocked, TimedSeq
  <1>3. StatsOf(d) = {<<d.stats, d.events>>}
    BY <1>1 DEF StatsOf
  <1>4. StatsTrue(d.stats, d.events)
    BY <1>1, <1>2, StatsRight
  <1>5. \A pair \in StatsOf(d) : StatsTrue(pair[1], pair[2])
    BY <1>3, <1>4
  <1>6. Over(p, es) <=> \E i \in DOMAIN es : es[i].latency > Spike
    <2>1. p # "mem"
      OBVIOUS
    <2> QED
      BY <1>2, <2>1 DEF Over, Range
  <1>7. Spiked(d) <=> p \in Watched /\ Over(p, es)
    <2>1. d.stats.max > Spike <=> \E i \in DOMAIN es : es[i].latency > Spike
      BY <1>1, <1>2, MaxSpikes
    <2>2. Spiked(d) <=> p \in {"bio", "gpu_sched"} /\ d.stats.max > Spike
      BY <1>1 DEF Spiked
    <2>3. p \in Watched <=> p \in {"bio", "gpu_sched"}
      BY DEF Watched
    <2> QED
      BY <1>6, <2>1, <2>2, <2>3
  <1>8. DocOK(d)
    BY <1>1, <1>5, <1>7 DEF DocOK
  <1> QED
    BY <1>8 DEF d

LEMMA IrqDoc ==
  ASSUME NEW es, DrainOK("irq", es), NEW id
  PROVE  DocOK(IrqFlush(es, id))
  <1> DEFINE fields == [hard |-> Stats(OfKind(es, "hard")), soft |-> Stats(OfKind(es, "soft"))]
             d == Metric("irq", id, es, fields)
  <1>0. fields.hard = Stats(OfKind(es, "hard")) /\ fields.soft = Stats(OfKind(es, "soft")) /\ DOMAIN fields = {"hard", "soft"}
    OBVIOUS
  <1> HIDE DEF fields
  <1>1. /\ d.probe = "irq" /\ d.events = es
        /\ d.hard = Stats(OfKind(es, "hard")) /\ d.soft = Stats(OfKind(es, "soft"))
    BY <1>0, MetricFields, MetricField
  <1>2. TimedSeq(es)
    BY DEF DrainOK, EventOK, Clocked, TimedSeq
  <1> HIDE DEF d
  <1>3. StatsTrue(d.hard, OfKind(d.events, "hard")) /\ StatsTrue(d.soft, OfKind(d.events, "soft"))
    BY <1>1, <1>2, OfKindTimed, StatsRight
  <1>4. StatsOf(d) = {<<d.hard, OfKind(d.events, "hard")>>, <<d.soft, OfKind(d.events, "soft")>>}
    BY <1>1 DEF StatsOf
  <1>5. \A pair \in StatsOf(d) : StatsTrue(pair[1], pair[2])
    BY <1>3, <1>4
  <1>6. ~Spiked(d) /\ d.probe \notin Watched
    BY <1>1 DEF Spiked, Watched
  <1> QED
    BY <1>5, <1>6 DEF DocOK, d, fields, IrqFlush

LEMMA VfsDoc ==
  ASSUME NEW es, DrainOK("vfs", es), NEW id
  PROVE  DocOK(VfsFlush(es, id))
  <1> DEFINE fields == [read |-> Stats(OfKind(es, "read")), write |-> Stats(OfKind(es, "write"))]
             d == Metric("vfs", id, es, fields)
  <1>0. fields.read = Stats(OfKind(es, "read")) /\ fields.write = Stats(OfKind(es, "write")) /\ DOMAIN fields = {"read", "write"}
    OBVIOUS
  <1> HIDE DEF fields
  <1>1. /\ d.probe = "vfs" /\ d.events = es
        /\ d.read = Stats(OfKind(es, "read")) /\ d.write = Stats(OfKind(es, "write"))
    BY <1>0, MetricFields, MetricField
  <1>2. TimedSeq(es)
    BY DEF DrainOK, EventOK, Clocked, TimedSeq
  <1> HIDE DEF d
  <1>3. StatsTrue(d.read, OfKind(d.events, "read")) /\ StatsTrue(d.write, OfKind(d.events, "write"))
    BY <1>1, <1>2, OfKindTimed, StatsRight
  <1>4. StatsOf(d) = {<<d.read, OfKind(d.events, "read")>>, <<d.write, OfKind(d.events, "write")>>}
    BY <1>1 DEF StatsOf
  <1>5. \A pair \in StatsOf(d) : StatsTrue(pair[1], pair[2])
    BY <1>3, <1>4
  <1>6. ~Spiked(d) /\ d.probe \notin Watched
    BY <1>1 DEF Spiked, Watched
  <1> QED
    BY <1>5, <1>6 DEF DocOK, d, fields, VfsFlush

\* The memory and submission probes count, the correlator looks for a reclaim.
LEMMA CountingDoc ==
  ASSUME NEW es, IsSeq(es), NEW id
  PROVE  DocOK(MemFlush(es, id)) /\ DocOK(GpuSubmitFlush(es, id))
  <1> DEFINE fields == [faults |-> Len(OfKind(es, "fault")),
                        writes |-> Len(SelectSeq(es, LAMBDA e : e.kind = "fault" /\ e.write)),
                        reclaims |-> Len(OfKind(es, "reclaim"))]
  <1>0. MemFlush(es, id) = Metric("mem", id, es, fields)
    BY DEF MemFlush
  <1>1. "reclaims" \in DOMAIN fields /\ fields.reclaims = Len(OfKind(es, "reclaim"))
    OBVIOUS
  <1> HIDE DEF fields
  <1>2. DocOK(MemFlush(es, id))
    <2> DEFINE d == Metric("mem", id, es, fields)
               s == OfKind(es, "reclaim")
    <2>1. d.probe = "mem" /\ d.events = es /\ d.reclaims = Len(s)
      BY <1>1, MetricFields, MetricField
    <2>2. IsSeq(s) /\ \A x : x \in Range(s) <=> \E i \in DOMAIN es : es[i].kind = "reclaim" /\ es[i] = x
      BY OfKindElements
    <2> HIDE DEF d, s
    <2>3. Len(s) \in Nat /\ DOMAIN s = 1..Len(s)
      BY <2>2, IsSeqFacts
    <2>4. Len(s) > 0 <=> \E x : x \in Range(s)
      BY <2>3 DEF Range
    <2>5. Over("mem", es) <=> \E x : x \in Range(s)
      BY <2>2 DEF Over, Range
    <2>6. Spiked(d) <=> d.probe \in Watched /\ Over(d.probe, d.events)
      BY <2>1, <2>4, <2>5 DEF Spiked, Watched
    <2>7. StatsOf(d) = {}
      BY <2>1 DEF StatsOf
    <2> QED
      BY <1>0, <2>6, <2>7 DEF DocOK, d
  <1>3. DocOK(GpuSubmitFlush(es, id))
    <2> DEFINE d == GpuSubmitFlush(es, id)
    <2>1. d.probe = "gpu_submit"
      BY MetricFields DEF GpuSubmitFlush
    <2> HIDE DEF d
    <2>2. StatsOf(d) = {} /\ ~Spiked(d) /\ d.probe \notin Watched
      BY <2>1 DEF StatsOf, Spiked, Watched
    <2> QED
      BY <2>2 DEF DocOK, d
  <1> QED
    BY <1>2, <1>3

LEMMA SchedDoc ==
  ASSUME NEW es, SchedSeq(es), NEW id, NEW fields, "stats" \in DOMAIN fields, fields.stats = Stats(Switches(es))
  PROVE  DocOK(Metric("schedlatency", id, es, fields))
  <1> DEFINE d == Metric("schedlatency", id, es, fields)
             s == Switches(es)
  <1>1. d.probe = "schedlatency" /\ d.events = es /\ d.stats = Stats(s)
    BY MetricFields, MetricField
  <1>2. TimedSeq(s)
    BY SwitchesTimed
  <1>3. \A x : x \in Range(s) <=> \E i \in DOMAIN es : es[i].kind = "switch" /\ es[i] = x
    BY OfKindElements DEF SchedSeq, Switches
  <1> HIDE DEF d
  <1>4. StatsOf(d) = {<<d.stats, s>>}
    BY <1>1 DEF StatsOf
  <1> HIDE DEF s
  <1>5. StatsTrue(d.stats, s)
    BY <1>1, <1>2, StatsRight
  <1>6. \A pair \in StatsOf(d) : StatsTrue(pair[1], pair[2])
    BY <1>4, <1>5
  <1>7. Over("schedlatency", es) <=> \E i \in DOMAIN s : s[i].latency > Spike
    <2>1. \A i \in DOMAIN es : es[i].kind = "switch" <=> es[i].kind # "migrate"
      BY DEF SchedSeq, EventOK
    <2>2. Over("schedlatency", es) <=> \E x \in Range(s) : x.latency > Spike
      BY <1>3, <2>1 DEF Over, Range
    <2>3. (\E x \in Range(s) : x.latency > Spike) <=> \E i \in DOMAIN s : s[i].latency > Spike
      BY DEF Range
    <2> QED
      BY <2>2, <2>3
  <1>8. d.stats.max > Spike <=> \E i \in DOMAIN s : s[i].latency > Spike
    BY <1>1, <1>2, MaxSpikes
  <1>9. Spiked(d) <=> d.probe \in Watched /\ Over(d.probe, d.events)
    BY <1>1, <1>7, <1>8 DEF Spiked, Watched
  <1>10. DocOK(d)
    BY <1>6, <1>9 DEF DocOK
  <1> QED
    BY <1>10 DEF d
\* The documents of a type.
Typed(ds, type) == {d \in Range(ds) : d.type = type}

\* One aggregate at most, with what belongs to it, and all of it true.
FlushOK(p, ds) ==
    /\ IsSeq(ds)
    /\ \A i \in DOMAIN ds : /\ ds[i].type \in {"metric", "thread"} /\ ds[i].probe = p
                            /\ ds[i].type = "metric" => i = 1 /\ DocOK(ds[i])
    /\ p = "schedlatency" => \A m \in Typed(ds, "metric") : Busiest(m.events, Typed(ds, "thread"))

LEMMA NothingFlushed ==
  ASSUME NEW p
  PROVE  FlushOK(p, <<>>)
  <1>1. IsSeq(<<>>) /\ DOMAIN <<>> = {} /\ Range(<<>>) = {}
    BY EmptyIsSeq, IsSeqFacts DEF Range
  <1> QED
    BY <1>1 DEF FlushOK, Typed

LEMMA OneFlushed ==
  ASSUME NEW p, p # "schedlatency", NEW d, d.type = "metric", d.probe = p, DocOK(d)
  PROVE  FlushOK(p, <<d>>)
  <1>1. IsSeq(<<d>>) /\ <<d>>[1] = d /\ DOMAIN <<d>> = {1}
    BY SingleIsSeq
  <1> QED
    BY <1>1 DEF FlushOK

LEMMA SchedFlushed ==
  ASSUME NEW es, SchedSeq(es), NEW id, NEW new \in SchedFlushes(es, id)
  PROVE  FlushOK("schedlatency", new)
  <1> DEFINE fields == [stats |-> Stats(Switches(es)),
                        migrations |-> Len(OfKind(es, "migrate")),
                        crossings |-> Len(SelectSeq(OfKind(es, "migrate"), is_ccx_cross))]
             m == Metric("schedlatency", id, es, fields)
             Batch(r) == <<m>> \o [i \in DOMAIN r |-> ThreadDoc(es, id, i, r[i])]
  <1>1. PICK r \in Ranked(es) : new = Batch(r)
    BY DEF SchedFlushes
  <1>2. "stats" \in DOMAIN fields /\ fields.stats = Stats(Switches(es))
    OBVIOUS
  <1> HIDE DEF fields
  <1>3. m.type = "metric" /\ m.probe = "schedlatency" /\ m.events = es /\ DocOK(m)
    BY <1>2, MetricFields, SchedDoc
  <1> DEFINE a == <<m>>
             b == [i \in DOMAIN r |-> ThreadDoc(es, id, i, r[i])]
  <1>4. new = a \o b
    BY <1>1
  <1> HIDE DEF m
  <1>5. IsSeq(a) /\ Len(a) = 1 /\ a[1] = m
    BY SingleIsSeq
  <1>6. RankedOf(r, es)
    BY RankedRight
  <1>7. Len(r) \in Nat /\ DOMAIN r = 1..Len(r)
    BY <1>6, IsSeqFacts DEF RankedOf
  <1>8. IsSeq(b) /\ Len(b) = Len(r)
    BY <1>7, SeqOfInterval
  <1>9. \A i \in 1..Len(r) : b[i] = ThreadDoc(es, id, i, r[i]) /\ b[i].type = "thread" /\ b[i].probe = "schedlatency"
    BY <1>7 DEF ThreadDoc
  <1> HIDE DEF a, b, Batch
  <1>10. /\ IsSeq(new) /\ Len(new) = Len(r) + 1 /\ DOMAIN new = 1..(Len(r) + 1)
         /\ new[1] = m /\ \A i \in 1..Len(r) : new[1 + i] = b[i]
    <2>1. /\ IsSeq(a \o b) /\ Len(a \o b) = Len(a) + Len(b)
          /\ \A i \in 1..Len(a) : (a \o b)[i] = a[i]
          /\ \A i \in 1..Len(b) : (a \o b)[Len(a) + i] = b[i]
      <3>1. IsSeq(a) /\ IsSeq(b)
        BY <1>5, <1>8
      <3> QED
        BY <3>1, ConcatIsSeq
    <2>2. Len(new) = Len(r) + 1 /\ IsSeq(new)
      BY <1>4, <1>5, <1>7, <1>8, <2>1
    <2>3. DOMAIN new = 1..(Len(r) + 1)
      BY <2>2, IsSeqFacts
    <2> QED
      BY <1>4, <1>5, <1>8, <2>1, <2>2, <2>3
  <1>11. \A k \in DOMAIN new : k = 1 \/ \E i \in 1..Len(r) : k = 1 + i
    <2> SUFFICES ASSUME NEW k \in 1..(Len(r) + 1), k # 1 PROVE k - 1 \in 1..Len(r) /\ k = 1 + (k - 1)
      BY <1>10
    <2> QED
      BY <1>7
  <1>12. Typed(new, "metric") = {m}
    BY <1>3, <1>9, <1>10, <1>11, SMTT(30) DEF Typed, Range
  <1>13. Typed(new, "thread") = {ThreadDoc(es, id, i, r[i]) : i \in DOMAIN r}
    <2>1. \A i \in 1..Len(r) : 1 + i \in DOMAIN new
      BY <1>7, <1>10
    <2>2. Typed(new, "thread") = {b[i] : i \in 1..Len(r)}
      BY <1>3, <1>9, <1>10, <1>11, <2>1 DEF Typed, Range
    <2> QED
      BY <1>7, <1>9, <2>2
  <1>14. Busiest(es, Typed(new, "thread"))
    BY <1>6, <1>13, ThreadsBusiest
  <1> QED
    BY <1>3, <1>9, <1>10, <1>11, <1>12, <1>14 DEF FlushOK

\* Every flush of events a ring buffer held is true of them.
LEMMA FlushesTrue ==
  ASSUME NEW p \in ProbeNames, NEW es, DrainOK(p, es), NEW id, NEW new \in Flushes(p, es, id)
  PROVE  FlushOK(p, new)
  <1>0. IsSeq(es)
    BY DEF DrainOK
  <1>1. CASE es = <<>>
    BY <1>1, NothingFlushed DEF Flushes
  <1>2. CASE es # <<>> /\ p = "schedlatency"
    <2>1. new \in SchedFlushes(es, id) /\ SchedSeq(es)
      BY <1>2 DEF Flushes, DrainOK, SchedSeq
    <2> QED
      BY <1>2, <2>1, SchedFlushed
  <1>3. CASE es # <<>> /\ p = "bio"
    <2> DEFINE fields == [stats |-> Stats(es), bytes |-> FoldLeft(LAMBDA n, e : n + e.bytes, 0, es)]
    <2>1. new = <<Metric("bio", id, es, fields)>>
      BY <1>3 DEF Flushes, BioFlush
    <2>2. "stats" \in DOMAIN fields /\ fields.stats = Stats(es)
      OBVIOUS
    <2> HIDE DEF fields
    <2>3. DocOK(Metric("bio", id, es, fields))
      BY <1>3, <2>2, PlainDoc
    <2> QED
      BY <1>3, <2>1, <2>3, OneFlushed, MetricFields
  <1>4. CASE es # <<>> /\ p \in {"gpu_sched", "futex", "gpu_fence"}
    <2> DEFINE fields == [stats |-> Stats(es)]
    <2>1. new = <<Metric(p, id, es, fields)>>
      BY <1>4 DEF Flushes, GpuSchedFlush, FutexFlush, GpuFenceFlush
    <2>2. "stats" \in DOMAIN fields /\ fields.stats = Stats(es)
      OBVIOUS
    <2> HIDE DEF fields
    <2>3. DocOK(Metric(p, id, es, fields))
      BY <1>4, <2>2, PlainDoc
    <2> QED
      BY <1>4, <2>1, <2>3, OneFlushed, MetricFields
  <1>5. CASE es # <<>> /\ p = "irq"
    <2>1. new = <<IrqFlush(es, id)>> /\ DocOK(IrqFlush(es, id))
      BY <1>5, IrqDoc DEF Flushes
    <2>2. IrqFlush(es, id).type = "metric" /\ IrqFlush(es, id).probe = "irq"
      BY MetricFields DEF IrqFlush
    <2> QED
      BY <1>5, <2>1, <2>2, OneFlushed
  <1>6. CASE es # <<>> /\ p = "vfs"
    <2>1. new = <<VfsFlush(es, id)>> /\ DocOK(VfsFlush(es, id))
      BY <1>6, VfsDoc DEF Flushes
    <2>2. VfsFlush(es, id).type = "metric" /\ VfsFlush(es, id).probe = "vfs"
      BY MetricFields DEF VfsFlush
    <2> QED
      BY <1>6, <2>1, <2>2, OneFlushed
  <1>7. CASE es # <<>> /\ p = "mem"
    <2>1. new = <<MemFlush(es, id)>> /\ DocOK(MemFlush(es, id))
      BY <1>0, <1>7, CountingDoc DEF Flushes
    <2>2. MemFlush(es, id).type = "metric" /\ MemFlush(es, id).probe = "mem"
      BY MetricFields DEF MemFlush
    <2> QED
      BY <1>7, <2>1, <2>2, OneFlushed
  <1>8. CASE es # <<>> /\ p = "gpu_submit"
    <2>1. new = <<GpuSubmitFlush(es, id)>> /\ DocOK(GpuSubmitFlush(es, id))
      BY <1>0, <1>8, CountingDoc DEF Flushes
    <2>2. GpuSubmitFlush(es, id).type = "metric" /\ GpuSubmitFlush(es, id).probe = "gpu_submit"
      BY MetricFields DEF GpuSubmitFlush
    <2> QED
      BY <1>8, <2>1, <2>2, OneFlushed
  <1> QED
    BY <1>1, <1>2, <1>3, <1>4, <1>5, <1>6, <1>7, <1>8 DEF ProbeNames

-----------------------------------------------------------------------------
(* The documents of a tick *)

\* While the probes are collected: at most one aggregate of each probe that is through,
\* true of its events.
Gathered ==
    /\ \A i \in DOMAIN docs :
          /\ docs[i].type \in {"metric", "thread"} /\ docs[i].probe \in ProbeNames \ todo
          /\ docs[i].type = "metric" => DocOK(docs[i])
    /\ \A i, j \in DOMAIN docs :
          docs[i].type = "metric" /\ docs[j].type = "metric" /\ docs[i].probe = docs[j].probe => i = j
    /\ \A m \in Sent("metric", "schedlatency") : Busiest(m.events, Sent("thread", "schedlatency"))

DocsInv == (pc = "collect" => Gathered) /\ DocumentsTrue

LEMMA ConcatRange ==
  ASSUME NEW s, IsSeq(s), NEW t, IsSeq(t)
  PROVE  /\ \A k \in DOMAIN (s \o t) :
               (k \in DOMAIN s /\ (s \o t)[k] = s[k]) \/ \E i \in DOMAIN t : k = Len(s) + i /\ (s \o t)[k] = t[i]
         /\ \A x : x \in Range(s \o t) <=> x \in Range(s) \/ x \in Range(t)
  <1> DEFINE u == s \o t
  <1>1. /\ IsSeq(u) /\ Len(u) = Len(s) + Len(t)
        /\ \A i \in 1..Len(s) : u[i] = s[i]
        /\ \A i \in 1..Len(t) : u[Len(s) + i] = t[i]
    BY ConcatIsSeq
  <1> HIDE DEF u
  <1>2. /\ Len(s) \in Nat /\ DOMAIN s = 1..Len(s) /\ Len(t) \in Nat /\ DOMAIN t = 1..Len(t)
        /\ DOMAIN u = 1..Len(u)
    BY <1>1, IsSeqFacts
  <1>3. ASSUME NEW k \in DOMAIN u
        PROVE  (k \in DOMAIN s /\ u[k] = s[k]) \/ \E i \in DOMAIN t : k = Len(s) + i /\ u[k] = t[i]
    <2>1. CASE k <= Len(s)
      BY <1>1, <1>2, <2>1
    <2>2. CASE k > Len(s)
      <3>1. k - Len(s) \in 1..Len(t) /\ k = Len(s) + (k - Len(s))
        BY <1>1, <1>2, <2>2
      <3>2. u[k] = t[k - Len(s)]
        BY <1>1, <3>1
      <3> QED
        BY <1>2, <3>1, <3>2
    <2> QED
      BY <1>2, <2>1, <2>2
  <1>4. ASSUME NEW x PROVE x \in Range(u) <=> x \in Range(s) \/ x \in Range(t)
    <2>1. x \in Range(u) => x \in Range(s) \/ x \in Range(t)
      BY <1>3 DEF Range
    <2>2. x \in Range(s) => x \in Range(u)
      <3>1. \A i \in DOMAIN s : i \in DOMAIN u /\ u[i] = s[i]
        BY <1>1, <1>2
      <3> QED
        BY <3>1 DEF Range
    <2>3. x \in Range(t) => x \in Range(u)
      <3>1. \A i \in DOMAIN t : Len(s) + i \in DOMAIN u /\ u[Len(s) + i] = t[i]
        BY <1>1, <1>2
      <3> QED
        BY <3>1 DEF Range
    <2> QED
      BY <2>1, <2>2, <2>3
  <1> QED
    BY <1>3, <1>4 DEF u

LEMMA GatheredCollect ==
  ASSUME Rings, Timely, Gathered, Collect
  PROVE  Gathered'
  <1>1. \A n \in DOMAIN Candidates : Candidates[n] \in ProbeNames
    BY DEF Candidates, ProbeNames
  <1>2. PICK p \in ProbeNames :
           /\ p \in todo /\ todo' = todo \ {p}
           /\ \E new \in Flushes(p, ring[p], sid) : docs' = docs \o new
    BY <1>1 DEF Collect, Drain
  <1>3. PICK new \in Flushes(p, ring[p], sid) : docs' = docs \o new
    BY <1>2
  <1>4. DrainOK(p, ring[p])
    BY DEF Rings, Timely, DrainOK
  <1>5. FlushOK(p, new)
    BY <1>4, FlushesTrue
  <1>6. IsSeq(docs) /\ IsSeq(new)
    BY <1>5 DEF Rings, DocsOK, FlushOK
  <1>7. /\ \A k \in DOMAIN docs' :
              (k \in DOMAIN docs /\ docs'[k] = docs[k]) \/ \E i \in DOMAIN new : k = Len(docs) + i /\ docs'[k] = new[i]
        /\ \A x : x \in Range(docs') <=> x \in Range(docs) \/ x \in Range(new)
    BY <1>3, <1>6, ConcatRange
  <1>8. \A i \in DOMAIN docs : docs[i].probe # p
    BY <1>2 DEF Gathered
  <1>9. ASSUME NEW k \in DOMAIN docs'
        PROVE  /\ docs'[k].type \in {"metric", "thread"} /\ docs'[k].probe \in ProbeNames \ todo'
               /\ docs'[k].type = "metric" => DocOK(docs'[k])
    <2>1. CASE k \in DOMAIN docs /\ docs'[k] = docs[k]
      BY <1>2, <2>1 DEF Gathered
    <2>2. CASE \E i \in DOMAIN new : docs'[k] = new[i]
      BY <1>2, <1>5, <2>2 DEF FlushOK
    <2> QED
      BY <1>7, <2>1, <2>2
  <1>10. ASSUME NEW k \in DOMAIN docs', NEW l \in DOMAIN docs', docs'[k].type = "metric", docs'[l].type = "metric",
                docs'[k].probe = docs'[l].probe
         PROVE  k = l
    <2>1. CASE k \in DOMAIN docs /\ docs'[k] = docs[k]
      <3>1. docs'[k].probe # p
        BY <1>8, <2>1
      <3>2. l \in DOMAIN docs /\ docs'[l] = docs[l]
        BY <1>5, <1>7, <1>10, <3>1 DEF FlushOK
      <3> QED
        BY <1>10, <2>1, <3>2 DEF Gathered
    <2>2. CASE \E i \in DOMAIN new : k = Len(docs) + i /\ docs'[k] = new[i]
      <3>1. PICK i \in DOMAIN new : k = Len(docs) + i /\ docs'[k] = new[i]
        BY <2>2
      <3>2. i = 1 /\ docs'[l].probe = p
        BY <1>5, <1>10, <3>1 DEF FlushOK
      <3>3. PICK j \in DOMAIN new : l = Len(docs) + j /\ docs'[l] = new[j]
        BY <1>7, <1>8, <3>2
      <3>4. j = 1
        BY <1>5, <1>10, <3>3 DEF FlushOK
      <3> QED
        BY <3>1, <3>2, <3>3, <3>4
    <2> QED
      BY <1>7, <2>1, <2>2
  <1>11. ASSUME NEW m \in Sent("metric", "schedlatency")'
         PROVE  Busiest(m.events, Sent("thread", "schedlatency")')
    <2>1. CASE p = "schedlatency"
      <3>1. \A type : Sent(type, "schedlatency")' = Typed(new, type)
        <4>1. \A x \in Range(docs) : x.probe # "schedlatency"
          BY <1>8, <2>1 DEF Range
        <4>2. \A x \in Range(new) : x.probe = "schedlatency"
          BY <1>5, <2>1 DEF Range, FlushOK
        <4> QED
          BY <1>7, <4>1, <4>2 DEF Sent, Typed
      <3> QED
        BY <1>5, <1>11, <2>1, <3>1 DEF FlushOK
    <2>2. CASE p # "schedlatency"
      <3>1. \A type : Sent(type, "schedlatency")' = Sent(type, "schedlatency")
        <4>1. \A x \in Range(new) : x.probe # "schedlatency"
          BY <1>5, <2>2 DEF Range, FlushOK
        <4> QED
          BY <1>7, <4>1 DEF Sent
      <3> QED
        BY <1>11, <3>1 DEF Gathered
    <2> QED
      BY <2>1, <2>2
  <1> QED
    BY <1>9, <1>10, <1>11 DEF Gathered
\* The documents that spiked are as many as the probes that did.
LEMMA SpikedProbes ==
  ASSUME Rings, Gathered, NEW S, S = {i \in DOMAIN docs : docs[i].type = "metric" /\ Spiked(docs[i])},
         NEW P, P = {p \in Watched : \E d \in Sent("metric", p) : Over(p, d.events)}
  PROVE  Cardinality(S) \in Nat /\ Cardinality(P) = Cardinality(S)
  <1> DEFINE F == [i \in S |-> docs[i].probe]
  <1>1. IsFiniteSet(S) /\ Cardinality(S) \in Nat
    <2>1. Len(docs) \in Nat /\ DOMAIN docs = 1..Len(docs)
      BY IsSeqFacts DEF Rings, DocsOK
    <2>2. IsFiniteSet(DOMAIN docs)
      BY <2>1, FS_Interval
    <2> QED
      BY <2>2, FS_Subset, FS_CardinalityType
  <1>2. ASSUME NEW i \in S PROVE docs[i].probe \in P
    <2>1. docs[i].probe \in Watched /\ Over(docs[i].probe, docs[i].events)
      BY DEF Gathered, DocOK
    <2>2. docs[i] \in Sent("metric", docs[i].probe)
      BY DEF Sent, Range
    <2> QED
      BY <2>1, <2>2
  <1>3. ASSUME NEW p \in P PROVE \E i \in S : docs[i].probe = p
    <2>1. PICK d \in Sent("metric", p) : p \in Watched /\ Over(p, d.events)
      OBVIOUS
    <2>2. PICK i \in DOMAIN docs : docs[i] = d
      BY DEF Sent, Range
    <2>3. docs[i].type = "metric" /\ docs[i].probe = p
      BY <2>1, <2>2 DEF Sent
    <2>4. Spiked(docs[i])
      BY <2>1, <2>2, <2>3 DEF Gathered, DocOK
    <2> QED
      BY <2>3, <2>4
  <1>4. \A i, j \in S : docs[i].probe = docs[j].probe => i = j
    BY DEF Gathered
  <1>5. F \in Bijection(S, P)
    <2>1. F \in [S -> P]
      BY <1>2
    <2>2. \A i, j \in S : F[i] = F[j] => i = j
      BY <1>4
    <2>3. \A p \in P : \E i \in S : F[i] = p
      BY <1>3
    <2> HIDE DEF F
    <2> QED
      BY <2>1, <2>2, <2>3 DEF Bijection, Injection, Surjection, IsInjective
  <1> HIDE DEF F
  <1>6. ExistsBijection(S, P)
    BY <1>5 DEF ExistsBijection
  <1>7. Cardinality(P) = Cardinality(S)
    BY <1>1, <1>6, FS_Bijection
  <1> QED
    BY <1>1, <1>7

LEMMA GatheredQueue ==
  ASSUME Rings, Gathered, Queue, pc' = "flush"
  PROVE  DocumentsTrue'
  <1> DEFINE new == correlate(docs, sid)
             S == {i \in DOMAIN docs : docs[i].type = "metric" /\ Spiked(docs[i])}
             P == {p \in Watched : \E d \in Sent("metric", p) : Over(p, d.events)}
             stutter == "stutter_correlation"
  <1>1. docs' = docs \o new
    BY DEF Queue
  <1>2. Cardinality(S) \in Nat /\ Cardinality(P) = Cardinality(S)
    BY SpikedProbes
  <1>3. \/ Cardinality(S) < 2 /\ new = <<>>
        \/ ~(Cardinality(S) < 2) /\ \E fields : new = <<Metric(stutter, sid, <<>>, fields)>>
    BY DEF correlate
  <1> HIDE DEF new, S
  <1>4. \/ Cardinality(S) < 2 /\ Range(new) = {} /\ IsSeq(new)
        \/ ~(Cardinality(S) < 2) /\ IsSeq(new) /\ \E m : Range(new) = {m} /\ m.type = "metric" /\ m.probe = stutter
    <2>1. CASE Cardinality(S) < 2 /\ new = <<>>
      BY <2>1, EmptyIsSeq, IsSeqFacts DEF Range
    <2>2. CASE ~(Cardinality(S) < 2) /\ \E fields : new = <<Metric(stutter, sid, <<>>, fields)>>
      <3>1. PICK fields : new = <<Metric(stutter, sid, <<>>, fields)>>
        BY <2>2
      <3> DEFINE m == Metric(stutter, sid, <<>>, fields)
      <3>2. m.type = "metric" /\ m.probe = stutter
        BY MetricFields
      <3> HIDE DEF m
      <3>3. new = <<m>> /\ IsSeq(new) /\ Range(new) = {m}
        <4>1. new = <<m>>
          BY <3>1 DEF m
        <4>2. IsSeq(<<m>>) /\ DOMAIN <<m>> = {1} /\ <<m>>[1] = m
          BY SingleIsSeq
        <4> QED
          BY <4>1, <4>2 DEF Range
      <3> QED
        BY <2>2, <3>2, <3>3
    <2> QED
      BY <1>3, <2>1, <2>2
  <1>5. \A x : x \in Range(docs') <=> x \in Range(docs) \/ x \in Range(new)
    BY <1>1, <1>4, ConcatRange DEF Rings, DocsOK
  <1>6. \A x \in Range(docs) : /\ x.type = "metric" => DocOK(x)
                               /\ x.probe \in ProbeNames
    BY DEF Range, Gathered
  <1>7. stutter \notin ProbeNames /\ Watched \subseteq ProbeNames /\ "schedlatency" \in ProbeNames
    BY DEF ProbeNames, Watched
  <1>8. ASSUME NEW p \in ProbeNames, NEW type PROVE Sent(type, p)' = Sent(type, p)
    BY <1>4, <1>5, <1>7 DEF Sent
  <1>9. Sent("metric", stutter)' # {} <=> ~(Cardinality(S) < 2)
    <2>1. Sent("metric", stutter)' = Range(new)
      BY <1>4, <1>5, <1>6, <1>7 DEF Sent
    <2> QED
      BY <1>4, <2>1
  <1>10. SnapshotsTrue'
    <2> SUFFICES ASSUME NEW d \in Range(docs'), d.type = "metric", NEW pair \in StatsOf(d)
                 PROVE  StatsTrue(pair[1], pair[2])
      BY DEF SnapshotsTrue
    <2>1. CASE d \in Range(docs)
      BY <1>6, <2>1 DEF DocOK
    <2>2. CASE d \in Range(new)
      <3>1. d.probe = stutter
        BY <1>4, <2>2
      <3>2. StatsOf(d) = {}
        BY <3>1 DEF StatsOf
      <3> QED
        BY <3>2
    <2> QED
      BY <1>5, <2>1, <2>2
  <1>11. BusiestThreads'
    BY <1>7, <1>8 DEF BusiestThreads, Gathered
  <1>12. StutterMeansTwo'
    <2> DEFINE Q == {p \in {"schedlatency", "bio", "gpu_sched", "mem"} : \E d \in Sent("metric", p)' : Over(p, d.events)}
    <2>1. Q = P
      BY <1>7, <1>8 DEF Watched
    <2> HIDE DEF P
    <2>2. Cardinality(Q) >= 2 <=> ~(Cardinality(S) < 2)
      BY <1>2, <2>1
    <2>3. Sent("metric", "stutter_correlation")' # {} <=> Cardinality(Q) >= 2
      BY <1>9, <2>2
    <2> QED
      BY <2>3 DEF StutterMeansTwo
  <1> QED
    BY <1>10, <1>11, <1>12 DEF DocumentsTrue

LEMMA NotFlushing ==
  ASSUME pc # "flush"
  PROVE  DocumentsTrue
  BY DEF DocumentsTrue, SnapshotsTrue, BusiestThreads, StutterMeansTwo

LEMMA DocsNext == DocsInv /\ Rings /\ Timely /\ [Next]_vars => DocsInv'
  <1> SUFFICES ASSUME DocsInv, Rings, Timely, [Next]_vars PROVE DocsInv'
      OBVIOUS
  <1>0. pc' # "flush" => DocumentsTrue'
    BY DEF DocumentsTrue, SnapshotsTrue, BusiestThreads, StutterMeansTwo
  <1>1. CASE Collect
    <2>1. pc = "collect" /\ pc' = "collect"
      BY <1>1 DEF Collect
    <2>2. Gathered'
      BY <1>1, <2>1, GatheredCollect DEF DocsInv
    <2> QED
      BY <1>0, <2>1, <2>2 DEF DocsInv
  <1>2. CASE Queue
    <2>1. pc = "collect" /\ pc' \in {"select", "flush"}
      BY <1>2 DEF Queue
    <2>2. pc' = "flush" => DocumentsTrue'
      BY <1>2, <2>1, GatheredQueue DEF DocsInv
    <2> QED
      BY <1>0, <2>1, <2>2 DEF DocsInv
  <1>3. CASE Tick /\ pc' = "collect"
    <2>1. docs' = <<>>
      BY <1>3 DEF Tick, Selecting
    <2>2. DOMAIN docs' = {} /\ Range(docs') = {}
      BY <2>1, EmptyIsSeq, IsSeqFacts DEF Range
    <2>3. Gathered'
      BY <2>2 DEF Gathered, Sent
    <2> QED
      BY <1>0, <1>3, <2>3 DEF DocsInv
  <1>4. CASE pc' \notin {"collect", "flush"}
    BY <1>0, <1>4 DEF DocsInv
  <1>5. CASE UNCHANGED <<pc, docs, todo>>
    BY <1>5 DEF DocsInv, Gathered, DocumentsTrue, SnapshotsTrue, BusiestThreads, StutterMeansTwo, Sent
  <1> QED
    <2>1. CASE Kernel
      BY <1>5, <2>1, KernelShape DEF tick
    <2>2. CASE ~Kernel
      <3>1. \/ Collect \/ Queue \/ (Tick /\ pc' = "collect") \/ pc' \notin {"collect", "flush"}
            \/ UNCHANGED <<pc, docs, todo>>
        BY <2>2 DEF Next, Daemon, Loop, vars, Load, Connect, Detach, Seed, UpdateStep, Flush, Tick,
           SessionChange, Shutdown, Signal, WatcherPublishes, tick
      <3> QED
        BY <1>1, <1>2, <1>3, <1>4, <1>5, <3>1
    <2> QED
      BY <2>1, <2>2

\* The flush functions, record_ns, the ranking of threads and correlate, for any events of
\* any interval: the count, the extremes, the slow calls and every bucket that a document
\* reports are those of the events it was made from; the thread documents are the busiest
\* threads in order; and there is a stutter document exactly when two or more probes saw an
\* event over the threshold, or a reclaim.
THEOREM DocumentsRight == Spec => []DocumentsTrue
  <1> DEFINE Inv == Daemonic /\ Timely /\ DocsInv
  <1>1. Init => Inv
    <2> SUFFICES ASSUME Init PROVE Inv
      OBVIOUS
    <2>1. Daemonic
      BY RingsInit, MapsInit, LossesInit, FilterInit DEF Daemonic
    <2>2. pc = "start"
      BY DEF Init
    <2> QED
      BY <2>1, <2>2, TimelyInit, NotFlushing DEF DocsInv
  <1>2. Inv /\ [Next]_vars => Inv'
    BY DaemonicNext, TimelyNext, DocsNext DEF Daemonic
  <1>3. Inv => DocumentsTrue
    BY DEF DocsInv
  <1> QED
    BY <1>1, <1>2, <1>3, PTL DEF Spec
=============================================================================
