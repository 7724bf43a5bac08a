----------------------------- MODULE CliProofs -----------------------------
(***************************************************************************)
(* Proofs about Cli: the handshake probe, the display detector, the boot   *)
(* detector's journals and the envelope of a diagnosis, for all constants  *)
(* that satisfy the named assumptions.                                     *)
(*                                                                         *)
(* The probe has an invariant that says, stage by stage, what was asked    *)
(* and answered (ProbeInv).  The display detector is a loop over the lines *)
(* of modes.cfg, in the model a recursive function on 0..Len(cfg); what it *)
(* computes is proved by induction on the lines read (JudgedRight).  The   *)
(* induction principle itself, UpTo, comes from the least element of a set *)
(* of numbers, so that no operator has to be instantiated.                 *)
(*                                                                         *)
(* The journals of the boot detector go through five loops (Among, Lines,  *)
(* UniqueTail, stable_merge, timestamps_regress).  Each is first turned    *)
(* into equations between its turns (the ...Unfolds lemmas, by Recursion); *)
(* what it keeps, counts or orders is then an induction over the turns.    *)
(***************************************************************************)
EXTENDS Cli, SequenceTheorems, FiniteSetTheorems, WellFoundedInduction,
        NaturalsInduction, TLAPS

-----------------------------------------------------------------------------
(* Induction *)

\* A set of numbers that is not empty has a least element.
LEMMA Least ==
  ASSUME NEW T, T \subseteq Nat, T # {}
  PROVE  \E m \in T : \A k \in T : m <= k
<1>1. \E x \in T : \A y \in T : ~(<<y, x>> \in OpToRel(<, Nat))
  BY NatLessThanWellFounded, WFMin
<1>2. PICK x \in T : \A y \in T : ~(<<y, x>> \in OpToRel(<, Nat))
  BY <1>1
<1>3. ASSUME NEW y \in T PROVE x <= y
  <2>1. SUFFICES ASSUME y < x PROVE FALSE
    OBVIOUS
  <2>2. <<y, x>> \in Nat \X Nat /\ <<y, x>>[1] = y /\ <<y, x>>[2] = x
    OBVIOUS
  <2>3. <<y, x>> \in OpToRel(<, Nat)
    BY <2>1, <2>2 DEF OpToRel
  <2> QED
    BY <1>2, <2>3
<1> QED
  BY <1>3

\* Induction over the natural numbers up to a bound, for a set.
LEMMA UpTo ==
  ASSUME NEW N \in Nat, NEW S, 0 \in S, \A k \in 0..(N - 1) : k \in S => k + 1 \in S
  PROVE  0..N \subseteq S
<1> DEFINE T == {k \in 0..N : k \notin S}
<1> SUFFICES ASSUME T # {} PROVE FALSE
    OBVIOUS
<1>1. T \subseteq Nat
  OBVIOUS
<1>2. PICK m \in T : \A k \in T : m <= k
  BY <1>1, Least
<1>3. m \in 0..N /\ m \notin S /\ m # 0
  BY <1>2
<1>4. m - 1 \in 0..(N - 1) /\ m - 1 \in S
  BY <1>2, <1>3
<1> QED
  BY <1>3, <1>4

-----------------------------------------------------------------------------
(* The affinity and the answers *)

\* affinity_pair: a pair that is not refused names its uuid, else its word "pending".
LEMMA PairAgrees ==
  ASSUME NEW p, affinity_pair(p.uuid, p.pending) # "bad"
  PROVE  affinity_pair(p.uuid, p.pending)
            = IF p.uuid # None THEN p.uuid ELSE IF p.pending # None THEN "pending" ELSE None
BY HandshakeAssumptions DEF affinity_pair

\* The affinity that preflight resolves is the word of the highest tier.
LEMMA ResolvedExpected ==
  ASSUME NEW i, PreflightOk(i)
  PROVE  Expected(i) = resolve_affinity(i)
<1> DEFINE Pair(p) == IF p.uuid # None THEN p.uuid ELSE IF p.pending # None THEN "pending" ELSE None
           A(p) == affinity_pair(p.uuid, p.pending)
           tiers == <<Pair(i.flag), Pair(i.env), i.policy, Pair(i.file)>>
           Top(n) == tiers[n] # None /\ \A m \in DOMAIN tiers : m < n => tiers[m] = None
<1>0. Expected(i) = tiers[CHOOSE n \in DOMAIN tiers : Top(n)] /\ DOMAIN tiers = 1..4
      /\ tiers[1] = Pair(i.flag) /\ tiers[2] = Pair(i.env) /\ tiers[3] = i.policy
      /\ tiers[4] = Pair(i.file)
  BY DEF Expected
<1>1. resolve_affinity(i) =
         IF A(i.flag) # None THEN A(i.flag) ELSE IF A(i.env) # None THEN A(i.env)
         ELSE IF A(i.file) = "bad" THEN "bad" ELSE First(<<i.policy, A(i.file)>>)
  BY DEF resolve_affinity
<1>2. resolve_affinity(i) \notin {None, "bad"}
  BY DEF PreflightOk
<1>3. /\ A(i.flag) # "bad" => A(i.flag) = Pair(i.flag)
      /\ A(i.env) # "bad" => A(i.env) = Pair(i.env)
      /\ A(i.file) # "bad" => A(i.file) = Pair(i.file)
  BY PairAgrees
<1>4. None # "bad"
  BY HandshakeAssumptions
<1> HIDE DEF Pair, A, tiers
<1>5. ASSUME NEW n \in 1..4, Top(n) PROVE Expected(i) = tiers[n]
  <2>1. \A m \in 1..4 : Top(m) => m = n
    BY <1>0, <1>5
  <2> QED
    BY <1>0, <1>5, <2>1
<1>6. CASE A(i.flag) # None
  BY <1>0, <1>1, <1>2, <1>3, <1>5, <1>6
<1>7. CASE A(i.flag) = None /\ A(i.env) # None
  BY <1>0, <1>1, <1>2, <1>3, <1>4, <1>5, <1>7
<1>8. CASE A(i.flag) = None /\ A(i.env) = None
  <2>1. /\ resolve_affinity(i) = First(<<i.policy, A(i.file)>>) /\ A(i.file) = Pair(i.file)
        /\ Pair(i.flag) = None /\ Pair(i.env) = None
    BY <1>1, <1>2, <1>3, <1>4, <1>8
  <2> DEFINE two == <<i.policy, A(i.file)>>
             First2(k) == two[k] # None /\ \A j \in 1..(k - 1) : two[j] = None
  <2>2. DOMAIN two = 1..2 /\ two[1] = i.policy /\ two[2] = A(i.file)
    OBVIOUS
  <2>3. First(two) = IF \A k \in DOMAIN two : two[k] = None THEN None
                     ELSE two[CHOOSE k \in DOMAIN two : First2(k)]
    BY DEF First
  <2>4. ASSUME NEW k \in 1..2, First2(k) PROVE First(two) = two[k]
    <3>1. \A j \in 1..2 : First2(j) => j = k
      BY <2>2, <2>4
    <3> QED
      BY <2>2, <2>3, <2>4, <3>1
  <2>5. CASE i.policy # None
    <3>1. First2(1) /\ Top(3)
      BY <1>0, <2>1, <2>2, <2>5
    <3> QED
      BY <1>0, <1>5, <2>1, <2>2, <2>4, <3>1
  <2>6. CASE i.policy = None /\ A(i.file) # None
    <3>1. First2(2) /\ Top(4)
      BY <1>0, <2>1, <2>2, <2>6
    <3> QED
      BY <1>0, <1>5, <2>1, <2>2, <2>4, <3>1
  <2>7. CASE i.policy = None /\ A(i.file) = None
    BY <1>2, <2>1, <2>2, <2>3, <2>7
  <2> QED
    BY <2>5, <2>6, <2>7
<1> QED
  BY <1>6, <1>7, <1>8

\* classify_http: what is not well is one of the reasons an exit code stands for.
LEMMA ReasonsOfAnswers ==
  ASSUME NEW a, NEW at \in {"root", "template", "mapping"}, classify_http(a, at) # "ok"
  PROVE  classify_http(a, at) \in Reasons
<1>1. ASSUME NEW s PROVE status_reason(s, at) \in Reasons
  BY DEF status_reason, Reasons
<1> QED
  BY <1>1 DEF classify_http, Reasons

\* An answer that is well came before the deadline.
LEMMA OkInTime ==
  ASSUME NEW a \in Answers, NEW at \in {"root", "template", "mapping"}, classify_http(a, at) = "ok"
  PROVE  ~late
<1>1. ASSUME NEW s PROVE status_reason(s, at) # "ok"
  BY DEF status_reason
<1>2. a.status # None
  BY <1>1 DEF classify_http
<1> QED
  BY <1>2 DEF Answers

-----------------------------------------------------------------------------
(* The probe *)

Step == <<"root", "template", "mapping">>
Servers == [uuid : Uuids, versions : VersionLists]
Asks == [at : {"root", "template", "mapping"}, ok : BOOLEAN, uuid : Uuids, late : BOOLEAN]

\* The first n requests were asked in their order and answered well and in
\* time, the first by a cluster the resolved affinity admits.
Asked(n) ==
    /\ Len(sent) = n
    /\ \A i \in 1..n : sent[i].at = Step[i] /\ sent[i].ok /\ ~sent[i].late
    /\ n > 0 => observed = sent[1].uuid /\ affinity \in {"pending", sent[1].uuid}

Prepared == affinity = Expected(input)
Readable == digest \in SUBSET (1..9) /\ Schema \in digest

ProbeTypes ==
    /\ stage \in {"local", "root", "template", "mapping", "done"}
    /\ sent \in Seq(Asks) /\ late \in BOOLEAN
    /\ call.cmd = "handshake" => server \in Servers
    /\ observed \in Uuids \cup {None} /\ digest \in (SUBSET (1..9)) \cup {None}

\* A report that is no failure rests on all that the probe saw.
Agreed ==
    /\ Asked(3) /\ Prepared /\ Readable
    /\ report.uuid = observed /\ report.digest = digest
    /\ report.outcome = IF affinity = "pending" THEN "pending_enrollment" ELSE "ready"

Reported ==
    /\ report \in Reports
    /\ report.stage = "local" => sent = <<>>
    /\ Len(sent) > 1 => affinity \in {"pending", sent[1].uuid}
    /\ report.outcome # "failed" => Agreed

\* The invariant, stage by stage.
ProbeInv ==
    /\ ProbeTypes
    /\ IF stage = "done" THEN Reported ELSE report = None
    /\ stage = "local" => sent = <<>>
    /\ stage = "root" => Asked(0) /\ Prepared
    /\ stage = "template" => Asked(1) /\ Prepared
    /\ stage = "mapping" => Asked(2) /\ Prepared /\ Readable

\* A failure is a report of the stage it happened at.
LEMMA FailureReport ==
  ASSUME NEW r \in Reasons, NEW at \in {"local", "root", "template", "mapping"},
         NEW u \in Uuids \cup {None}, NEW d \in (SUBSET (1..9)) \cup {None}
  PROVE  /\ Failure(r, at, u, d) \in Reports
         /\ Failure(r, at, u, d).stage = at /\ Failure(r, at, u, d).outcome = "failed"
BY DEF Failure, Reports

\* Nothing is asked before the preflight has resolved the affinity.
LEMMA PreflightInv == ProbeInv /\ Preflight /\ UNCHANGED call => ProbeInv'
<1> SUFFICES ASSUME ProbeInv, Preflight, UNCHANGED call PROVE ProbeInv'
    OBVIOUS
<1>1. stage = "local" /\ sent = <<>> /\ report = None
  BY DEF Preflight, ProbeInv
<1>2. ProbeTypes'
  BY DEF Preflight, Ends, ProbeInv, ProbeTypes
<1>3. CASE PreflightOk(input)
  <2>1. stage' = "root" /\ report' = None /\ affinity' = Expected(input) /\ input' = input /\ sent' = <<>>
    BY <1>1, <1>3, ResolvedExpected DEF Preflight
  <2>2. Prepared' /\ Asked(0)'
    BY <2>1 DEF Prepared, Expected, Asked
  <2> QED
    BY <1>2, <2>1, <2>2 DEF ProbeInv
<1>4. CASE ~PreflightOk(input)
  <2>1. stage' = "done" /\ report' = Failure("local_config", "local", None, None) /\ sent' = <<>>
    BY <1>1, <1>4 DEF Preflight, Ends
  <2>2. report' \in Reports /\ report'.outcome = "failed"
    BY <2>1 DEF Failure, Reports, Reasons
  <2>3. Reported'
    BY <2>1, <2>2 DEF Reported
  <2> QED
    BY <1>2, <2>1, <2>3 DEF ProbeInv
<1> QED
  BY <1>3, <1>4

\* What an exchange leaves: one more answer, and a failure of the stage where
\* the answer is refused.
LEMMA ExchangeLeaves ==
  ASSUME ProbeInv, call.cmd = "handshake", UNCHANGED call,
         NEW at \in {"root", "template", "mapping"}, NEW a \in Answers, NEW ask,
         stage = at, UNCHANGED <<input, late, server, changes>>,
         ask = [at |-> at, ok |-> classify_http(a, at) = "ok", uuid |-> server.uuid, late |-> late],
         sent' = Append(sent, ask)
  PROVE  /\ ask \in Asks /\ sent' \in Seq(Asks) /\ Len(sent') = Len(sent) + 1
         /\ \A i \in 1..Len(sent) : sent'[i] = sent[i]
         /\ sent'[Len(sent) + 1] = ask
         /\ classify_http(a, at) = "ok" => ask.ok /\ ~ask.late
         /\ server.uuid \in Uuids /\ late' \in BOOLEAN
         /\ call'.cmd = "handshake" => server' \in Servers
<1>1. (classify_http(a, at) = "ok") \in BOOLEAN /\ late \in BOOLEAN
  BY Zenon DEF ProbeInv, ProbeTypes
<1>2. server \in Servers /\ server.uuid \in Uuids /\ sent \in Seq(Asks)
  BY DEF ProbeInv, ProbeTypes, Servers
<1>3. ask \in Asks
  BY <1>1, <1>2 DEF Asks
<1>4. /\ sent' \in Seq(Asks) /\ Len(sent') = Len(sent) + 1
      /\ \A i \in 1..Len(sent) : sent'[i] = sent[i]
      /\ sent'[Len(sent) + 1] = ask
  BY <1>2, <1>3
<1>5. classify_http(a, at) = "ok" => ~late
  BY OkInTime
<1>6. classify_http(a, at) = "ok" => ask.ok /\ ~ask.late
  BY <1>5
<1>7. late' \in BOOLEAN /\ (call'.cmd = "handshake" => server' \in Servers)
  BY <1>1, <1>2
<1> QED
  BY <1>2, <1>3, <1>4, <1>6, <1>7

\* An exchange that ends the probe with a failure keeps the invariant.
LEMMA FailedExchange ==
  ASSUME ProbeInv, stage \in {"root", "template", "mapping"},
         ProbeTypes', Len(sent') = Len(sent) + 1, \A i \in 1..Len(sent) : sent'[i] = sent[i],
         UNCHANGED affinity, stage' = "done",
         stage = "root" \/ sent'[1] = sent[1],
         NEW r \in Reasons, NEW u \in Uuids \cup {None}, NEW d \in (SUBSET (1..9)) \cup {None},
         report' = Failure(r, stage, u, d)
  PROVE  ProbeInv'
<1>1. /\ report' \in Reports /\ report'.outcome = "failed" /\ report'.stage # "local"
  BY FailureReport
<1>2. Len(sent') > 1 => affinity' \in {"pending", sent'[1].uuid}
  <2>1. CASE stage = "root"
    <3>1. Len(sent) = 0
      BY <2>1 DEF ProbeInv, Asked
    <3> QED
      BY <3>1
  <2>2. CASE stage \in {"template", "mapping"}
    <3>1. affinity \in {"pending", sent[1].uuid}
      BY <2>2 DEF ProbeInv, Asked
    <3> QED
      BY <2>2, <3>1
  <2> QED
    BY <2>1, <2>2
<1>3. Reported'
  BY <1>1, <1>2 DEF Reported
<1> QED
  BY <1>3 DEF ProbeInv

\* The first request: the cluster and its uuid, compared with the affinity.
LEMMA RootInv == ProbeInv /\ Root /\ call.cmd = "handshake" /\ UNCHANGED call => ProbeInv'
<1> SUFFICES ASSUME ProbeInv, Root, call.cmd = "handshake", UNCHANGED call PROVE ProbeInv'
    OBVIOUS
<1>1. PICK a \in Answers : Exchange("root", a, RootReads(a))
  BY DEF Root
<1> DEFINE ask == [at |-> "root", ok |-> classify_http(a, "root") = "ok", uuid |-> server.uuid,
                   late |-> late]
<1>2. /\ stage = "root" /\ sent' = Append(sent, ask) /\ UNCHANGED <<input, late, server, changes>>
      /\ IF classify_http(a, "root") # "ok"
         THEN Ends(Failure(classify_http(a, "root"), "root", observed, digest)) /\ UNCHANGED read
         ELSE RootReads(a)
  BY <1>1 DEF Exchange
<1>3. /\ sent' \in Seq(Asks) /\ Len(sent') = Len(sent) + 1
      /\ \A i \in 1..Len(sent) : sent'[i] = sent[i]
      /\ sent'[Len(sent) + 1] = ask
      /\ classify_http(a, "root") = "ok" => ask.ok /\ ~ask.late
      /\ server.uuid \in Uuids /\ late' \in BOOLEAN
      /\ call'.cmd = "handshake" => server' \in Servers
  BY <1>2, ExchangeLeaves
<1>4. /\ Len(sent) = 0 /\ Prepared /\ report = None
      /\ observed \in Uuids \cup {None} /\ digest \in (SUBSET (1..9)) \cup {None}
      /\ stage \in {"root", "template", "mapping"}
  BY <1>2 DEF ProbeInv, Asked, ProbeTypes
<1>5. CASE classify_http(a, "root") # "ok"
  <2>1. /\ stage' = "done" /\ report' = Failure(classify_http(a, "root"), stage, observed, digest)
        /\ UNCHANGED <<affinity, observed, digest>>
    BY <1>2, <1>5 DEF Ends, read
  <2>2. ProbeTypes'
    BY <1>3, <1>4, <2>1 DEF ProbeTypes
  <2>3. classify_http(a, "root") \in Reasons
    BY <1>5, ReasonsOfAnswers
  <2> QED
    BY <1>2, <1>3, <1>4, <2>1, <2>2, <2>3, FailedExchange
<1>6. CASE classify_http(a, "root") = "ok" /\ ~Parsed(a, "root")
  <2>1. /\ stage' = "done" /\ report' = Failure("compatibility", stage, None, None)
        /\ UNCHANGED <<affinity, observed, digest>>
    BY <1>2, <1>6 DEF RootReads, Ends, read
  <2>2. ProbeTypes'
    BY <1>3, <1>4, <2>1 DEF ProbeTypes
  <2>3. "compatibility" \in Reasons
    BY DEF Reasons
  <2> QED
    BY <1>2, <1>3, <1>4, <2>1, <2>2, <2>3, FailedExchange
<1>7. CASE classify_http(a, "root") = "ok" /\ Parsed(a, "root") /\ affinity \notin {"pending", server.uuid}
  <2>1. /\ stage' = "done" /\ report' = Failure("destination", stage, server.uuid, None)
        /\ UNCHANGED <<affinity, digest>> /\ observed' = server.uuid
    BY <1>2, <1>7 DEF RootReads, Ends
  <2>2. ProbeTypes'
    BY <1>3, <1>4, <2>1 DEF ProbeTypes
  <2>3. "destination" \in Reasons
    BY DEF Reasons
  <2> QED
    BY <1>2, <1>3, <1>4, <2>1, <2>2, <2>3, FailedExchange
<1>8. CASE classify_http(a, "root") = "ok" /\ Parsed(a, "root") /\ affinity \in {"pending", server.uuid}
  <2>1. /\ stage' = "template" /\ report' = None
        /\ UNCHANGED <<affinity, digest, input>> /\ observed' = server.uuid
    BY <1>2, <1>4, <1>8 DEF RootReads
  <2>2. ProbeTypes'
    BY <1>3, <1>4, <2>1 DEF ProbeTypes
  <2>3. Prepared'
    BY <1>4, <2>1 DEF Prepared, Expected
  <2>4. /\ Len(sent') = 1 /\ sent'[1] = ask /\ ask.at = Step[1] /\ ask.ok /\ ~ask.late
        /\ ask.uuid = server.uuid
    BY <1>3, <1>4, <1>8 DEF Step
  <2> HIDE DEF ask
  <2>5. Asked(1)'
    BY <1>8, <2>1, <2>4 DEF Asked
  <2> QED
    BY <2>1, <2>2, <2>3, <2>5 DEF ProbeInv
<1> QED
  BY <1>5, <1>6, <1>7, <1>8

\* The second request: the schema versions the template accepts.
LEMMA TemplateInv == ProbeInv /\ Template /\ call.cmd = "handshake" /\ UNCHANGED call => ProbeInv'
<1> SUFFICES ASSUME ProbeInv, Template, call.cmd = "handshake", UNCHANGED call PROVE ProbeInv'
    OBVIOUS
<1>1. PICK a \in Answers : Exchange("template", a, TemplateReads(a))
  BY DEF Template
<1> DEFINE ask == [at |-> "template", ok |-> classify_http(a, "template") = "ok",
                   uuid |-> server.uuid, late |-> late]
           set == IF Parsed(a, "template") THEN AcceptedSet(server.versions) ELSE None
<1>2. /\ stage = "template" /\ sent' = Append(sent, ask) /\ UNCHANGED <<input, late, server, changes>>
      /\ IF classify_http(a, "template") # "ok"
         THEN Ends(Failure(classify_http(a, "template"), "template", observed, digest)) /\ UNCHANGED read
         ELSE TemplateReads(a)
  BY <1>1 DEF Exchange
<1>3. /\ sent' \in Seq(Asks) /\ Len(sent') = Len(sent) + 1
      /\ \A i \in 1..Len(sent) : sent'[i] = sent[i]
      /\ sent'[Len(sent) + 1] = ask
      /\ classify_http(a, "template") = "ok" => ask.ok /\ ~ask.late
      /\ server.uuid \in Uuids /\ late' \in BOOLEAN
      /\ call'.cmd = "handshake" => server' \in Servers
  BY <1>2, ExchangeLeaves
<1>4. /\ Asked(1) /\ Len(sent) = 1 /\ Prepared /\ report = None
      /\ observed \in Uuids \cup {None} /\ digest \in (SUBSET (1..9)) \cup {None}
      /\ stage \in {"root", "template", "mapping"}
  BY <1>2 DEF ProbeInv, Asked, ProbeTypes
<1>a. set \in (SUBSET (1..9)) \cup {None}
  BY DEF AcceptedSet, valid_version
<1>b. sent'[1] = sent[1]
  BY <1>3, <1>4
<1>5. CASE classify_http(a, "template") # "ok"
  <2>1. /\ stage' = "done" /\ report' = Failure(classify_http(a, "template"), stage, observed, digest)
        /\ UNCHANGED <<affinity, observed, digest>>
    BY <1>2, <1>5 DEF Ends, read
  <2>2. ProbeTypes'
    BY <1>3, <1>4, <2>1 DEF ProbeTypes
  <2>3. classify_http(a, "template") \in Reasons
    BY <1>5, ReasonsOfAnswers
  <2> QED
    BY <1>2, <1>3, <1>4, <1>b, <2>1, <2>2, <2>3, FailedExchange
<1>6. CASE classify_http(a, "template") = "ok" /\ (set = None \/ Schema \notin set)
  <2>1. /\ stage' = "done" /\ report' = Failure("compatibility", stage, observed, set)
        /\ UNCHANGED <<affinity, observed>> /\ digest' = set
    BY <1>2, <1>6 DEF TemplateReads, Ends
  <2>2. ProbeTypes'
    BY <1>3, <1>4, <1>a, <2>1 DEF ProbeTypes
  <2>3. "compatibility" \in Reasons
    BY DEF Reasons
  <2> HIDE DEF set
  <2> QED
    BY <1>2, <1>3, <1>4, <1>a, <1>b, <2>1, <2>2, <2>3, FailedExchange
<1>7. CASE classify_http(a, "template") = "ok" /\ ~(set = None \/ Schema \notin set)
  <2>1. /\ stage' = "mapping" /\ report' = None
        /\ UNCHANGED <<affinity, observed, input>> /\ digest' = set
    BY <1>2, <1>4, <1>7 DEF TemplateReads
  <2> HIDE DEF set
  <2>2. ProbeTypes'
    BY <1>3, <1>4, <1>a, <2>1 DEF ProbeTypes
  <2>3. Prepared' /\ Readable'
    BY <1>4, <1>7, <1>a, <2>1 DEF Prepared, Expected, Readable
  <2>4. Asked(2)'
    BY <1>3, <1>4, <1>7, <1>b, <2>1 DEF Asked, Step
  <2> QED
    BY <2>1, <2>2, <2>3, <2>4 DEF ProbeInv
<1> QED
  BY <1>5, <1>6, <1>7

\* The third request, after which the probe reports.
LEMMA MappingInv == ProbeInv /\ Mapping /\ call.cmd = "handshake" /\ UNCHANGED call => ProbeInv'
<1> SUFFICES ASSUME ProbeInv, Mapping, call.cmd = "handshake", UNCHANGED call PROVE ProbeInv'
    OBVIOUS
<1>1. PICK a \in Answers : Exchange("mapping", a, MappingReads(a))
  BY DEF Mapping
<1> DEFINE ask == [at |-> "mapping", ok |-> classify_http(a, "mapping") = "ok",
                   uuid |-> server.uuid, late |-> late]
<1>2. /\ stage = "mapping" /\ sent' = Append(sent, ask) /\ UNCHANGED <<input, late, server, changes>>
      /\ IF classify_http(a, "mapping") # "ok"
         THEN Ends(Failure(classify_http(a, "mapping"), "mapping", observed, digest)) /\ UNCHANGED read
         ELSE MappingReads(a)
  BY <1>1 DEF Exchange
<1>3. /\ sent' \in Seq(Asks) /\ Len(sent') = Len(sent) + 1
      /\ \A i \in 1..Len(sent) : sent'[i] = sent[i]
      /\ sent'[Len(sent) + 1] = ask
      /\ classify_http(a, "mapping") = "ok" => ask.ok /\ ~ask.late
      /\ server.uuid \in Uuids /\ late' \in BOOLEAN
      /\ call'.cmd = "handshake" => server' \in Servers
  BY <1>2, ExchangeLeaves
<1>4. /\ Asked(2) /\ Len(sent) = 2 /\ Prepared /\ Readable /\ report = None
      /\ observed \in Uuids \cup {None} /\ digest \in (SUBSET (1..9)) \cup {None}
      /\ stage \in {"root", "template", "mapping"}
  BY <1>2 DEF ProbeInv, Asked, ProbeTypes
<1>5. UNCHANGED <<affinity, observed, digest, input>> /\ stage' = "done"
  BY <1>2 DEF MappingReads, Ends, read
<1>6. ProbeTypes'
  BY <1>3, <1>4, <1>5 DEF ProbeTypes
<1>7. sent'[1] = sent[1]
  BY <1>3, <1>4
<1>8. CASE classify_http(a, "mapping") # "ok"
  <2>1. report' = Failure(classify_http(a, "mapping"), stage, observed, digest)
    BY <1>2, <1>8 DEF Ends
  <2>2. classify_http(a, "mapping") \in Reasons
    BY <1>8, ReasonsOfAnswers
  <2> QED
    BY <1>2, <1>3, <1>4, <1>5, <1>6, <1>7, <2>1, <2>2, FailedExchange
<1>9. CASE classify_http(a, "mapping") = "ok" /\ ~Parsed(a, "mapping")
  <2>1. report' = Failure("compatibility", stage, observed, digest)
    BY <1>2, <1>9 DEF MappingReads, Ends
  <2>2. "compatibility" \in Reasons
    BY DEF Reasons
  <2> QED
    BY <1>2, <1>3, <1>4, <1>5, <1>6, <1>7, <2>1, <2>2, FailedExchange
<1>10. CASE classify_http(a, "mapping") = "ok" /\ Parsed(a, "mapping")
  <2>1. report' = Success(affinity = "pending", observed, digest)
    BY <1>2, <1>10 DEF MappingReads, Ends
  <2>2. /\ report' \in Reports /\ report'.stage = "none"
        /\ report'.uuid = observed /\ report'.digest = digest
        /\ report'.outcome = IF affinity = "pending" THEN "pending_enrollment" ELSE "ready"
    BY <1>4, <2>1 DEF Success, Reports, Reasons
  <2>3. Prepared' /\ Readable'
    BY <1>4, <1>5 DEF Prepared, Readable, Expected
  <2>4. /\ Len(sent') = 3 /\ sent'[3] = ask /\ ask.at = Step[3] /\ ask.ok /\ ~ask.late
    BY <1>3, <1>4, <1>10 DEF Step
  <2>5. /\ sent'[2] = sent[2] /\ observed = sent[1].uuid /\ affinity \in {"pending", sent[1].uuid}
        /\ \A i \in 1..2 : sent[i].at = Step[i] /\ sent[i].ok /\ ~sent[i].late
    BY <1>3, <1>4 DEF Asked
  <2> HIDE DEF ask
  <2>6. Asked(3)'
    BY <1>5, <1>7, <2>4, <2>5 DEF Asked
  <2>7. Reported'
    BY <1>5, <1>7, <2>2, <2>3, <2>5, <2>6 DEF Reported, Agreed
  <2> QED
    BY <1>5, <1>6, <2>7 DEF ProbeInv
<1> QED
  BY <1>8, <1>9, <1>10

\* What ProbeInv says of the probe alone does not change with these.
LEMMA ProbeUnmoved ==
  ASSUME ProbeInv, ProbeTypes', UNCHANGED <<input, stage, affinity, observed, digest, report, sent>>
  PROVE  ProbeInv'
<1>1. /\ (Asked(0)' <=> Asked(0)) /\ (Asked(1)' <=> Asked(1))
      /\ (Asked(2)' <=> Asked(2)) /\ (Asked(3)' <=> Asked(3))
  BY DEF Asked
<1>2. (Prepared' <=> Prepared) /\ (Readable' <=> Readable)
  BY DEF Prepared, Readable, Expected
<1>3. Agreed' <=> Agreed
  BY <1>1, <1>2 DEF Agreed
<1>4. Reported' <=> Reported
  BY <1>3 DEF Reported
<1> QED
  BY <1>1, <1>2, <1>4 DEF ProbeInv

\* The probe and the other commands: the invariant is inductive.
LEMMA ProbeStep == ProbeInv /\ [Next]_allVars => ProbeInv'
<1> SUFFICES ASSUME ProbeInv, [Next]_allVars PROVE ProbeInv'
    OBVIOUS
<1>1. CASE Check
  <2>0. call.cmd = "handshake" /\ UNCHANGED call
    BY <1>1 DEF Check, cliVars
  <2>1. CASE Preflight
    BY <2>0, <2>1, PreflightInv
  <2>2. CASE Root
    BY <2>0, <2>2, RootInv
  <2>3. CASE Template
    BY <2>0, <2>3, TemplateInv
  <2>4. CASE Mapping
    BY <2>0, <2>4, MappingInv
  <2>5. CASE Deadline
    <3>1. ProbeTypes'
      BY <2>0, <2>5 DEF Deadline, read, ProbeInv, ProbeTypes
    <3> QED
      BY <2>5, <3>1, ProbeUnmoved DEF Deadline, read
  <2>6. CASE ServerChanges
    <3>1. server' \in Servers
      BY <2>6 DEF ServerChanges, Servers
    <3>2. ProbeTypes'
      BY <2>0, <2>6, <3>1 DEF ServerChanges, read, ProbeInv, ProbeTypes
    <3> QED
      BY <2>6, <3>2, ProbeUnmoved DEF ServerChanges, read
  <2> QED
    BY <1>1, <2>1, <2>2, <2>3, <2>4, <2>5, <2>6 DEF Check, HandshakeNext
<1>2. CASE UNCHANGED <<call, vars>>
  <2>1. ProbeTypes'
    BY <1>2 DEF vars, read, ProbeInv, ProbeTypes
  <2> QED
    BY <1>2, <2>1, ProbeUnmoved DEF vars, read
<1>3. Check \/ UNCHANGED <<call, vars>>
  BY DEF Next, Display, GpuBoot, FixtureEventBytes, allVars, cliVars
<1> QED
  BY <1>1, <1>2, <1>3

LEMMA ProbeStart == Init => ProbeInv
<1> SUFFICES ASSUME Init PROVE ProbeInv
    OBVIOUS
<1>1. Fresh /\ (call.cmd = "handshake" => server \in Servers)
  BY DEF Init, HandshakeInit, Servers
<1>a. late \in BOOLEAN
  BY <1>1, Zenon DEF Fresh
<1>b. sent \in Seq(Asks)
  BY <1>1 DEF Fresh
<1>2. ProbeTypes
  BY <1>1, <1>a, <1>b DEF Fresh, ProbeTypes
<1> QED
  BY <1>1, <1>2 DEF Fresh, ProbeInv

LEMMA AlwaysProbeInv == Spec => []ProbeInv
<1>1. ProbeInv /\ [Next]_allVars => ProbeInv'
  BY ProbeStep
<1> QED
  BY <1>1, ProbeStart, PTL DEF Spec

\* run_probe: for every configuration and every behaviour of the server, a cluster
\* that changes between two requests and a deadline that passes at any moment
\* included, a report that is no failure rests on three requests in their order, each
\* answered well and in time, on the affinity of the highest tier and on a template
\* that accepts the schema; and a cluster the affinity does not admit is asked
\* nothing but its root.
THEOREM ProbesAgree == Spec => []ProbeAgreed
<1>1. ASSUME ProbeInv PROVE ProbeAgreed
  <2>1. ASSUME report # None PROVE stage = "done" /\ Reported
    BY <1>1, <2>1 DEF ProbeInv
  <2>2. ReadyMeansAgreed
    <3> SUFFICES ASSUME report # None, report.outcome # "failed" PROVE ReadyMeansAgreed
        BY DEF ReadyMeansAgreed
    <3>1. Agreed /\ sent \in Seq(Asks) /\ report \in Reports
      BY <1>1, <2>1 DEF Reported, ProbeInv, ProbeTypes
    <3>2. [i \in 1..3 |-> sent[i].at] = <<"root", "template", "mapping">>
      BY <3>1 DEF Agreed, Asked, Step
    <3> QED
      BY <3>1, <3>2 DEF ReadyMeansAgreed, Agreed, Asked, Prepared, Readable
  <2>3. WrongClusterNotRead
    <3>1. CASE stage = "done"
      BY <1>1, <3>1 DEF ProbeInv, Reported, WrongClusterNotRead
    <3>2. CASE stage # "done"
      BY <1>1, <3>2 DEF ProbeInv, ProbeTypes, Asked, WrongClusterNotRead
    <3> QED
      BY <3>1, <3>2
  <2> QED
    BY <2>2, <2>3 DEF ProbeAgreed
<1> QED
  BY <1>1, AlwaysProbeInv, PTL

-----------------------------------------------------------------------------
(* The display detector *)

\* The lines that are overrides, and the accumulator before the first.
Entries(cfg) == {i \in DOMAIN cfg : cfg[i].kind = "override"}

Starting(cfg, state) ==
    [notes |-> parse_modes_cfg(cfg).notes + state.notes, mapped |-> 0, best |-> NoBest, fine |-> 0]

\* The loop of diagnose_inputs, as the equations of its recursive function.  A function
\* that satisfies them exists for every prefix of the lines, by induction on its length.
LEMMA JudgedUnfolds ==
  ASSUME NEW cfg, Len(cfg) \in Nat, NEW state, NEW J, J = Judged(cfg, state)
  PROVE  /\ J[0] = Starting(cfg, state)
         /\ \A n \in 1..Len(cfg) :
               J[n] = IF n \in parse_modes_cfg(cfg).entries
                      THEN Judge(state, J[n - 1], cfg[n]) ELSE J[n - 1]
<1> DEFINE L == Len(cfg)
           start == Starting(cfg, state)
           entries == parse_modes_cfg(cfg).entries
           Next1(n, v) == IF n \in entries THEN Judge(state, v, cfg[n]) ELSE v
           Is(g, k) == g = [n \in 0..k |-> IF n = 0 THEN start ELSE Next1(n, g[n - 1])]
           S == {k \in 0..L : \E g : Is(g, k)}
<1>1. J = CHOOSE g : Is(g, L)
  BY DEF Judged, Starting
<1> HIDE DEF L, start, Next1
<1>0. L \in Nat
  BY DEF L
<1>2. 0 \in S
  <2>1. Is([n \in 0..0 |-> start], 0)
    OBVIOUS
  <2> HIDE DEF Is
  <2>2. \E g : Is(g, 0)
    BY <2>1
  <2> QED
    BY <1>0, <2>2
<1>3. ASSUME NEW k \in 0..(L - 1), k \in S PROVE k + 1 \in S
  <2>1. PICK g : Is(g, k)
    BY <1>3
  <2> DEFINE h == [n \in 0..(k + 1) |-> IF n = k + 1 THEN Next1(k + 1, g[k]) ELSE g[n]]
  <2>2. \A n \in 0..(k + 1) : h[n] = IF n = 0 THEN start ELSE Next1(n, h[n - 1])
    BY <1>0, <2>1
  <2>3. Is(h, k + 1)
    BY <1>0, <2>2
  <2> HIDE DEF Is, h
  <2>4. \E f : Is(f, k + 1)
    BY <2>3
  <2> QED
    BY <1>0, <2>4
<1> HIDE DEF S
<1>4. 0..L \subseteq S
  BY <1>0, <1>2, <1>3, UpTo
<1>5. Is(J, L)
  <2> HIDE DEF Is
  <2>1. \E g : Is(g, L)
    BY <1>0, <1>4 DEF S
  <2> QED
    BY <1>1, <2>1
<1> QED
  BY <1>5, <1>0 DEF L, start, Next1

Bests ==
    {NoBest} \cup [verdict : {"mode-override-invalid", "mode-override-degraded"},
                   confidence : {85, 90}, evidence : Seq(Nat)]

Acc(n, m, b, f) == [notes |-> n, mapped |-> m, best |-> b, fine |-> f]

\* An override that is invalid or degraded on its connector.
Wrong(state, o) ==
    LET c == FindConnector(state, o)
    IN invalid_mode(o, c) \/ Branches(o, c, state) > 0

\* At most two of the degrading conditions hold of an override.
LEMMA BranchesRange ==
  ASSUME NEW o, NEW c, NEW state
  PROVE  Branches(o, c, state) \in 0..2
BY DEF Branches

\* The refresh rates of gamescopectl are a list.
Rated(state) == state.control.rates \in Seq(ToSet(state.control.rates))

\* Lines of text that fit have their lengths.
LEMMA TextsLengths ==
  ASSUME NEW n \in Nat
  PROVE  Texts(n) \in Seq(Nat)
BY DEF Texts

\* degraded_mode: the evidence of a degraded override is a list of texts.
LEMMA EvidenceLengths ==
  ASSUME NEW o, NEW c, NEW state, Rated(state)
  PROVE  DegradedEvidence(o, c, state) \in Seq(Nat)
<1> DEFINE rates == state.control.rates
           n == 2 + Branches(o, c, state) + (IF c.active # None THEN 1 ELSE 0)
<1>1. n \in Nat
  BY BranchesRange
<1>2. Len(rates) \in Nat
  BY DEF Rated
<1> HIDE DEF n
<1>3. RatesLine(o, rates) \in Seq(Nat)
  <2>1. <<1 + Len(rates)>> \in Seq(Nat) /\ <<>> \in Seq(Nat)
    BY <1>2
  <2> QED
    BY <2>1 DEF RatesLine
<1>4. Texts(n) \in Seq(Nat)
  BY <1>1, TextsLengths
<1>5. Texts(n) \o RatesLine(o, rates) \in Seq(Nat)
  BY <1>3, <1>4
<1> QED
  BY <1>5 DEF DegradedEvidence, n

\* One override moves the loop from finding b to b2.
Judges(state, o, n, m, b, f, n2, b2, f2) ==
    /\ Judge(state, Acc(n, m, b, f), o) = Acc(n2, IF Mapped(state, o) THEN m + 1 ELSE m, b2, f2)
    /\ ~Mapped(state, o) => b2 = b
    /\ Mapped(state, o) => ((b2 = NoBest) <=> (b = NoBest /\ ~Wrong(state, o)))

\* One turn of the loop: the finding is kept, or replaced by one of greater confidence,
\* and there is none only as long as no mapped override is wrong.
LEMMA JudgeOne ==
  ASSUME NEW state, Rated(state), NEW o, NEW n \in Nat, NEW m \in Nat, NEW b \in Bests, NEW f \in Nat
  PROVE  \E n2 \in Nat, b2 \in Bests, f2 \in Nat :
            Judges(state, o, n, m, b, f, n2, b2, f2)
<1> USE DEF Judges
<1> DEFINE a == Acc(n, m, b, f)
           c == FindConnector(state, o)
           d == Branches(o, c, state)
           conf == IF d >= 2 THEN 90 ELSE 85
           inv == [verdict |-> "mode-override-invalid", confidence |-> 90, evidence |-> Texts(2)]
           deg == [verdict |-> "mode-override-degraded", confidence |-> conf,
                   evidence |-> DegradedEvidence(o, c, state)]
           seen(x, y) == Acc(n, m + 1, x, y)
<1>1. d \in 0..2 /\ DegradedEvidence(o, c, state) \in Seq(Nat) /\ Texts(2) \in Seq(Nat)
  BY BranchesRange, EvidenceLengths, TextsLengths
<1> HIDE DEF d
<1>2. inv \in Bests /\ deg \in Bests /\ NoBest \in Bests /\ inv # NoBest /\ deg # NoBest
      /\ conf \in {85, 90} /\ NoBest.confidence = 0
  BY <1>1 DEF Bests, NoBest
<1> HIDE DEF inv, deg, conf
<1>3. CASE ~Mapped(state, o)
  <2>1. Judge(state, a, o) = Acc(n + 1, m, b, f)
    BY <1>3 DEF Judge, Acc
  <2> QED
    BY <1>3, <2>1
<1>4. CASE Mapped(state, o)
  <2> HIDE DEF c, d
  <2>0. Wrong(state, o) <=> (invalid_mode(o, c) \/ d > 0)
    BY DEF Wrong, c, d
  <2>a. /\ a.best = b /\ [a EXCEPT !.mapped = @ + 1] = seen(b, f)
        /\ \A x : [seen(b, f) EXCEPT !.best = x] = seen(x, f)
        /\ [seen(b, f) EXCEPT !.fine = @ + 1] = seen(b, f + 1)
    BY DEF Acc
  <2>b. Acc(n, m, b, f) = a /\ \A x, y : Acc(n, IF Mapped(state, o) THEN m + 1 ELSE m, x, y) = seen(x, y)
    BY <1>4
  <2> HIDE DEF a, seen
  <2>1. Judge(state, a, o) =
          IF invalid_mode(o, c)
          THEN IF b # NoBest THEN seen(b, f) ELSE seen(inv, f)
          ELSE IF d > 0
          THEN IF conf <= b.confidence THEN seen(b, f) ELSE seen(deg, f)
          ELSE seen(b, f + 1)
    BY <1>4, <2>a DEF Judge, inv, deg, conf, c, d
  <2>2. CASE invalid_mode(o, c) /\ b # NoBest
    BY <1>4, <2>0, <2>1, <2>b, <2>2
  <2>3. CASE invalid_mode(o, c) /\ b = NoBest
    BY <1>2, <1>4, <2>0, <2>1, <2>b, <2>3
  <2>4. CASE ~invalid_mode(o, c) /\ d > 0 /\ conf <= b.confidence
    <3>1. b # NoBest
      BY <1>2, <2>4
    <3>2. Judge(state, a, o) = seen(b, f)
      BY <2>1, <2>4
    <3> QED
      BY <1>4, <2>b, <3>1, <3>2
  <2>5. CASE ~invalid_mode(o, c) /\ d > 0 /\ ~(conf <= b.confidence)
    <3>1. Judge(state, a, o) = seen(deg, f)
      BY <2>1, <2>5
    <3> QED
      BY <1>2, <1>4, <2>0, <2>b, <2>5, <3>1
  <2>6. CASE ~invalid_mode(o, c) /\ ~(d > 0)
    <3>1. Judge(state, a, o) = seen(b, f + 1) /\ f + 1 \in Nat /\ ~Wrong(state, o)
      BY <2>0, <2>1, <2>6
    <3> QED
      BY <1>4, <2>b, <3>1
  <2> QED
    BY <2>2, <2>3, <2>4, <2>5, <2>6
<1> QED
  BY <1>3, <1>4

\* What the loop knows after the first k lines: m of them mapped, and the
\* finding b, if there is one, is of an override that is wrong.
Seen(cfg, state, k) == {i \in Entries(cfg) : i <= k /\ Mapped(state, cfg[i])}
Right(cfg, state, k, m, b) ==
    /\ (m = 0) <=> (Seen(cfg, state, k) = {})
    /\ (b = NoBest) <=> \A i \in Seen(cfg, state, k) : ~Wrong(state, cfg[i])

\* modes.cfg as a sequence, and a state whose own notes are counted.
Readings(cfg, state) ==
    /\ Len(cfg) \in Nat /\ DOMAIN cfg = 1..Len(cfg)
    /\ state.notes \in Nat /\ Rated(state)

\* parse_modes_cfg: the notes are a number, and the entries are the overrides.
LEMMA NotesCounted ==
  ASSUME NEW cfg, NEW state, Readings(cfg, state)
  PROVE  parse_modes_cfg(cfg).notes \in Nat /\ parse_modes_cfg(cfg).entries = Entries(cfg)
<1> DEFINE ignored == {i \in DOMAIN cfg : cfg[i].kind \notin {"override", "blank"}}
<1>1. IsFiniteSet(DOMAIN cfg)
  BY FS_Interval DEF Readings
<1>2. IsFiniteSet(ignored)
  BY <1>1, FS_Subset
<1> HIDE DEF ignored
<1>3. Cardinality(ignored) \in Nat
  BY <1>2, FS_CardinalityType
<1>4. /\ parse_modes_cfg(cfg).entries = Entries(cfg)
      /\ parse_modes_cfg(cfg).notes = IF Entries(cfg) \cup ignored = {} THEN 1 ELSE Cardinality(ignored)
  BY DEF parse_modes_cfg, Entries, ignored
<1> QED
  BY <1>3, <1>4

\* The loop, by induction on the lines read: its counters and its finding tell which of
\* the overrides are mapped and whether one of them is wrong.
LEMMA JudgedRight ==
  ASSUME NEW cfg, NEW state, Readings(cfg, state)
  PROVE  \E n \in Nat, m \in Nat, b \in Bests, f \in Nat :
            /\ Judged(cfg, state)[Len(cfg)] = Acc(n, m, b, f)
            /\ Right(cfg, state, Len(cfg), m, b)
<1> DEFINE L == Len(cfg)
           J == Judged(cfg, state)
           Good(k) == \E n \in Nat, m \in Nat, b \in Bests, f \in Nat :
                         J[k] = Acc(n, m, b, f) /\ Right(cfg, state, k, m, b)
           S == {k \in 0..L : Good(k)}
<1>0. L \in Nat /\ DOMAIN cfg = 1..L /\ parse_modes_cfg(cfg).entries = Entries(cfg)
      /\ Entries(cfg) \subseteq 1..L
  BY NotesCounted DEF Readings, Entries
<1>1. /\ J[0] = Starting(cfg, state)
      /\ \A k \in 1..L :
            J[k] = IF k \in Entries(cfg) THEN Judge(state, J[k - 1], cfg[k]) ELSE J[k - 1]
  BY <1>0, JudgedUnfolds
<1> HIDE DEF J, L
<1>2. 0 \in S
  <2>1. NoBest \in Bests
    BY DEF Bests
  <2>2. J[0] = Acc(parse_modes_cfg(cfg).notes + state.notes, 0, NoBest, 0)
    BY <1>1 DEF Starting, Acc
  <2>3. parse_modes_cfg(cfg).notes + state.notes \in Nat
    BY NotesCounted DEF Readings
  <2>4. Seen(cfg, state, 0) = {}
    BY <1>0 DEF Seen
  <2>5. Right(cfg, state, 0, 0, NoBest)
    BY <2>4 DEF Right
  <2> QED
    BY <1>0, <2>1, <2>2, <2>3, <2>5
<1>3. ASSUME NEW k \in 0..(L - 1), k \in S PROVE k + 1 \in S
  <2>1. PICK n \in Nat, m \in Nat, b \in Bests, f \in Nat :
           J[k] = Acc(n, m, b, f) /\ Right(cfg, state, k, m, b)
    BY <1>3
  <2> DEFINE o == cfg[k + 1]
  <2>2. k + 1 \in 1..L /\ k + 1 \in 0..L /\ (k + 1) - 1 = k
    BY <1>0
  <2>3. CASE k + 1 \notin Entries(cfg)
    <3>1. J[k + 1] = Acc(n, m, b, f)
      BY <1>1, <2>1, <2>2, <2>3
    <3>2. Seen(cfg, state, k + 1) = Seen(cfg, state, k)
      BY <1>0, <2>3 DEF Seen
    <3>3. Right(cfg, state, k + 1, m, b)
      BY <2>1, <3>2 DEF Right
    <3> QED
      BY <2>2, <3>1, <3>3
  <2>4. CASE k + 1 \in Entries(cfg)
    <3>1. J[k + 1] = Judge(state, Acc(n, m, b, f), o)
      BY <1>1, <2>1, <2>2, <2>4
    <3>2. PICK n2 \in Nat, b2 \in Bests, f2 \in Nat :
            Judges(state, o, n, m, b, f, n2, b2, f2)
      <4>1. Rated(state)
        BY DEF Readings
      <4> HIDE DEF o
      <4> QED
        BY <4>1, JudgeOne
    <3>3. CASE ~Mapped(state, o)
      <4>1. Seen(cfg, state, k + 1) = Seen(cfg, state, k)
        BY <1>0, <3>3 DEF Seen
      <4>2. Right(cfg, state, k + 1, m, b)
        BY <2>1, <4>1 DEF Right
      <4>3. J[k + 1] = Acc(n2, m, b, f2)
        BY <3>1, <3>2, <3>3 DEF Judges
      <4> QED
        BY <2>2, <4>2, <4>3
    <3>4. CASE Mapped(state, o)
      <4>1. Seen(cfg, state, k + 1) = Seen(cfg, state, k) \cup {k + 1}
        BY <1>0, <2>4, <3>4 DEF Seen
      <4>2. Right(cfg, state, k + 1, m + 1, b2)
        BY <2>1, <3>2, <3>4, <4>1 DEF Right, Judges
      <4>3. J[k + 1] = Acc(n2, m + 1, b2, f2) /\ m + 1 \in Nat
        BY <3>1, <3>2, <3>4 DEF Judges
      <4> QED
        BY <2>2, <4>2, <4>3
    <3> QED
      BY <3>3, <3>4
  <2> QED
    BY <2>3, <2>4
<1>4. 0..L \subseteq S
  <2> HIDE DEF S
  <2> QED
    BY <1>0, <1>2, <1>3, UpTo
<1>5. Good(L)
  BY <1>0, <1>4
<1> QED
  BY <1>5 DEF L, J

-----------------------------------------------------------------------------
(* Outcomes and their envelopes *)

\* A diagnosis as a detector prints it: it passed Diagnosis::validate, and all of its
\* texts but the evidence have the length that stands for any within the limits.
Fields == {"kind", "verdict", "finding", "confidence", "detector", "rule", "host", "evidence",
           "fixes", "scope", "missing", "plain", "basis", "falsifier", "alternative"}
Printed(o) ==
    /\ DOMAIN o = Fields /\ o.kind = "diagnosis" /\ Valid(o)
    /\ o.evidence \in Seq(Nat) /\ o.fixes \in Seq({1}) /\ o.scope = <<1>> /\ o.missing = <<>>
    /\ o.plain = 1 /\ o.basis = 1 /\ o.falsifier = 1 /\ o.alternative = 1

Finds(v, c, e) == diagnosis(TRUE, v, c, e)
Clears(v, c, e) == diagnosis(FALSE, v, c, e)

\* A finding that passes Diagnosis::validate is printed as it is.
LEMMA FindingPrinted ==
  ASSUME NEW v, NEW c, NEW e \in Seq(Nat), Finds(v, c, e) # Error
  PROVE  /\ Printed(Finds(v, c, e))
         /\ Finds(v, c, e).verdict = v
         /\ Finds(v, c, e).finding
<1> DEFINE x == IF TRUE THEN 2 ELSE 0
           d == [kind |-> "diagnosis", verdict |-> v, finding |-> TRUE,
                 confidence |-> c, detector |-> "D6", rule |-> "d6.2", host |-> NoHost,
                 evidence |-> e, fixes |-> Texts(x),
                 scope |-> <<1>>, missing |-> <<>>,
                 plain |-> 1, basis |-> 1, falsifier |-> 1, alternative |-> 1]
<1>1. Finds(v, c, e) = d /\ Valid(d)
  BY DEF diagnosis, Build, Finds, Clears
<1>2. Texts(x) \in Seq({1})
  BY DEF Texts
<1>3. /\ DOMAIN d = Fields /\ d.kind = "diagnosis" /\ d.evidence = e /\ d.fixes = Texts(x)
      /\ d.scope = <<1>> /\ d.missing = <<>> /\ d.verdict = v /\ d.finding
      /\ d.plain = 1 /\ d.basis = 1 /\ d.falsifier = 1 /\ d.alternative = 1
  BY DEF Fields
<1> HIDE DEF d
<1> QED
  BY <1>1, <1>2, <1>3 DEF Printed

\* So is a verdict without a finding.
LEMMA NoFindingPrinted ==
  ASSUME NEW v, NEW c, NEW e \in Seq(Nat), Clears(v, c, e) # Error
  PROVE  /\ Printed(Clears(v, c, e))
         /\ Clears(v, c, e).verdict = v
         /\ ~Clears(v, c, e).finding
<1> DEFINE x == IF FALSE THEN 2 ELSE 0
           d == [kind |-> "diagnosis", verdict |-> v, finding |-> FALSE,
                 confidence |-> c, detector |-> "D6", rule |-> "d6.2", host |-> NoHost,
                 evidence |-> e, fixes |-> Texts(x),
                 scope |-> <<1>>, missing |-> <<>>,
                 plain |-> 1, basis |-> 1, falsifier |-> 1, alternative |-> 1]
<1>1. Clears(v, c, e) = d /\ Valid(d)
  BY DEF diagnosis, Build, Finds, Clears
<1>2. Texts(x) \in Seq({1})
  BY DEF Texts
<1>3. /\ DOMAIN d = Fields /\ d.kind = "diagnosis" /\ d.evidence = e /\ d.fixes = Texts(x)
      /\ d.scope = <<1>> /\ d.missing = <<>> /\ d.verdict = v /\ ~d.finding
      /\ d.plain = 1 /\ d.basis = 1 /\ d.falsifier = 1 /\ d.alternative = 1
  BY DEF Fields
<1> HIDE DEF d
<1> QED
  BY <1>1, <1>2, <1>3 DEF Printed

\* So is what the boot detector found.
LEMMA OutcomePrinted ==
  ASSUME NEW v, OutcomeOf(v) # Error
  PROVE  Printed(OutcomeOf(v))
<1> DEFINE d == [kind |-> "diagnosis", verdict |-> v, finding |-> Finding(v),
                 detector |-> "D3", rule |-> "d3.1", host |-> NoHost,
                 confidence |-> IF v = "bus-absent" THEN 72 ELSE 90,
                 evidence |-> <<1>>, fixes |-> <<1>>, scope |-> <<1>>, missing |-> <<>>,
                 plain |-> 1, basis |-> 1, falsifier |-> 1, alternative |-> 1]
<1>1. OutcomeOf(v) = d /\ Valid(d)
  BY DEF OutcomeOf, Build
<1>2. /\ DOMAIN d = Fields /\ d.kind = "diagnosis" /\ d.evidence = <<1>> /\ d.fixes = <<1>>
      /\ d.scope = <<1>> /\ d.missing = <<>>
      /\ d.plain = 1 /\ d.basis = 1 /\ d.falsifier = 1 /\ d.alternative = 1
  BY DEF Fields
<1>3. <<1>> \in Seq({1}) /\ <<1>> \in Seq(Nat)
  OBVIOUS
<1> HIDE DEF d
<1> QED
  BY <1>1, <1>2, <1>3 DEF Printed

\* The size limits that an outcome's texts can exceed.
Oversized(o) ==
    \/ \E f \in {"evidence", "fixes", "scope", "missing"} :
          \/ Len(o[f]) > MaxElements
          \/ \E i \in DOMAIN o[f] : o[f][i] > MaxElementChars
    \/ \E f \in {"evidence", "fixes"} : DisplayChars(o[f]) > MaxDisplayChars

\* What a printed text may be refused for.
LEMMA UnfitOversized ==
  ASSUME NEW o, o.evidence \in Seq(Nat), o.fixes \in Seq({1}),
         ~ArrayFits(o.evidence) \/ ~ArrayFits(o.fixes)
  PROVE  Oversized(o)
<1>1. ASSUME NEW a \in Seq(Nat), ~ArrayFits(a)
      PROVE  Len(a) > MaxElements \/ \E i \in DOMAIN a : a[i] > MaxElementChars
  BY <1>1, ContractAssumptions DEF ArrayFits
<1>2. \A s \in Seq({1}) : s \in Seq(Nat)
  OBVIOUS
<1> QED
  BY <1>1, <1>2 DEF Oversized

\* with_disposition replaces the finding and leaves everything else as it is.
LEMMA DisposedFields ==
  ASSUME NEW o, Printed(o), NEW w, w = with_disposition(o)
  PROVE  /\ w.finding /\ \A f \in Fields \ {"finding"} : w[f] = o[f]
         /\ EventBytes(w) = EventBytes(o)
<1>1. w = [f \in Fields |-> IF f = "finding" THEN TRUE ELSE o[f]]
  BY DEF with_disposition, Printed
<1>2. w.finding /\ \A f \in Fields \ {"finding"} : w[f] = o[f]
  BY <1>1 DEF Fields
<1>3. /\ w.plain = o.plain /\ w.evidence = o.evidence /\ w.kind = o.kind /\ w.fixes = o.fixes
      /\ w.scope = o.scope /\ w.missing = o.missing /\ w.basis = o.basis
      /\ w.falsifier = o.falsifier /\ w.alternative = o.alternative
  BY <1>2 DEF Fields
<1>4. EventBytes(w) = EventBytes(o)
  BY <1>3 DEF EventBytes
<1> QED
  BY <1>2, <1>4

\* try_from_outcome: a finding that was printed is refused for its host or for the length
\* of its texts, never for a field that is missing.
LEMMA PrintedRefusal ==
  ASSUME NEW o, Printed(o), o.finding, NEW w, w = with_disposition(o), NEW ctx
  PROVE  \/ DiagnosisRefusal(w, ctx) \in {"none", "contract", "host"}
         \/ DiagnosisRefusal(w, ctx) = "limit" /\ Oversized(o)
<1> DEFINE fits == ArrayFits(o.evidence) /\ ArrayFits(o.fixes)
           long == Oversized(o)
<1>1. /\ w.detector = o.detector /\ w.rule = o.rule /\ w.confidence = o.confidence
      /\ w.evidence = o.evidence /\ w.plain = o.plain /\ w.fixes = o.fixes /\ w.scope = o.scope
      /\ w.missing = o.missing /\ w.basis = o.basis /\ w.falsifier = o.falsifier
      /\ w.alternative = o.alternative /\ w.host = o.host
  BY DisposedFields DEF Fields
<1>2. /\ o.confidence \in 0..100 /\ o.evidence # <<>> /\ o.fixes # <<>> /\ o.scope = <<1>>
      /\ o.missing = <<>> /\ o.plain = 1 /\ o.basis = 1 /\ o.falsifier = 1 /\ o.alternative = 1
      /\ o.evidence \in Seq(Nat) /\ o.fixes \in Seq({1})
  BY DEF Printed, Valid
<1>3. ArrayFits(<<1>>) /\ ArrayFits(<<>>) /\ <<1>> # <<>>
  BY ContractAssumptions DEF ArrayFits
<1>4. DiagnosisRefusal(w, ctx) =
         IF w.detector # ctx.detector \/ w.rule # ctx.rule THEN "contract"
         ELSE IF ~fits THEN "limit"
         ELSE IF DisplayChars(o.evidence) > MaxDisplayChars
                 \/ DisplayChars(o.fixes) > MaxDisplayChars THEN "limit"
         ELSE IF ~KeywordFits(IF w.host = NoHost THEN ctx.host ELSE w.host) THEN "host"
         ELSE "none"
  BY <1>1, <1>2, <1>3 DEF DiagnosisRefusal
<1>5. ~fits => long
  BY <1>2, UnfitOversized
<1>6. (DisplayChars(o.evidence) > MaxDisplayChars \/ DisplayChars(o.fixes) > MaxDisplayChars) => long
  BY DEF Oversized
<1> HIDE DEF fits, long
<1>7. DiagnosisRefusal(w, ctx) \in {"none", "contract", "host"} \/ (DiagnosisRefusal(w, ctx) = "limit" /\ long)
  BY <1>4, <1>5, <1>6
<1> QED
  BY <1>7 DEF long

\* A finding in print is refused for a limit that it exceeds, or accepted as a finding.
LEMMA PrintedReaches ==
  ASSUME NEW o, Printed(o), o.finding, NEW ctx, NEW e, e = try_from_outcome(with_disposition(o), ctx)
  PROVE  \/ e.accepted /\ e.finding
         \/ e.why \in {"context", "contract", "host"}
         \/ /\ e.why \in {"limit", "bytes"}
            /\ Oversized(o) \/ EventBytes(o) > MaxEventBytes
<1> DEFINE w == with_disposition(o)
           why == DiagnosisRefusal(w, ctx)
<1>1. w.kind = "diagnosis" /\ w.finding /\ EventBytes(w) = EventBytes(o)
  BY DisposedFields DEF Fields, Printed
<1>2. \/ why \in {"none", "contract", "host"}
      \/ why = "limit" /\ Oversized(o)
  BY PrintedRefusal
<1> HIDE DEF w, why
<1>3. e = IF ~ContextValid(ctx) THEN Refused("context")
          ELSE IF why # "none" THEN Refused(why)
          ELSE IF EventBytes(o) > MaxEventBytes THEN Refused("bytes")
          ELSE [accepted |-> TRUE, why |-> "none", finding |-> w.kind = "diagnosis" /\ w.finding]
  BY <1>1 DEF try_from_outcome, w, why
<1>4. \A x : Refused(x).why = x
  BY DEF Refused
<1>5. CASE ~ContextValid(ctx)
  BY <1>3, <1>4, <1>5
<1>6. CASE ContextValid(ctx) /\ why # "none"
  BY <1>2, <1>3, <1>4, <1>6
<1>7. CASE ContextValid(ctx) /\ why = "none" /\ EventBytes(o) > MaxEventBytes
  BY <1>3, <1>4, <1>7
<1>8. CASE ContextValid(ctx) /\ why = "none" /\ ~(EventBytes(o) > MaxEventBytes)
  <2>1. e = [accepted |-> TRUE, why |-> "none", finding |-> w.kind = "diagnosis" /\ w.finding]
    BY <1>3, <1>8
  <2>2. e.accepted = TRUE /\ e.finding = (w.kind = "diagnosis" /\ w.finding)
    BY <2>1
  <2>3. e.accepted /\ e.finding
    BY <1>1, <2>2
  <2> QED
    BY <2>3
<1> QED
  BY <1>5, <1>6, <1>7, <1>8

\* How a display call is read: the DRM state it is judged against.
DrmOf(c) == IF c.hasDrm THEN c.drm ELSE Controlled(c.drm, c.ctl)

\* What the display command reads of its arguments.
LEMMA CallReadings ==
  ASSUME NEW c \in Calls, c.cmd = "display"
  PROVE  Readings(c.cfg, DrmOf(c))
<1>1. /\ c.cfg \in Seq(ToSet(c.cfg)) /\ c.drm.notes \in Nat
      /\ \A r \in {c.ctl.rates, c.drm.control.rates} : r \in Seq(ToSet(r))
  BY CliAssumptions
<1>2. Len(c.cfg) \in Nat /\ DOMAIN c.cfg = 1..Len(c.cfg)
  BY <1>1
<1>3. DrmOf(c).notes \in Nat /\ Rated(DrmOf(c))
  BY <1>1 DEF DrmOf, Controlled, Rated
<1> QED
  BY <1>2, <1>3 DEF Readings

\* What the verdict of a display diagnosis says of all overrides.
SaysOf(o, cfg, state) ==
    LET seen == Seen(cfg, state, Len(cfg))
    IN /\ o.finding => \E i \in seen : Wrong(state, cfg[i])
       /\ o.verdict = "ok" =>
             (Entries(cfg) # {} => seen # {}) /\ \A i \in seen : ~Wrong(state, cfg[i])
       /\ o.kind = "not_applicable" => seen = {}

NotApplicableOutcome(o) ==
    o.kind = "not_applicable" /\ ~o.finding /\ o.verdict = "not-applicable"

\* What "not applicable" is.
LEMMA NotApplicableShape ==
  ASSUME NEW e
  PROVE  NotApplicableOutcome(NotApplicable(e))
BY DEF NotApplicable, NotApplicableOutcome

\* diagnose_inputs: what it prints is true of all overrides.
LEMMA DiagnosedRight ==
  ASSUME NEW cfg, NEW state, Readings(cfg, state), NEW o, o = diagnose_inputs(cfg, state), o # Error
  PROVE  (Printed(o) \/ NotApplicableOutcome(o)) /\ SaysOf(o, cfg, state)
<1> DEFINE p == parse_modes_cfg(cfg)
           end == Judged(cfg, state)[Len(cfg)]
           seen == Seen(cfg, state, Len(cfg))
<1>0. p.entries = Entries(cfg) /\ p.notes \in Nat
  BY NotesCounted
<1>1. PICK n \in Nat, m \in Nat, b \in Bests, f \in Nat :
         end = Acc(n, m, b, f) /\ Right(cfg, state, Len(cfg), m, b)
  BY JudgedRight
<1>2. end.notes = n /\ end.mapped = m /\ end.best = b /\ end.fine = f
  BY <1>1 DEF Acc
<1>3. /\ (m = 0) <=> (seen = {})
      /\ (b = NoBest) <=> \A i \in seen : ~Wrong(state, cfg[i])
  BY <1>1 DEF Right
<1>4. o = IF ~p.ok THEN Error
          ELSE IF p.entries = {} THEN no_override_outcome(p.notes)
          ELSE IF end.mapped = 0 THEN NotApplicable(Texts(end.notes))
          ELSE IF end.best # NoBest
          THEN Finds(end.best.verdict, end.best.confidence, Texts(end.notes) \o end.best.evidence)
          ELSE Clears("ok", 75, Texts(end.notes + end.fine))
  BY DEF diagnose_inputs, Finds, Clears
<1>5. seen \subseteq Entries(cfg)
  BY DEF Seen
<1> HIDE DEF p, end, seen
<1>a. SaysOf(o, cfg, state) <=>
       /\ o.finding => \E i \in seen : Wrong(state, cfg[i])
       /\ o.verdict = "ok" =>
             (Entries(cfg) # {} => seen # {}) /\ \A i \in seen : ~Wrong(state, cfg[i])
       /\ o.kind = "not_applicable" => seen = {}
  BY DEF SaysOf, seen
<1>6. CASE p.ok /\ p.entries = {}
  <2>1. o = Clears("ok", 70, Texts(p.notes)) /\ Texts(p.notes) \in Seq(Nat)
    BY <1>0, <1>4, <1>6, TextsLengths DEF no_override_outcome, Clears
  <2>2. Printed(o) /\ o.verdict = "ok" /\ ~o.finding
    BY <2>1, NoFindingPrinted
  <2>3. o.kind = "diagnosis"
    BY <2>2 DEF Printed
  <2> QED
    BY <1>0, <1>5, <1>6, <1>a, <2>2, <2>3
<1>7. CASE p.ok /\ p.entries # {} /\ end.mapped = 0
  <2>1. o = NotApplicable(Texts(end.notes))
    BY <1>4, <1>7
  <2>2. NotApplicableOutcome(o)
    BY <2>1, NotApplicableShape
  <2>3. seen = {}
    BY <1>2, <1>3, <1>7
  <2> QED
    BY <1>a, <2>2, <2>3 DEF NotApplicableOutcome
<1>8. CASE p.ok /\ p.entries # {} /\ end.mapped # 0 /\ b # NoBest
  <2>1. /\ b.verdict \in {"mode-override-invalid", "mode-override-degraded"}
        /\ b.evidence \in Seq(Nat) /\ Texts(n) \in Seq(Nat)
    BY <1>8, TextsLengths DEF Bests
  <2> DEFINE e == Texts(n) \o b.evidence
  <2>a. e \in Seq(Nat)
    BY <2>1
  <2>2. o = Finds(b.verdict, b.confidence, e)
    BY <1>2, <1>4, <1>8
  <2> HIDE DEF e
  <2>3. Printed(o) /\ o.verdict = b.verdict
    BY <2>a, <2>2, FindingPrinted
  <2>4. o.kind = "diagnosis" /\ o.verdict # "ok"
    BY <2>1, <2>3 DEF Printed
  <2> QED
    BY <1>3, <1>8, <1>a, <2>3, <2>4
<1>9. CASE p.ok /\ p.entries # {} /\ end.mapped # 0 /\ b = NoBest
  <2>0. Texts(n + f) \in Seq(Nat)
    BY TextsLengths
  <2>1. o = Clears("ok", 75, Texts(n + f))
    BY <1>2, <1>4, <1>9
  <2>2. Printed(o) /\ o.verdict = "ok" /\ ~o.finding
    BY <2>0, <2>1, NoFindingPrinted
  <2>3. o.kind = "diagnosis"
    BY <2>2 DEF Printed
  <2> QED
    BY <1>2, <1>3, <1>9, <1>a, <2>2, <2>3
<1> QED
  BY <1>4, <1>6, <1>7, <1>8, <1>9

\* live_outcome: without a usable display of the session's name, none of the
\* overrides maps to one.
LEMMA LiveRight ==
  ASSUME NEW ctl, NEW cfg, NEW drm, NEW state, state = Controlled(drm, ctl),
         DOMAIN drm.connectors \subseteq Nat,
         Readings(cfg, state), NEW o, o = live_outcome(ctl, cfg, drm), o # Error
  PROVE  /\ Printed(o) \/ NotApplicableOutcome(o)
         /\ SaysOf(o, cfg, state) \/ (NotApplicableOutcome(o) /\ ctl.ended # "ok")
<1> DEFINE usable == {i \in DOMAIN drm.connectors :
                         drm.connectors[i].name = ctl.connector /\ Usable(drm.connectors[i])}
           fails == \E i \in DOMAIN drm.connectors : SysfsFails(drm.connectors[i], ctl)
<1>1. o = IF ctl.ended \in {"not_found", "no_session"} THEN NotApplicable(<<1>>)
          ELSE IF ctl.ended # "ok" THEN Error
          ELSE IF fails THEN Error
          ELSE IF usable = {} THEN NotApplicable(<<1>>)
          ELSE IF Cardinality(usable) > 1 THEN Error
          ELSE diagnose_inputs(cfg, state)
  BY DEF live_outcome
<1>2. NotApplicableOutcome(NotApplicable(<<1>>))
  BY NotApplicableShape
<1>3. ASSUME usable = {} PROVE Seen(cfg, state, Len(cfg)) = {}
  <2> SUFFICES ASSUME NEW e, Mapped(state, e) PROVE FALSE
      BY DEF Seen
  <2> DEFINE named == {i \in DOMAIN drm.connectors : drm.connectors[i].name = ctl.connector}
             first == CHOOSE i \in named : \A k \in named : i <= k
  <2>1. state.connectors = drm.connectors /\ state.control = ctl
    BY DEF Controlled
  <2>2. /\ FindConnector(state, e) # None /\ Usable(FindConnector(state, e))
    BY DEF Mapped
  <2>3. FindConnector(state, e) =
          IF e.key # state.control.display \/ named = {} THEN None ELSE drm.connectors[first]
    BY <2>1 DEF FindConnector
  <2>4. named # {} /\ Usable(drm.connectors[first])
    BY <2>2, <2>3
  <2>5. \E i \in named : \A k \in named : i <= k
    BY <2>4, Least
  <2>6. first \in named
    BY <2>5
  <2> QED
    BY <1>3, <2>4, <2>6
<1> HIDE DEF usable, fails
<1>4. CASE ctl.ended \in {"not_found", "no_session"}
  BY <1>1, <1>2, <1>4
<1>5. CASE ctl.ended \notin {"not_found", "no_session"} /\ usable = {}
  <2>1. NotApplicableOutcome(o)
    BY <1>1, <1>2, <1>5
  <2>2. SaysOf(o, cfg, state)
    BY <1>3, <1>5, <2>1 DEF SaysOf, NotApplicableOutcome
  <2> QED
    BY <2>1, <2>2
<1>6. CASE ctl.ended \notin {"not_found", "no_session"} /\ usable # {}
  <2>1. o = diagnose_inputs(cfg, state)
    BY <1>1, <1>6
  <2> QED
    BY <2>1, DiagnosedRight
<1> QED
  BY <1>4, <1>5, <1>6

\* run_cli, for fixtures and for the live session.
LEMMA DisplayRight ==
  ASSUME NEW c \in Calls, c.cmd = "display", NEW o,
         o = run_cli(c.hasCfg, c.hasDrm, c.ctl, c.cfg, c.drm), o # Error
  PROVE  /\ Printed(o) \/ NotApplicableOutcome(o)
         /\ \/ SaysOf(o, c.cfg, DrmOf(c))
            \/ NotApplicableOutcome(o) /\ ~c.hasDrm /\ c.ctl.ended # "ok"
<1>1. Readings(c.cfg, DrmOf(c))
  BY CallReadings
<1>2. CASE c.hasCfg /\ c.hasDrm
  <2>1. o = diagnose_inputs(c.cfg, DrmOf(c))
    BY <1>2 DEF run_cli, DrmOf
  <2> QED
    BY <1>1, <2>1, DiagnosedRight
<1>3. CASE ~c.hasCfg /\ ~c.hasDrm
  <2>1. o = live_outcome(c.ctl, c.cfg, c.drm) /\ DrmOf(c) = Controlled(c.drm, c.ctl)
    BY <1>3 DEF run_cli, DrmOf
  <2>2. c.drm.connectors \in Seq(ToSet(c.drm.connectors))
    BY CliAssumptions
  <2>3. DOMAIN c.drm.connectors \subseteq Nat
    BY <2>2
  <2> QED
    BY <1>1, <1>3, <2>1, <2>3, LiveRight
<1>4. CASE ~(c.hasCfg /\ c.hasDrm) /\ ~(~c.hasCfg /\ ~c.hasDrm)
  BY <1>4 DEF run_cli
<1> QED
  BY <1>2, <1>3, <1>4

-----------------------------------------------------------------------------
(* The commands *)

\* What d3::run_cli can say: an error, or the verdict on what it was given.
BootVerdict(c, v) ==
    \/ v = "error"
    \/ ~OfflineRefused(c) /\ v = Operate(OfflineInput(c), c.state, CurrentBoot(c)).verdict

\* What stands behind an outcome and behind an envelope.
OutcomeInv ==
    /\ call \in Calls
    /\ outcome # None =>
          \/ /\ call.cmd = "display"
             /\ outcome = run_cli(call.hasCfg, call.hasDrm, call.ctl, call.cfg, call.drm)
          \/ call.cmd = "gpu-boot" /\ \E v : BootVerdict(call, v) /\ outcome = OutcomeOf(v)
    /\ envelope # None =>
          /\ outcome \notin {None, Error}
          /\ \E ctx \in Contexts : envelope = try_from_outcome(with_disposition(outcome), ctx)

\* An outcome and an envelope are set once and kept.
LEMMA OutcomeStep == OutcomeInv /\ [Next]_allVars => OutcomeInv'
<1> SUFFICES ASSUME OutcomeInv, [Next]_allVars PROVE OutcomeInv'
    OBVIOUS
<1>1. CASE Display
  <2>1. /\ call' = call /\ envelope' = envelope /\ call.cmd = "display" /\ outcome = None
        /\ outcome' = run_cli(call.hasCfg, call.hasDrm, call.ctl, call.cfg, call.drm)
    BY <1>1 DEF Display
  <2> QED
    BY <2>1 DEF OutcomeInv
<1>2. CASE GpuBoot
  <2>1. /\ call' = call /\ envelope' = envelope /\ call.cmd = "gpu-boot" /\ outcome = None
        /\ \E v : BootVerdict(call, v) /\ outcome' = OutcomeOf(v)
    BY <1>2 DEF GpuBoot, BootVerdict
  <2> QED
    BY <2>1 DEF OutcomeInv
<1>3. ASSUME NEW ctx \in Contexts, FixtureEventBytes(ctx) PROVE OutcomeInv'
  BY <1>3 DEF FixtureEventBytes, OutcomeInv
<1>4. CASE UNCHANGED cliVars
  BY <1>4 DEF cliVars, OutcomeInv
<1>5. Check \/ UNCHANGED allVars => UNCHANGED cliVars
  BY DEF Check, allVars, cliVars
<1> QED
  BY <1>1, <1>2, <1>3, <1>4, <1>5 DEF Next

LEMMA AlwaysOutcomeInv == Spec => []OutcomeInv
<1>1. Init => OutcomeInv
  BY DEF Init, OutcomeInv
<1>2. OutcomeInv /\ [Next]_allVars => OutcomeInv'
  BY OutcomeStep
<1> QED
  BY <1>1, <1>2, PTL DEF Spec

\* Whatever command it came from, an outcome passed the contract.
LEMMA OutcomesPrinted ==
  ASSUME OutcomeInv, outcome \notin {None, Error}
  PROVE  Printed(outcome) \/ NotApplicableOutcome(outcome)
<1>1. CASE call.cmd = "display" /\ outcome = run_cli(call.hasCfg, call.hasDrm, call.ctl, call.cfg, call.drm)
  BY <1>1, DisplayRight DEF OutcomeInv
<1>2. CASE \E v : outcome = OutcomeOf(v)
  BY <1>2, OutcomePrinted
<1> QED
  BY <1>1, <1>2 DEF OutcomeInv

\* run and emit of main.rs over Diagnosis::validate and try_from_outcome: every command
\* ends with an exit code of its own range, and a finding that was printed reaches its
\* event as a finding, or the event is refused for its context, its host or a limit
\* its texts exceed.
THEOREM CommandsSound == Spec => []CliInv
<1>1. ASSUME ProbeInv, OutcomeInv PROVE TypeOK
  <2>1. stage \in {"local", "root", "template", "mapping", "done"}
    BY <1>1 DEF ProbeInv, ProbeTypes
  <2>2. (stage = "done") <=> (report # None)
    BY <1>1, HandshakeAssumptions DEF ProbeInv, Reported
  <2>3. ASSUME report # None PROVE exit_code(report) \in {0} \cup 10..16
    <3>1. report.reason \in Reasons
      BY <1>1, <2>2, <2>3 DEF ProbeInv, Reported, Reports
    <3> QED
      BY <3>1 DEF exit_code, Reasons
  <2>4. outcome # None => call.cmd # "handshake"
    BY <1>1 DEF OutcomeInv
  <2>5. ExitCode(outcome) \in 0..2
    BY DEF ExitCode
  <2>6. envelope # None => outcome \notin {None, Error}
    BY <1>1 DEF OutcomeInv
  <2> QED
    BY <2>1, <2>2, <2>3, <2>4, <2>5, <2>6 DEF TypeOK
<1>2. ASSUME OutcomeInv PROVE FindingReachesEnvelope
  <2> SUFFICES ASSUME envelope # None, outcome.finding PROVE FindingReachesEnvelope
      BY DEF FindingReachesEnvelope
  <2>1. outcome \notin {None, Error}
    BY <1>2 DEF OutcomeInv
  <2>2. PICK ctx \in Contexts : envelope = try_from_outcome(with_disposition(outcome), ctx)
    BY <1>2 DEF OutcomeInv
  <2>3. Printed(outcome)
    BY <1>2, <2>1, OutcomesPrinted DEF NotApplicableOutcome
  <2> QED
    BY <2>2, <2>3, PrintedReaches DEF FindingReachesEnvelope, Oversized
<1>3. ProbeInv /\ OutcomeInv => CliInv
  BY <1>1, <1>2 DEF CliInv
<1> QED
  BY <1>3, AlwaysProbeInv, AlwaysOutcomeInv, PTL

\* diagnose_inputs and live_outcome of d6.rs, for a modes.cfg of any length and any number
\* of connectors: a finding is about an override that is wrong on the connector it maps
\* to, "ok" is said only if none is, and "not applicable" only if none maps to one.
THEOREM DisplayVerdicts == Spec => []DisplayVerdictRight
<1>1. ASSUME OutcomeInv PROVE DisplayVerdictRight
  <2> SUFFICES ASSUME call.cmd = "display", outcome \notin {None, Error} PROVE DisplayVerdictRight
      BY DEF DisplayVerdictRight
  <2> DEFINE drm == IF call.hasDrm THEN call.drm ELSE Controlled(call.drm, call.ctl)
             cfg == call.cfg
             overrides == {cfg[i] : i \in {k \in DOMAIN cfg : cfg[k].kind = "override"}}
             mapped == {o \in overrides : Mapped(drm, o)}
             seen == Seen(cfg, drm, Len(cfg))
  <2>1. call \in Calls /\ outcome = run_cli(call.hasCfg, call.hasDrm, call.ctl, call.cfg, call.drm)
    BY <1>1 DEF OutcomeInv
  <2>2. drm = DrmOf(call) /\ Readings(cfg, drm)
    BY <2>1, CallReadings DEF DrmOf
  <2>3. \/ SaysOf(outcome, cfg, drm)
        \/ NotApplicableOutcome(outcome) /\ ~call.hasDrm /\ call.ctl.ended # "ok"
    BY <2>1, <2>2, DisplayRight
  <2> HIDE DEF drm
  <2>a. overrides = {cfg[i] : i \in Entries(cfg)}
    BY DEF Entries
  <2>b. \A i \in Entries(cfg) : i <= Len(cfg)
    <3> HIDE DEF cfg, overrides
    <3> QED
      BY <2>2 DEF Entries, Readings
  <2>4. /\ overrides = {cfg[i] : i \in Entries(cfg)} /\ (overrides = {} <=> Entries(cfg) = {})
        /\ \A i \in Entries(cfg) : i <= Len(cfg)
    <3> HIDE DEF cfg, overrides
    <3> QED
      BY <2>a, <2>b
  <2>5. \A i \in seen : cfg[i] \in mapped
    BY <2>4 DEF Seen
  <2>6. \A o \in mapped : \E i \in seen : o = cfg[i]
    BY <2>4 DEF Seen
  <2> DEFINE Claim ==
               /\ outcome.finding => \E o \in mapped : Wrong(drm, o)
               /\ outcome.verdict = "ok" =>
                     (overrides # {} => mapped # {}) /\ \A o \in mapped : ~Wrong(drm, o)
               /\ outcome.kind = "not_applicable" =>
                     mapped = {} \/ (~call.hasDrm /\ call.ctl.ended # "ok")
  <2>7. DisplayVerdictRight <=> Claim
    BY DEF DisplayVerdictRight, Wrong, drm
  <2> HIDE DEF overrides, mapped, seen, cfg
  <2>8. CASE SaysOf(outcome, cfg, drm)
    <3>1. /\ outcome.finding => \E i \in seen : Wrong(drm, cfg[i])
          /\ outcome.verdict = "ok" =>
                (Entries(cfg) # {} => seen # {}) /\ \A i \in seen : ~Wrong(drm, cfg[i])
          /\ outcome.kind = "not_applicable" => seen = {}
      BY <2>8 DEF SaysOf, seen
    <3>2. Claim
      BY <2>4, <2>5, <2>6, <3>1
    <3> QED
      BY <2>7, <3>2
  <2>9. CASE NotApplicableOutcome(outcome) /\ ~call.hasDrm /\ call.ctl.ended # "ok"
    <3>1. Claim
      BY <2>9 DEF NotApplicableOutcome
    <3> QED
      BY <2>7, <3>1
  <2> QED
    BY <2>3, <2>8, <2>9
<1> QED
  BY <1>1, AlwaysOutcomeInv, PTL
-----------------------------------------------------------------------------
(* Journals: the recursive functions as equations *)

\* A function on 0..N that starts at b and continues by F.
Runs(g, N, V, b, F) ==
    g \in [0..N -> V] /\ g[0] = b /\ \A n \in 1..N : g[n] = F[<<n, g[n - 1]>>]

\* There is such a function for every F.
LEMMA Recursion ==
  ASSUME NEW N \in Nat, NEW V, NEW b \in V, NEW F \in [(1..N) \X V -> V]
  PROVE  \E g : Runs(g, N, V, b, F)
<1> DEFINE Is(g, k) == g \in [0..k -> V] /\ g[0] = b /\ \A n \in 1..k : g[n] = F[<<n, g[n - 1]>>]
           T == {k \in 0..N : \E g : Is(g, k)}
<1>1. 0 \in T
  <2>1. Is([n \in 0..0 |-> b], 0)
    OBVIOUS
  <2> HIDE DEF Is
  <2> QED
    BY <2>1
<1>2. ASSUME NEW k \in 0..(N - 1), k \in T PROVE k + 1 \in T
  <2>1. PICK g : Is(g, k)
    BY <1>2
  <2> DEFINE h == [n \in 0..(k + 1) |-> IF n = k + 1 THEN F[<<k + 1, g[k]>>] ELSE g[n]]
  <2>2. F[<<k + 1, g[k]>>] \in V
    BY <2>1
  <2>3. \A n \in 0..(k + 1) : h[n] \in V
    BY <2>1, <2>2
  <2>a. h[k + 1] = F[<<k + 1, g[k]>>] /\ \A n \in 0..k : h[n] = g[n]
    OBVIOUS
  <2>b. \A n \in 1..(k + 1) : n - 1 \in 0..k /\ (n = k + 1 \/ n \in 1..k)
    OBVIOUS
  <2>5. h[0] = b
    BY <2>1
  <2>6. h \in [0..(k + 1) -> V]
    BY <2>3
  <2> HIDE DEF h
  <2>c. \A n \in 1..k : g[n] = F[<<n, g[n - 1]>>] /\ n \in 0..k
    BY <2>1
  <2>4. ASSUME NEW n \in 1..(k + 1) PROVE h[n] = F[<<n, h[n - 1]>>]
    <3>1. n - 1 \in 0..k /\ h[n - 1] = g[n - 1]
      BY <2>a, <2>b
    <3>2. CASE n = k + 1
      <4>1. n - 1 = k
        BY <3>2
      <4> QED
        BY <2>a, <3>1, <3>2, <4>1
    <3>3. CASE n \in 1..k
      BY <2>a, <2>c, <3>1, <3>3
    <3> QED
      BY <2>b, <3>2, <3>3
  <2>7. Is(h, k + 1)
    BY <2>4, <2>5, <2>6
  <2> HIDE DEF Is
  <2> QED
    BY <2>7
<1> HIDE DEF T
<1>3. 0..N \subseteq T
  BY <1>1, <1>2, UpTo
<1>4. N \in T
  BY <1>3
<1> QED
  BY <1>4 DEF T, Runs

\* Two functions on 0..N with the same start whose steps agree are equal.
LEMMA SameUpTo ==
  ASSUME NEW N \in Nat, NEW f, NEW g, f[0] = g[0],
         \A k \in 0..(N - 1) : f[k] = g[k] => f[k + 1] = g[k + 1]
  PROVE  \A k \in 0..N : f[k] = g[k]
<1> DEFINE T == {k \in 0..N : f[k] = g[k]}
<1>1. 0 \in T /\ \A k \in 0..(N - 1) : k \in T => k + 1 \in T
  OBVIOUS
<1> HIDE DEF T
<1>2. 0..N \subseteq T
  BY <1>1, UpTo
<1> QED
  BY <1>2 DEF T

\* Among is a loop over the sequence.
AmongLoop(s, S, K) ==
    /\ Among(s, S) = K[Len(s)] /\ K[0] = <<>>
    /\ \A n \in 1..Len(s) : K[n] = IF s[n] \in S THEN Append(K[n - 1], s[n]) ELSE K[n - 1]

\* Among, its loop written as equations.
LEMMA AmongUnfolds ==
  ASSUME NEW X, NEW s \in Seq(X), NEW S
  PROVE  \E K \in [0..Len(s) -> Seq(X)] : AmongLoop(s, S, K)
<1> DEFINE N == Len(s)
           V == Seq(X)
           Turn(n, v) == IF s[n] \in S THEN Append(v, s[n]) ELSE v
           F == [p \in (1..N) \X V |-> Turn(p[1], p[2])]
           Is(g) == g = [n \in 0..N |-> IF n = 0 THEN <<>> ELSE Turn(n, g[n - 1])]
           L == CHOOSE g : Is(g)
<1>1. Among(s, S) = L[N]
  BY DEF Among
<1>2. N \in Nat /\ <<>> \in V /\ \A n \in 1..N, v \in V : Turn(n, v) \in V
  OBVIOUS
<1> HIDE DEF N, V, Turn
<1>3. F \in [(1..N) \X V -> V]
  BY <1>2
<1>4. \A n \in 1..N, v \in V : F[<<n, v>>] = Turn(n, v)
  OBVIOUS
<1> HIDE DEF F
<1>a. PICK g : Runs(g, N, V, <<>>, F)
  BY <1>2, <1>3, Recursion
<1>5. g \in [0..N -> V] /\ g[0] = <<>> /\ \A n \in 1..N : g[n] = F[<<n, g[n - 1]>>]
  BY <1>a DEF Runs
<1>b. \A n \in 1..N : n - 1 \in 0..N
  BY <1>2
<1>6. ASSUME NEW n \in 1..N PROVE g[n] = Turn(n, g[n - 1])
  <2>1. g[n - 1] \in V /\ g[n] = F[<<n, g[n - 1]>>]
    BY <1>5, <1>b
  <2> QED
    BY <1>4, <2>1
<1>7. Is(g)
  BY <1>2, <1>5, <1>6
<1>8. Is(L)
  <2> HIDE DEF Is
  <2> QED
    BY <1>7
<1> HIDE DEF L
<1>9. \A k \in 0..N : L[k] = g[k]
  <2>a. L[0] = g[0]
    BY <1>2, <1>5, <1>8
  <2>b. \A n \in 1..N : L[n] = Turn(n, L[n - 1])
    BY <1>2, <1>8
  <2>c. \A k \in 0..(N - 1) : k + 1 \in 1..N /\ (k + 1) - 1 = k
    BY <1>2
  <2>1. /\ L[0] = g[0]
        /\ \A k \in 0..(N - 1) : L[k + 1] = Turn(k + 1, L[k]) /\ g[k + 1] = Turn(k + 1, g[k])
    <3> HIDE DEF Is
    <3>1. ASSUME NEW k \in 0..(N - 1)
          PROVE  L[k + 1] = Turn(k + 1, L[k]) /\ g[k + 1] = Turn(k + 1, g[k])
      BY <1>6, <2>b, <2>c
    <3> QED
      BY <2>a, <3>1
  <2> HIDE DEF Is
  <2>2. \A k \in 0..(N - 1) : L[k] = g[k] => L[k + 1] = g[k + 1]
    BY <2>1
  <2>3. L[0] = g[0] /\ N \in Nat
    BY <1>2, <2>1
  <2> HIDE DEF Turn, N, V, F
  <2> QED
    BY <2>2, <2>3, SameUpTo
<1>10. Among(s, S) = g[N]
  BY <1>1, <1>2, <1>9
<1>11. AmongLoop(s, S, g)
  BY <1>5, <1>6, <1>10 DEF AmongLoop, N, Turn
<1> QED
  BY <1>5, <1>11 DEF N, V

\* Lines, UniqueTail, stable_merge and the sum of timestamps_regress are loops too.
LinesLoop(recs, K) ==
    /\ Lines(recs) = K[Len(recs)] /\ K[0] = <<>>
    /\ \A n \in 1..Len(recs) : K[n] = K[n - 1] \o recs[n].text

\* Lines, its loop written as equations.
LEMMA LinesUnfolds ==
  ASSUME NEW X, NEW recs, Len(recs) \in Nat, \A n \in 1..Len(recs) : recs[n].text \in Seq(X)
  PROVE  \E K \in [0..Len(recs) -> Seq(X)] : LinesLoop(recs, K)
<1> DEFINE N == Len(recs)
           V == Seq(X)
           Turn(n, v) == v \o recs[n].text
           F == [p \in (1..N) \X V |-> Turn(p[1], p[2])]
           Is(g) == g = [n \in 0..N |-> IF n = 0 THEN <<>> ELSE Turn(n, g[n - 1])]
           L == CHOOSE g : Is(g)
<1>1. Lines(recs) = L[N]
  BY DEF Lines
<1>2. N \in Nat /\ <<>> \in V /\ \A n \in 1..N, v \in V : Turn(n, v) \in V
  OBVIOUS
<1> HIDE DEF N, V, Turn
<1>3. F \in [(1..N) \X V -> V]
  BY <1>2
<1>4. \A n \in 1..N, v \in V : F[<<n, v>>] = Turn(n, v)
  OBVIOUS
<1> HIDE DEF F
<1>a. PICK g : Runs(g, N, V, <<>>, F)
  BY <1>2, <1>3, Recursion
<1>5. g \in [0..N -> V] /\ g[0] = <<>> /\ \A n \in 1..N : g[n] = F[<<n, g[n - 1]>>]
  BY <1>a DEF Runs
<1>b. \A n \in 1..N : n - 1 \in 0..N
  BY <1>2
<1>6. ASSUME NEW n \in 1..N PROVE g[n] = Turn(n, g[n - 1])
  <2>1. g[n - 1] \in V /\ g[n] = F[<<n, g[n - 1]>>]
    BY <1>5, <1>b
  <2> QED
    BY <1>4, <2>1
<1>7. Is(g)
  BY <1>2, <1>5, <1>6
<1>8. Is(L)
  <2> HIDE DEF Is
  <2> QED
    BY <1>7
<1> HIDE DEF L
<1>9. \A k \in 0..N : L[k] = g[k]
  <2>a. L[0] = g[0]
    BY <1>2, <1>5, <1>8
  <2>b. \A n \in 1..N : L[n] = Turn(n, L[n - 1])
    BY <1>2, <1>8
  <2>c. \A k \in 0..(N - 1) : k + 1 \in 1..N /\ (k + 1) - 1 = k
    BY <1>2
  <2>1. /\ L[0] = g[0]
        /\ \A k \in 0..(N - 1) : L[k + 1] = Turn(k + 1, L[k]) /\ g[k + 1] = Turn(k + 1, g[k])
    <3> HIDE DEF Is
    <3>1. ASSUME NEW k \in 0..(N - 1)
          PROVE  L[k + 1] = Turn(k + 1, L[k]) /\ g[k + 1] = Turn(k + 1, g[k])
      BY <1>6, <2>b, <2>c
    <3> QED
      BY <2>a, <3>1
  <2> HIDE DEF Is
  <2>2. \A k \in 0..(N - 1) : L[k] = g[k] => L[k + 1] = g[k + 1]
    BY <2>1
  <2>3. L[0] = g[0] /\ N \in Nat
    BY <1>2, <2>1
  <2> HIDE DEF Turn, N, V, F
  <2> QED
    BY <2>2, <2>3, SameUpTo
<1>10. L[N] = g[N]
  BY <1>2, <1>9
<1>11. LinesLoop(recs, g)
  BY <1>1, <1>5, <1>6, <1>10 DEF LinesLoop, N, Turn
<1> QED
  BY <1>5, <1>11 DEF N, V

UniqueLoop(kernel, tail, K) ==
    /\ UniqueTail(kernel, tail) = K[Len(tail)] /\ K[0] = <<>>
    /\ \A n \in 1..Len(tail) :
          K[n] = IF Times(tail[n].text, SubSeq(tail, 1, n)) > Times(tail[n].text, kernel)
                 THEN Append(K[n - 1], tail[n]) ELSE K[n - 1]

\* UniqueTail, its loop written as equations.
LEMMA UniqueUnfolds ==
  ASSUME NEW R, NEW tail \in Seq(R), NEW kernel
  PROVE  \E K \in [0..Len(tail) -> Seq(R)] : UniqueLoop(kernel, tail, K)
<1> DEFINE N == Len(tail)
           V == Seq(R)
           Turn(n, v) == IF Times(tail[n].text, SubSeq(tail, 1, n)) > Times(tail[n].text, kernel)
                         THEN Append(v, tail[n]) ELSE v
           F == [p \in (1..N) \X V |-> Turn(p[1], p[2])]
           Is(g) == g = [n \in 0..N |-> IF n = 0 THEN <<>> ELSE Turn(n, g[n - 1])]
           L == CHOOSE g : Is(g)
<1>1. UniqueTail(kernel, tail) = L[N]
  BY DEF UniqueTail
<1>2. N \in Nat /\ <<>> \in V /\ \A n \in 1..N, v \in V : Turn(n, v) \in V
  OBVIOUS
<1> HIDE DEF N, V, Turn
<1>3. F \in [(1..N) \X V -> V]
  BY <1>2
<1>4. \A n \in 1..N, v \in V : F[<<n, v>>] = Turn(n, v)
  OBVIOUS
<1> HIDE DEF F
<1>a. PICK g : Runs(g, N, V, <<>>, F)
  BY <1>2, <1>3, Recursion
<1>5. g \in [0..N -> V] /\ g[0] = <<>> /\ \A n \in 1..N : g[n] = F[<<n, g[n - 1]>>]
  BY <1>a DEF Runs
<1>b. \A n \in 1..N : n - 1 \in 0..N
  BY <1>2
<1>6. ASSUME NEW n \in 1..N PROVE g[n] = Turn(n, g[n - 1])
  <2>1. g[n - 1] \in V /\ g[n] = F[<<n, g[n - 1]>>]
    BY <1>5, <1>b
  <2> QED
    BY <1>4, <2>1
<1>7. Is(g)
  BY <1>2, <1>5, <1>6
<1>8. Is(L)
  <2> HIDE DEF Is
  <2> QED
    BY <1>7
<1> HIDE DEF L
<1>9. \A k \in 0..N : L[k] = g[k]
  <2>a. L[0] = g[0]
    BY <1>2, <1>5, <1>8
  <2>b. \A n \in 1..N : L[n] = Turn(n, L[n - 1])
    BY <1>2, <1>8
  <2>c. \A k \in 0..(N - 1) : k + 1 \in 1..N /\ (k + 1) - 1 = k
    BY <1>2
  <2>1. /\ L[0] = g[0]
        /\ \A k \in 0..(N - 1) : L[k + 1] = Turn(k + 1, L[k]) /\ g[k + 1] = Turn(k + 1, g[k])
    <3> HIDE DEF Is
    <3>1. ASSUME NEW k \in 0..(N - 1)
          PROVE  L[k + 1] = Turn(k + 1, L[k]) /\ g[k + 1] = Turn(k + 1, g[k])
      BY <1>6, <2>b, <2>c
    <3> QED
      BY <2>a, <3>1
  <2> HIDE DEF Is
  <2>2. \A k \in 0..(N - 1) : L[k] = g[k] => L[k + 1] = g[k + 1]
    BY <2>1
  <2>3. L[0] = g[0] /\ N \in Nat
    BY <1>2, <2>1
  <2> HIDE DEF Turn, N, V, F
  <2> QED
    BY <2>2, <2>3, SameUpTo
<1>10. L[N] = g[N]
  BY <1>2, <1>9
<1>11. UniqueLoop(kernel, tail, g)
  BY <1>1, <1>5, <1>6, <1>10 DEF UniqueLoop, N, Turn
<1> QED
  BY <1>5, <1>11 DEF N, V

MergeLoop(kernel, tail, K) ==
    /\ stable_merge(kernel, tail) = K[Len(kernel) + Len(tail)].merged
    /\ K[0] = [taken |-> 0, merged |-> <<>>]
    /\ \A n \in 1..(Len(kernel) + Len(tail)) : K[n] = MergeTurn(kernel, tail, n, K[n - 1])

\* stable_merge, its loop written as equations.
LEMMA MergeUnfolds ==
  ASSUME NEW R, NEW kernel \in Seq(R), NEW tail \in Seq(R)
  PROVE  \E K \in [0..(Len(kernel) + Len(tail)) ->
                   [taken : Int, merged : Seq(R \cup {tail[i] : i \in Int} \cup {kernel[i] : i \in Int})]] :
            MergeLoop(kernel, tail, K)
<1> DEFINE N == (Len(kernel) + Len(tail))
           V == [taken : Int, merged : Seq(R \cup {tail[i] : i \in Int} \cup {kernel[i] : i \in Int})]
           Turn(n, v) == MergeTurn(kernel, tail, n, v)
           F == [p \in (1..N) \X V |-> Turn(p[1], p[2])]
           Is(g) == g = [n \in 0..N |-> IF n = 0 THEN [taken |-> 0, merged |-> <<>>] ELSE Turn(n, g[n - 1])]
           L == CHOOSE g : Is(g)
<1>1. stable_merge(kernel, tail) = L[N].merged
  BY DEF stable_merge
<1>2. N \in Nat /\ [taken |-> 0, merged |-> <<>>] \in V /\ \A n \in 1..N, v \in V : Turn(n, v) \in V
  BY DEF MergeTurn
<1> HIDE DEF N, V, Turn
<1>3. F \in [(1..N) \X V -> V]
  BY <1>2
<1>4. \A n \in 1..N, v \in V : F[<<n, v>>] = Turn(n, v)
  OBVIOUS
<1> HIDE DEF F
<1>a. PICK g : Runs(g, N, V, [taken |-> 0, merged |-> <<>>], F)
  BY <1>2, <1>3, Recursion
<1>5. g \in [0..N -> V] /\ g[0] = [taken |-> 0, merged |-> <<>>] /\ \A n \in 1..N : g[n] = F[<<n, g[n - 1]>>]
  BY <1>a DEF Runs
<1>b. \A n \in 1..N : n - 1 \in 0..N
  BY <1>2
<1>6. ASSUME NEW n \in 1..N PROVE g[n] = Turn(n, g[n - 1])
  <2>1. g[n - 1] \in V /\ g[n] = F[<<n, g[n - 1]>>]
    BY <1>5, <1>b
  <2> QED
    BY <1>4, <2>1
<1>7. Is(g)
  BY <1>2, <1>5, <1>6
<1>8. Is(L)
  <2> HIDE DEF Is
  <2> QED
    BY <1>7
<1> HIDE DEF L
<1>9. \A k \in 0..N : L[k] = g[k]
  <2>a. L[0] = g[0]
    BY <1>2, <1>5, <1>8
  <2>b. \A n \in 1..N : L[n] = Turn(n, L[n - 1])
    BY <1>2, <1>8
  <2>c. \A k \in 0..(N - 1) : k + 1 \in 1..N /\ (k + 1) - 1 = k
    BY <1>2
  <2>1. /\ L[0] = g[0]
        /\ \A k \in 0..(N - 1) : L[k + 1] = Turn(k + 1, L[k]) /\ g[k + 1] = Turn(k + 1, g[k])
    <3> HIDE DEF Is
    <3>1. ASSUME NEW k \in 0..(N - 1)
          PROVE  L[k + 1] = Turn(k + 1, L[k]) /\ g[k + 1] = Turn(k + 1, g[k])
      BY <1>6, <2>b, <2>c
    <3> QED
      BY <2>a, <3>1
  <2> HIDE DEF Is
  <2>2. \A k \in 0..(N - 1) : L[k] = g[k] => L[k + 1] = g[k + 1]
    BY <2>1
  <2>3. L[0] = g[0] /\ N \in Nat
    BY <1>2, <2>1
  <2> HIDE DEF Turn, N, V, F
  <2> QED
    BY <2>2, <2>3, SameUpTo
<1>10. L[N] = g[N]
  BY <1>2, <1>9
<1>11. MergeLoop(kernel, tail, g)
  BY <1>1, <1>5, <1>6, <1>10 DEF MergeLoop, N, Turn
<1> QED
  BY <1>5, <1>11 DEF N, V

RegressLoop(rows, K) ==
    /\ timestamps_regress(rows) <=> K[Len(rows)] > Tolerance
    /\ K[0] = 0
    /\ \A n \in 1..Len(rows) : K[n] = K[n - 1] + Back(rows, n)

\* timestamps_regress, its loop written as equations.
LEMMA RegressUnfolds ==
  ASSUME NEW rows, Len(rows) \in Nat, \A n \in 1..Len(rows) : rows[n].t \in Int
  PROVE  \E K \in [0..Len(rows) -> Nat] : RegressLoop(rows, K)
<1> DEFINE N == Len(rows)
           V == Nat
           Turn(n, v) == v + Back(rows, n)
           F == [p \in (1..N) \X V |-> Turn(p[1], p[2])]
           Is(g) == g = [n \in 0..N |-> IF n = 0 THEN 0 ELSE Turn(n, g[n - 1])]
           L == CHOOSE g : Is(g)
<1>1. timestamps_regress(rows) <=> L[N] > Tolerance
  BY DEF timestamps_regress
<1>2. N \in Nat /\ 0 \in V /\ \A n \in 1..N, v \in V : Turn(n, v) \in V
  BY DEF Back
<1> HIDE DEF N, V, Turn
<1>3. F \in [(1..N) \X V -> V]
  BY <1>2
<1>4. \A n \in 1..N, v \in V : F[<<n, v>>] = Turn(n, v)
  OBVIOUS
<1> HIDE DEF F
<1>a. PICK g : Runs(g, N, V, 0, F)
  BY <1>2, <1>3, Recursion
<1>5. g \in [0..N -> V] /\ g[0] = 0 /\ \A n \in 1..N : g[n] = F[<<n, g[n - 1]>>]
  BY <1>a DEF Runs
<1>b. \A n \in 1..N : n - 1 \in 0..N
  BY <1>2
<1>6. ASSUME NEW n \in 1..N PROVE g[n] = Turn(n, g[n - 1])
  <2>1. g[n - 1] \in V /\ g[n] = F[<<n, g[n - 1]>>]
    BY <1>5, <1>b
  <2> QED
    BY <1>4, <2>1
<1>7. Is(g)
  BY <1>2, <1>5, <1>6
<1>8. Is(L)
  <2> HIDE DEF Is
  <2> QED
    BY <1>7
<1> HIDE DEF L
<1>9. \A k \in 0..N : L[k] = g[k]
  <2>a. L[0] = g[0]
    BY <1>2, <1>5, <1>8
  <2>b. \A n \in 1..N : L[n] = Turn(n, L[n - 1])
    BY <1>2, <1>8
  <2>c. \A k \in 0..(N - 1) : k + 1 \in 1..N /\ (k + 1) - 1 = k
    BY <1>2
  <2>1. /\ L[0] = g[0]
        /\ \A k \in 0..(N - 1) : L[k + 1] = Turn(k + 1, L[k]) /\ g[k + 1] = Turn(k + 1, g[k])
    <3> HIDE DEF Is
    <3>1. ASSUME NEW k \in 0..(N - 1)
          PROVE  L[k + 1] = Turn(k + 1, L[k]) /\ g[k + 1] = Turn(k + 1, g[k])
      BY <1>6, <2>b, <2>c
    <3> QED
      BY <2>a, <3>1
  <2> HIDE DEF Is
  <2>2. \A k \in 0..(N - 1) : L[k] = g[k] => L[k + 1] = g[k + 1]
    BY <2>1
  <2>3. L[0] = g[0] /\ N \in Nat
    BY <1>2, <2>1
  <2> HIDE DEF Turn, N, V, F
  <2> QED
    BY <2>2, <2>3, SameUpTo
<1>10. L[N] = g[N]
  BY <1>2, <1>9
<1>11. RegressLoop(rows, g)
  BY <1>1, <1>5, <1>6, <1>10 DEF RegressLoop, N, Turn
<1> QED
  BY <1>5, <1>11 DEF N, V
-----------------------------------------------------------------------------
(* Journals: elements and positions *)

Elems(s) == {s[i] : i \in 1..Len(s)}

\* The elements of a sequence with one more.
LEMMA ElemsAppend ==
  ASSUME NEW X, NEW s \in Seq(X), NEW x \in X
  PROVE  Elems(Append(s, x)) = Elems(s) \cup {x} /\ Elems(<<>>) = {}
<1>1. Len(Append(s, x)) = Len(s) + 1 /\ Len(s) \in Nat
  OBVIOUS
<1>2. \A i \in 1..(Len(s) + 1) : Append(s, x)[i] = IF i = Len(s) + 1 THEN x ELSE s[i]
  OBVIOUS
<1>3. ASSUME NEW y \in Elems(Append(s, x)) PROVE y \in Elems(s) \cup {x}
  <2>1. PICK i \in 1..(Len(s) + 1) : y = Append(s, x)[i]
    BY <1>1 DEF Elems
  <2> QED
    BY <1>1, <1>2, <2>1 DEF Elems
<1>4. ASSUME NEW y \in Elems(s) PROVE y \in Elems(Append(s, x))
  <2>1. PICK i \in 1..Len(s) : y = s[i]
    BY DEF Elems
  <2>2. i \in 1..(Len(s) + 1) /\ Append(s, x)[i] = y
    BY <1>1, <1>2, <2>1
  <2> QED
    BY <1>1, <2>2 DEF Elems
<1>5. x \in Elems(Append(s, x))
  <2>1. Len(s) + 1 \in 1..(Len(s) + 1) /\ Append(s, x)[Len(s) + 1] = x
    BY <1>1, <1>2
  <2> QED
    BY <1>1, <2>1 DEF Elems
<1>6. Elems(<<>>) = {}
  BY DEF Elems
<1> QED
  BY <1>3, <1>4, <1>5, <1>6

\* Among keeps what belongs to S.
LEMMA AmongElems ==
  ASSUME NEW X, NEW s \in Seq(X), NEW S
  PROVE  Among(s, S) \in Seq(X) /\ Elems(Among(s, S)) = Elems(s) \cap S
<1>1. PICK K \in [0..Len(s) -> Seq(X)] : AmongLoop(s, S, K)
  BY AmongUnfolds
<1> DEFINE N == Len(s)
           T == {k \in 0..N : Elems(K[k]) = {s[i] : i \in 1..k} \cap S}
<1>0. N \in Nat /\ \A n \in 1..N : s[n] \in X
  OBVIOUS
<1>2. /\ K[0] = <<>> /\ Among(s, S) = K[N]
      /\ \A k \in 0..(N - 1) : K[k + 1] = IF s[k + 1] \in S THEN Append(K[k], s[k + 1]) ELSE K[k]
  BY <1>0, <1>1 DEF AmongLoop
<1> HIDE DEF N
<1>3. 0 \in T
  BY <1>0, <1>2 DEF Elems
<1>4. ASSUME NEW k \in 0..(N - 1), k \in T PROVE k + 1 \in T
  <2>1. K[k] \in Seq(X) /\ s[k + 1] \in X
    BY <1>0, <1>1 DEF N
  <2>2. Elems(K[k + 1]) = IF s[k + 1] \in S THEN Elems(K[k]) \cup {s[k + 1]} ELSE Elems(K[k])
    <3>1. Elems(Append(K[k], s[k + 1])) = Elems(K[k]) \cup {s[k + 1]}
      BY <2>1, ElemsAppend
    <3>2. K[k + 1] = IF s[k + 1] \in S THEN Append(K[k], s[k + 1]) ELSE K[k]
      BY <1>2
    <3> QED
      BY <3>1, <3>2
  <2>3. {s[i] : i \in 1..(k + 1)} = {s[i] : i \in 1..k} \cup {s[k + 1]}
    <3>1. 1..(k + 1) = (1..k) \cup {k + 1}
      BY <1>0
    <3> QED
      BY <3>1
  <2>4. k + 1 \in 0..N
    BY <1>0
  <2> QED
    BY <1>4, <2>2, <2>3, <2>4
<1> HIDE DEF T
<1>5. 0..N \subseteq T
  BY <1>0, <1>3, <1>4, UpTo
<1>6. Elems(K[N]) = {s[i] : i \in 1..N} \cap S
  BY <1>0, <1>5 DEF T
<1>7. Elems(s) = {s[i] : i \in 1..N} /\ N \in 0..N
  BY <1>0 DEF Elems, N
<1>8. K[N] \in Seq(X)
  BY <1>1, <1>7 DEF N
<1> QED
  BY <1>2, <1>6, <1>7, <1>8

Increasing(h) == \A i, k \in 1..Len(h) : i < k => h[i] < h[k]

\* Positions in order: each once, increasing.
LEMMA InOrderRight ==
  ASSUME NEW j, Len(j) \in Nat, NEW S
  PROVE  LET h == InOrder(j, S)
         IN h \in Seq(Nat) /\ Elems(h) = (1..Len(j)) \cap S /\ Increasing(h)
<1> DEFINE N == Len(j)
           id == [n \in 1..N |-> n]
<1>0. N \in Nat
  OBVIOUS
<1>1. InOrder(j, S) = Among(id, S)
  BY DEF InOrder
<1> HIDE DEF N
<1>2. id \in Seq(Nat) /\ Len(id) = N /\ \A n \in 1..N : id[n] = n
  BY <1>0
<1>3. Elems(id) = 1..N
  BY <1>2 DEF Elems
<1> HIDE DEF id
<1>4. PICK K \in [0..N -> Seq(Nat)] : AmongLoop(id, S, K)
  BY <1>2, AmongUnfolds
<1>5. /\ K[0] = <<>> /\ Among(id, S) = K[N]
      /\ \A k \in 0..(N - 1) : K[k + 1] = IF k + 1 \in S THEN Append(K[k], k + 1) ELSE K[k]
  <2>1. /\ K[0] = <<>> /\ Among(id, S) = K[N]
        /\ \A n \in 1..N : K[n] = IF id[n] \in S THEN Append(K[n - 1], id[n]) ELSE K[n - 1]
    BY <1>2, <1>4 DEF AmongLoop
  <2>2. ASSUME NEW k \in 0..(N - 1)
        PROVE  K[k + 1] = IF k + 1 \in S THEN Append(K[k], k + 1) ELSE K[k]
    <3>1. k + 1 \in 1..N /\ (k + 1) - 1 = k
      BY <1>0
    <3>2. id[k + 1] = k + 1
      BY <1>2, <3>1
    <3>3. K[k + 1] = IF id[k + 1] \in S THEN Append(K[(k + 1) - 1], id[k + 1]) ELSE K[(k + 1) - 1]
      BY <2>1, <3>1
    <3> QED
      BY <3>1, <3>2, <3>3
  <2> QED
    BY <2>1, <2>2
<1> DEFINE T == {k \in 0..N : Increasing(K[k]) /\ \A i \in 1..Len(K[k]) : K[k][i] <= k}
<1>6. 0 \in T
  BY <1>0, <1>5 DEF Increasing
<1>7. ASSUME NEW k \in 0..(N - 1), k \in T PROVE k + 1 \in T
  <2>1. K[k] \in Seq(Nat) /\ k + 1 \in Nat /\ k + 1 \in 0..N /\ Len(K[k]) \in Nat
    BY <1>0, <1>4
  <2>2. \A i \in 1..Len(K[k]) : K[k][i] \in Nat
    BY <2>1
  <2>3. CASE k + 1 \in S
    <3>1. K[k + 1] = Append(K[k], k + 1)
      BY <1>5, <2>3
    <3>2. /\ Len(K[k + 1]) = Len(K[k]) + 1
          /\ \A i \in 1..(Len(K[k]) + 1) : K[k + 1][i] = IF i = Len(K[k]) + 1 THEN k + 1 ELSE K[k][i]
      BY <2>1, <3>1
    <3>3. \A i \in 1..(Len(K[k]) + 1) : i = Len(K[k]) + 1 \/ i \in 1..Len(K[k])
      BY <2>1
    <3>4. \A i \in 1..Len(K[k + 1]) : K[k + 1][i] <= k + 1
      BY <1>7, <2>1, <2>2, <3>2, <3>3
    <3>5. Increasing(K[k + 1])
      <4> DEFINE M == Len(K[k])
      <4>0. M \in Nat /\ Increasing(K[k]) /\ \A i \in 1..M : K[k][i] <= k
        BY <1>7, <2>1
      <4>1. ASSUME NEW i \in 1..(M + 1), NEW q \in 1..(M + 1), i < q PROVE K[k + 1][i] < K[k + 1][q]
        <5>1. i \in 1..M /\ i # M + 1
          BY <4>0, <4>1
        <5>2. K[k + 1][i] = K[k][i] /\ K[k][i] \in Nat /\ K[k][i] <= k
          BY <2>2, <3>2, <4>0, <5>1
        <5>3. CASE q = M + 1
          <6>1. K[k + 1][q] = k + 1
            BY <3>2, <5>3
          <6> QED
            BY <2>1, <5>2, <6>1
        <5>4. CASE q \in 1..M
          <6>1. K[k + 1][q] = K[k][q]
            BY <3>2, <4>0, <5>4
          <6>2. K[k][i] < K[k][q]
            BY <4>0, <4>1, <5>1, <5>4 DEF Increasing
          <6> QED
            BY <5>2, <6>1, <6>2
        <5> QED
          BY <3>3, <5>3, <5>4
      <4> QED
        BY <3>2, <4>1 DEF Increasing
    <3> QED
      BY <2>1, <3>4, <3>5
  <2>4. CASE k + 1 \notin S
    <3>1. K[k + 1] = K[k]
      BY <1>5, <2>4
    <3>2. \A i \in 1..Len(K[k]) : K[k][i] <= k + 1
      BY <1>0, <1>7, <2>2
    <3> QED
      BY <1>7, <2>1, <3>1, <3>2
  <2> QED
    BY <2>3, <2>4
<1> HIDE DEF T
<1>8. 0..N \subseteq T
  BY <1>0, <1>6, <1>7, UpTo
<1>9. Increasing(K[N])
  BY <1>0, <1>8 DEF T
<1>10. Among(id, S) \in Seq(Nat) /\ Elems(Among(id, S)) = (1..N) \cap S
  BY <1>2, <1>3, AmongElems
<1> QED
  BY <1>1, <1>5, <1>9, <1>10 DEF N

\* Two increasing sequences of the same numbers are equal.
LEMMA SortedUnique ==
  ASSUME NEW h \in Seq(Nat), NEW g \in Seq(Nat), Increasing(h), Increasing(g), Elems(h) = Elems(g)
  PROVE  h = g
<1>0. Len(h) \in Nat /\ Len(g) \in Nat
  OBVIOUS
<1>a. (\A i \in 1..Len(h) : h[i] \in Nat) /\ \A i \in 1..Len(g) : g[i] \in Nat
  OBVIOUS
<1>1. ASSUME NEW i \in 1..Len(h) PROVE h[i] \in Nat /\ \E k \in 1..Len(g) : g[k] = h[i]
  <2>1. h[i] \in Elems(g)
    BY DEF Elems
  <2> QED
    BY <1>a, <2>1 DEF Elems
<1>2. ASSUME NEW i \in 1..Len(g) PROVE g[i] \in Nat /\ \E k \in 1..Len(h) : h[k] = g[i]
  <2>1. g[i] \in Elems(h)
    BY DEF Elems
  <2> QED
    BY <1>a, <2>1 DEF Elems
<1> DEFINE Same(n) == \A i \in 1..n : /\ i \in 1..Len(h) <=> i \in 1..Len(g)
                                      /\ i \in 1..Len(h) => h[i] = g[i]
           M == Len(h) + Len(g)
           T == {n \in 0..M : Same(n)}
<1>3. M \in Nat
  BY <1>0
<1>4. 0 \in T
  BY <1>3
<1>5. ASSUME NEW n \in 0..(M - 1), n \in T PROVE n + 1 \in T
  <2>0. n \in Nat /\ n + 1 \in 0..M /\ Same(n) /\ \A i \in 1..(n + 1) : i = n + 1 \/ i \in 1..n
    BY <1>3, <1>5
  <2>1. ASSUME n + 1 \in 1..Len(h) PROVE n + 1 \in 1..Len(g) /\ g[n + 1] <= h[n + 1]
    <3>1. PICK k \in 1..Len(g) : g[k] = h[n + 1]
      BY <1>1, <2>1
    <3>2. k > n
      <4> SUFFICES ASSUME k <= n PROVE FALSE
        BY <1>0, <2>0
      <4>1. k \in 1..n /\ k \in 1..Len(h) /\ h[k] = g[k] /\ k < n + 1
        BY <1>0, <2>0
      <4>2. h[k] < h[n + 1] /\ h[k] \in Nat /\ h[n + 1] \in Nat
        BY <1>1, <2>1, <4>1 DEF Increasing
      <4> QED
        BY <3>1, <4>1, <4>2
    <3> HIDE DEF T
    <3>3. n + 1 \in 1..Len(g)
      BY <1>0, <2>0, <3>2
    <3>4. n + 1 = k \/ n + 1 < k
      BY <2>0, <3>2
    <3>5. n + 1 < k => g[n + 1] < g[k]
      BY <3>3 DEF Increasing
    <3>6. g[n + 1] \in Nat /\ g[k] \in Nat
      BY <1>a, <3>3
    <3>7. g[n + 1] <= g[k]
      <4>1. \A a, b \in Nat : a < b \/ a = b => a <= b
        OBVIOUS
      <4> QED
        BY <3>4, <3>5, <3>6, <4>1
    <3> QED
      BY <3>1, <3>3, <3>7
  <2>2. ASSUME n + 1 \in 1..Len(g) PROVE n + 1 \in 1..Len(h) /\ h[n + 1] <= g[n + 1]
    <3>1. PICK k \in 1..Len(h) : h[k] = g[n + 1]
      BY <1>2, <2>2
    <3>2. k > n
      <4> SUFFICES ASSUME k <= n PROVE FALSE
        BY <1>0, <2>0
      <4>1. k \in 1..n /\ k \in 1..Len(g) /\ h[k] = g[k] /\ k < n + 1
        BY <1>0, <2>0
      <4>2. g[k] < g[n + 1] /\ g[k] \in Nat /\ g[n + 1] \in Nat
        BY <1>2, <2>2, <4>1 DEF Increasing
      <4> QED
        BY <3>1, <4>1, <4>2
    <3> HIDE DEF T
    <3>3. n + 1 \in 1..Len(h)
      BY <1>0, <2>0, <3>2
    <3>4. n + 1 = k \/ n + 1 < k
      BY <2>0, <3>2
    <3>5. n + 1 < k => h[n + 1] < h[k]
      BY <3>3 DEF Increasing
    <3>6. h[n + 1] \in Nat /\ h[k] \in Nat
      BY <1>a, <3>3
    <3>7. h[n + 1] <= h[k]
      <4>1. \A a, b \in Nat : a < b \/ a = b => a <= b
        OBVIOUS
      <4> QED
        BY <3>4, <3>5, <3>6, <4>1
    <3> QED
      BY <3>1, <3>3, <3>7
  <2>3. ASSUME n + 1 \in 1..Len(h) PROVE h[n + 1] = g[n + 1]
    <3>1. n + 1 \in 1..Len(g) /\ g[n + 1] <= h[n + 1] /\ h[n + 1] <= g[n + 1]
      BY <2>1, <2>2, <2>3
    <3>2. h[n + 1] \in Nat /\ g[n + 1] \in Nat
      BY <1>a, <2>3, <3>1
    <3> QED
      BY <3>1, <3>2
  <2>4. Same(n + 1)
    BY <2>0, <2>1, <2>2, <2>3
  <2> QED
    BY <2>0, <2>4
<1> HIDE DEF T
<1>6. 0..M \subseteq T
  BY <1>3, <1>4, <1>5, UpTo
<1>7. Same(M)
  BY <1>3, <1>6 DEF T
<1>8. Len(h) = Len(g)
  BY <1>0, <1>7, SMTT(30)
<1>9. \A i \in 1..Len(h) : h[i] = g[i]
  BY <1>0, <1>7
<1> QED
  BY <1>8, <1>9, SeqEqual
-----------------------------------------------------------------------------
(* Journals: the rows *)

Row == [t : Int, zone : Int, kernel : BOOLEAN, bdf : STRING, says : SUBSET STRING]

\* The extent of a record: from its head to the line before the next head.
LEMMA Extent ==
  ASSUME NEW j, Len(j) \in Nat, NEW h \in Seq(Nat), Increasing(h), Elems(h) \subseteq 1..Len(j),
         NEW i \in 1..Len(h)
  PROVE  /\ h[i] \in 1..Len(j) /\ EndOf(j, h, i) \in h[i]..Len(j)
         /\ i < Len(h) => EndOf(j, h, i) = h[i + 1] - 1 /\ h[i + 1] \in 1..Len(j)
<1>1. h[i] \in 1..Len(j) /\ Len(h) \in Nat
  BY DEF Elems
<1>2. CASE i < Len(h)
  <2>1. i + 1 \in 1..Len(h)
    BY <1>1, <1>2
  <2>2. h[i] < h[i + 1] /\ h[i + 1] \in 1..Len(j)
    BY <1>2, <2>1 DEF Increasing, Elems
  <2> QED
    BY <1>1, <1>2, <2>2 DEF EndOf
<1>3. CASE ~(i < Len(h))
  BY <1>1, <1>3 DEF EndOf
<1> QED
  BY <1>2, <1>3

Stamped(j) == {n \in 1..Len(j) : j[n].t # NoStamp}
RowFrom(j, a, b) ==
    [t |-> j[a].t, zone |-> j[a].zone, kernel |-> j[a].kernel, bdf |-> j[a].bdf,
     says |-> {j[k].says : k \in {n \in a..b : n = a \/ j[n].indent}}]
FoldOf(j, h, rows) ==
    /\ h \in Seq(Nat) /\ Increasing(h) /\ Elems(h) = Stamped(j)
    /\ rows \in Seq(Row) /\ Len(rows) = Len(h)
    /\ \A i \in 1..Len(h) : rows[i] = RowFrom(j, h[i], EndOf(j, h, i))

\* fold_journal_records has a row for each stamped line, in their order.
LEMMA FoldShape ==
  ASSUME NEW j \in Seq(JournalLine)
  PROVE  \E h : FoldOf(j, h, fold_journal_records(j))
<1> DEFINE S == {n \in 1..Len(j) : j[n].t # NoStamp}
           h == InOrder(j, S)
           rows == fold_journal_records(j)
<1>1. rows = [i \in 1..Len(h) |-> RowFrom(j, h[i], EndOf(j, h, i))]
  BY DEF fold_journal_records, RowFrom
<1>2. S = Stamped(j) /\ S \subseteq 1..Len(j) /\ Len(j) \in Nat
  BY DEF Stamped
<1> HIDE DEF S
<1>3. h \in Seq(Nat) /\ Increasing(h) /\ Elems(h) = S
  <2>1. (1..Len(j)) \cap S = S
    BY <1>2
  <2> QED
    BY <1>2, <2>1, InOrderRight
<1> HIDE DEF h, rows
<1>4. ASSUME NEW a \in 1..Len(j), NEW b \in a..Len(j) PROVE RowFrom(j, a, b) \in Row
  <2>1. \A k \in 1..Len(j) : j[k] \in JournalLine
    OBVIOUS
  <2>2. \A k \in a..b : k \in 1..Len(j)
    BY <1>2
  <2>3. {j[k].says : k \in {n \in a..b : n = a \/ j[n].indent}} \in SUBSET STRING
    BY <2>1, <2>2 DEF JournalLine
  <2>4. j[a].t \in Int /\ j[a].zone \in Int /\ j[a].kernel \in BOOLEAN /\ j[a].bdf \in STRING
    BY <2>1 DEF JournalLine
  <2> QED
    BY <2>3, <2>4 DEF Row, RowFrom
<1>5. \A i \in 1..Len(h) : RowFrom(j, h[i], EndOf(j, h, i)) \in Row
  BY <1>2, <1>3, <1>4, Extent
<1>6. Len(h) \in Nat
  BY <1>3
<1>7. rows \in Seq(Row) /\ Len(rows) = Len(h) /\ \A i \in 1..Len(h) : rows[i] = RowFrom(j, h[i], EndOf(j, h, i))
  BY <1>1, <1>5, <1>6
<1> QED
  BY <1>2, <1>3, <1>7 DEF FoldOf, rows

\* The zones of a journal's stamps.
StampZones(j) == {l.zone : l \in {m \in Elems(j) : m.t # NoStamp}}

\* The rows' stamps are the stamps of the lines.
LEMMA FoldStamps ==
  ASSUME NEW j \in Seq(JournalLine)
  PROVE  /\ fold_journal_records(j) \in Seq(Row)
         /\ {r.t : r \in Elems(fold_journal_records(j))} = {l.t : l \in Elems(j)} \ {NoStamp}
         /\ \A r \in Elems(fold_journal_records(j)) : r.zone \in StampZones(j)
<1> DEFINE rows == fold_journal_records(j)
<1>1. PICK h : FoldOf(j, h, rows)
  BY FoldShape
<1> HIDE DEF rows
<1>a. /\ rows \in Seq(Row) /\ Len(rows) = Len(h) /\ Elems(h) = Stamped(j)
      /\ \A i \in 1..Len(h) : rows[i] = RowFrom(j, h[i], EndOf(j, h, i))
  BY <1>1 DEF FoldOf
<1>b. \A a, b : RowFrom(j, a, b).t = j[a].t /\ RowFrom(j, a, b).zone = j[a].zone
  BY DEF RowFrom
<1>2. /\ rows \in Seq(Row) /\ Len(rows) = Len(h) /\ Elems(h) = Stamped(j)
      /\ \A i \in 1..Len(h) : rows[i].t = j[h[i]].t /\ rows[i].zone = j[h[i]].zone
  BY <1>a, <1>b
<1>3. ASSUME NEW r \in Elems(rows)
      PROVE  \E l \in Elems(j) : l.t = r.t /\ l.t # NoStamp /\ l.zone = r.zone
  <2>1. PICK i \in 1..Len(h) : r = rows[i]
    BY <1>2 DEF Elems
  <2>2. h[i] \in Stamped(j)
    BY <1>2, <2>1 DEF Elems
  <2> QED
    BY <1>2, <2>1, <2>2 DEF Stamped, Elems
<1>4. ASSUME NEW l \in Elems(j), l.t # NoStamp PROVE \E r \in Elems(rows) : r.t = l.t
  <2>1. PICK n \in 1..Len(j) : l = j[n]
    BY DEF Elems
  <2>2. n \in Elems(h)
    BY <1>2, <1>4, <2>1 DEF Stamped
  <2>3. PICK i \in 1..Len(h) : n = h[i]
    BY <2>2 DEF Elems
  <2> QED
    BY <1>2, <2>1, <2>3 DEF Elems
<1>5. {r.t : r \in Elems(rows)} = {l.t : l \in Elems(j)} \ {NoStamp}
  BY <1>3, <1>4
<1>6. \A r \in Elems(rows) : r.zone \in StampZones(j)
  BY <1>3 DEF StampZones
<1> QED
  BY <1>2, <1>5, <1>6 DEF rows

\* Rows that do not regress lie between the first and the last, give or take the
\* tolerance.
LEMMA BetweenEnds ==
  ASSUME NEW rows \in Seq(Row), ~timestamps_regress(rows), NEW i \in 1..Len(rows)
  PROVE  rows[i].t \in (rows[1].t - Tolerance)..(rows[Len(rows)].t + Tolerance)
<1> DEFINE N == Len(rows)
<1>a. N \in Nat /\ N >= 1 /\ \A n \in 1..N : rows[n] \in Row
  OBVIOUS
<1>b. \A r \in Row : r.t \in Int
  BY DEF Row
<1>0. N \in Nat /\ N >= 1 /\ \A n \in 1..N : rows[n].t \in Int
  BY <1>a, <1>b
<1>1. PICK K \in [0..N -> Nat] : RegressLoop(rows, K)
  BY <1>0, RegressUnfolds
<1>2. /\ K[0] = 0 /\ ~(K[N] > Tolerance)
      /\ \A k \in 0..(N - 1) : K[k + 1] = K[k] + Back(rows, k + 1)
  BY <1>0, <1>1 DEF RegressLoop
<1>3. K[1] = 0
  BY <1>0, <1>2 DEF Back
<1>4. ASSUME NEW m \in 1..N
      PROVE  \A n \in m..N : K[m] <= K[n] /\ rows[m].t - rows[n].t <= K[n] - K[m]
  <2> DEFINE T == {k \in 0..N : k >= m => K[m] <= K[k] /\ rows[m].t - rows[k].t <= K[k] - K[m]}
  <2>1. 0 \in T
    BY <1>0
  <2>2. ASSUME NEW k \in 0..(N - 1), k \in T PROVE k + 1 \in T
    <3>1. k \in Nat /\ k + 1 \in 1..N /\ K[k] \in Nat /\ K[k + 1] \in Nat /\ K[m] \in Nat
      <4> HIDE DEF N, T
      <4>1. k \in Nat /\ k + 1 \in 1..N
        BY <1>0
      <4>2. {k, k + 1, m} \subseteq 0..N
        BY <1>0, <4>1
      <4> QED
        BY <1>1, <4>1, <4>2
    <3>2. K[k + 1] = K[k] + Back(rows, k + 1) /\ rows[k + 1].t \in Int /\ rows[m].t \in Int
      BY <1>0, <1>2, <3>1
    <3>3. CASE k >= m
      <4>1. k \in 1..N /\ k + 1 > 1 /\ (k + 1) - 1 = k
        BY <1>0, <3>1, <3>3
      <4>2. Back(rows, k + 1) = IF rows[k].t > rows[k + 1].t THEN rows[k].t - rows[k + 1].t ELSE 0
        BY <4>1 DEF Back
      <4>3. rows[k].t \in Int
        BY <1>0, <4>1
      <4>4. K[m] <= K[k] /\ rows[m].t - rows[k].t <= K[k] - K[m]
        BY <2>2, <3>3
      <4>5. K[m] <= K[k + 1] /\ rows[m].t - rows[k + 1].t <= K[k + 1] - K[m]
        <5> DEFINE a == rows[m].t
                   b == rows[k].t
                   c == rows[k + 1].t
                   x == K[m]
                   y == K[k]
                   z == K[k + 1]
        <5>1. a \in Int /\ b \in Int /\ c \in Int /\ x \in Nat /\ y \in Nat /\ z \in Nat
          BY <3>1, <3>2, <4>3
        <5>2. x <= y /\ a - b <= y - x /\ z = y + (IF b > c THEN b - c ELSE 0)
          BY <3>2, <4>2, <4>4
        <5> HIDE DEF T, a, b, c, x, y, z
        <5>3. x <= z /\ a - c <= z - x
          BY <5>1, <5>2
        <5> QED
          BY <5>3 DEF a, c, x, z
      <4> QED
        BY <3>1, <4>5
    <3>4. CASE k + 1 = m
      BY <3>1, <3>2, <3>4
    <3>5. CASE k + 1 < m
      BY <3>1, <3>5
    <3> QED
      BY <3>1, <3>3, <3>4, <3>5
  <2> HIDE DEF T
  <2>3. 0..N \subseteq T
    BY <1>0, <2>1, <2>2, UpTo
  <2> QED
    BY <1>0, <2>3 DEF T
<1> HIDE DEF N
<1>5. i \in 1..N /\ N \in 1..N /\ 1 \in 1..N
  BY <1>0 DEF N
<1>6. K[1] <= K[i] /\ rows[1].t - rows[i].t <= K[i] - K[1]
  BY <1>0, <1>4, <1>5
<1>7. K[i] <= K[N] /\ rows[i].t - rows[N].t <= K[N] - K[i]
  BY <1>0, <1>4, <1>5
<1>8. K[i] \in Nat /\ K[N] \in Nat /\ K[N] <= Tolerance /\ Tolerance \in Nat
  BY <1>0, <1>1, <1>2, <1>5, D3JournalAssumptions
<1>9. rows[i].t \in Int /\ rows[1].t \in Int /\ rows[N].t \in Int
  BY <1>0, <1>5
<1>c. \A a, b, c \in Int, k, n, m \in Nat :
         a - b <= k /\ k <= n /\ b - c <= n - k /\ n <= m => b >= a - m /\ b <= c + m
  OBVIOUS
<1>d. rows[1].t - rows[i].t <= K[i]
  BY <1>3, <1>6, <1>8
<1>10. rows[i].t >= rows[1].t - Tolerance /\ rows[i].t <= rows[N].t + Tolerance
  <2> DEFINE ra == rows[1].t
             rb == rows[i].t
             rc == rows[N].t
             ki == K[i]
             kn == K[N]
  <2>1. ra \in Int /\ rb \in Int /\ rc \in Int /\ ki \in Nat /\ kn \in Nat /\ Tolerance \in Nat
    BY <1>8, <1>9
  <2>2. ra - rb <= ki /\ ki <= kn /\ rb - rc <= kn - ki /\ kn <= Tolerance
    BY <1>7, <1>8, <1>d
  <2> HIDE DEF ra, rb, rc, ki, kn
  <2>3. rb >= ra - Tolerance /\ rb <= rc + Tolerance
    BY <2>1, <2>2
  <2> QED
    BY <2>3 DEF ra, rb, rc
<1> QED
  BY <1>8, <1>9, <1>10 DEF N
-----------------------------------------------------------------------------
(* Journals: the records and the two readings combined *)

\* A record of lines from L: a head, and lines that continue it.
Rec(L) == [t : Int, text : Seq(L)]
WellFormed(r) ==
    /\ Len(r.text) >= 1 /\ r.t = r.text[1].t
    /\ \A k \in 2..Len(r.text) : Continues(r.text[k])
Records(L) == {r \in Rec(L) : WellFormed(r)}
Whole(L) == {r \in Records(L) : ~Continues(r.text[1])}

Opening(j) == {n \in 1..Len(j) : n = 1 \/ ~Continues(j[n])}
RecFrom(j, a, b) == [t |-> j[a].t, text |-> SubSeq(j, a, b)]
RecordsOf(j, h, recs) ==
    /\ h \in Seq(Nat) /\ Increasing(h) /\ Elems(h) = Opening(j)
    /\ recs \in Seq(Records(Elems(j))) /\ Len(recs) = Len(h)
    /\ \A i \in 1..Len(h) : recs[i] = RecFrom(j, h[i], EndOf(j, h, i))

\* The lines from a head up to the next head are a record.
LEMMA RecordFromLines ==
  ASSUME NEW j \in Seq(JournalLine), NEW a \in 1..Len(j), NEW b \in a..Len(j),
         \A n \in (a + 1)..b : Continues(j[n])
  PROVE  RecFrom(j, a, b) \in Records(Elems(j)) /\ RecFrom(j, a, b).text[1] = j[a]
<1> DEFINE r == RecFrom(j, a, b)
<1>0. Len(j) \in Nat /\ a \in Nat /\ b \in Nat /\ a >= 1 /\ a <= b /\ b <= Len(j)
  OBVIOUS
<1>1. r.t = j[a].t /\ r.text = SubSeq(j, a, b) /\ j[a].t \in Int
  <2>1. j[a] \in JournalLine
    OBVIOUS
  <2> QED
    BY <2>1 DEF RecFrom, JournalLine
<1>2. /\ SubSeq(j, a, b) = [k \in 1..(b - a + 1) |-> j[a + k - 1]]
      /\ Len(SubSeq(j, a, b)) = b - a + 1
  BY <1>0
<1>3. \A k \in 1..(b - a + 1) : SubSeq(j, a, b)[k] = j[a + k - 1] /\ a + k - 1 \in 1..Len(j)
  BY <1>0, <1>2
<1>4. SubSeq(j, a, b) \in Seq(Elems(j))
  <2>1. \A k \in 1..(b - a + 1) : j[a + k - 1] \in Elems(j)
    BY <1>3 DEF Elems
  <2>2. b - a + 1 \in Nat
    BY <1>0
  <2> QED
    BY <1>2, <2>1, <2>2
<1>5. r \in Rec(Elems(j))
  BY <1>1, <1>4 DEF Rec, RecFrom
<1>6. r.text[1] = j[a] /\ Len(r.text) >= 1
  BY <1>0, <1>1, <1>2, <1>3
<1>7. ASSUME NEW k \in 2..Len(r.text) PROVE Continues(r.text[k])
  <2>1. k \in 1..(b - a + 1) /\ a + k - 1 \in (a + 1)..b
    BY <1>0, <1>1, <1>2
  <2> QED
    BY <1>1, <1>3, <2>1
<1> QED
  BY <1>1, <1>5, <1>6, <1>7 DEF Records, WellFormed

\* journal_records has a record for each opening line, in their order.
LEMMA RecordsShape ==
  ASSUME NEW j \in Seq(JournalLine)
  PROVE  \E h : RecordsOf(j, h, journal_records(j))
<1> DEFINE S == {n \in 1..Len(j) : n = 1 \/ ~Continues(j[n])}
           h == InOrder(j, S)
           recs == journal_records(j)
<1>1. recs = [i \in 1..Len(h) |-> RecFrom(j, h[i], EndOf(j, h, i))]
  BY DEF journal_records, RecFrom
<1>2. S = Opening(j) /\ S \subseteq 1..Len(j) /\ Len(j) \in Nat
  BY DEF Opening
<1> HIDE DEF S
<1>3. h \in Seq(Nat) /\ Increasing(h) /\ Elems(h) = S
  <2>1. (1..Len(j)) \cap S = S
    BY <1>2
  <2> QED
    BY <1>2, <2>1, InOrderRight
<1> HIDE DEF h, recs
<1>6. Len(h) \in Nat
  BY <1>3
<1>5. ASSUME NEW i \in 1..Len(h) PROVE RecFrom(j, h[i], EndOf(j, h, i)) \in Records(Elems(j))
  <2>1. /\ h[i] \in 1..Len(j) /\ EndOf(j, h, i) \in h[i]..Len(j)
        /\ i < Len(h) => EndOf(j, h, i) = h[i + 1] - 1 /\ h[i + 1] \in 1..Len(j)
    BY <1>2, <1>3, Extent
  <2>2. ASSUME NEW n \in (h[i] + 1)..EndOf(j, h, i), ~Continues(j[n]) PROVE FALSE
    <3>1. n \in 1..Len(j) /\ n > h[i] /\ n <= EndOf(j, h, i)
      BY <1>2, <2>1
    <3>2. n \in Elems(h)
      BY <1>2, <1>3, <2>2, <3>1 DEF Opening
    <3>3. PICK k \in 1..Len(h) : n = h[k]
      BY <3>2 DEF Elems
    <3>4. \A m \in 1..Len(h) : h[m] \in Nat
      BY <1>3
    <3>5. k > i
      <4>1. k < i => h[k] < h[i]
        BY <1>3 DEF Increasing
      <4> QED
        BY <1>6, <3>1, <3>3, <3>4, <4>1
    <3>6. i < Len(h) /\ i + 1 \in 1..Len(h)
      BY <1>6, <3>5
    <3>7. k = i + 1 \/ h[i + 1] < h[k]
      BY <1>3, <1>6, <3>5, <3>6 DEF Increasing
    <3> QED
      BY <2>1, <3>1, <3>3, <3>4, <3>6, <3>7
  <2>3. \A n \in (h[i] + 1)..EndOf(j, h, i) : Continues(j[n])
    BY <2>2
  <2> QED
    BY <2>1, <2>3, RecordFromLines
<1>7. /\ recs \in Seq(Records(Elems(j))) /\ Len(recs) = Len(h)
      /\ \A i \in 1..Len(h) : recs[i] = RecFrom(j, h[i], EndOf(j, h, i))
  BY <1>1, <1>5, <1>6
<1> QED
  BY <1>2, <1>3, <1>7 DEF RecordsOf, recs

\* UniqueTail and stable_merge give records of the two readings.
LEMMA UniqueTyped ==
  ASSUME NEW R, NEW tail \in Seq(R), NEW kernel
  PROVE  UniqueTail(kernel, tail) \in Seq(R)
<1>1. PICK K \in [0..Len(tail) -> Seq(R)] : UniqueLoop(kernel, tail, K)
  BY UniqueUnfolds
<1>2. Len(tail) \in 0..Len(tail)
  OBVIOUS
<1> QED
  BY <1>1, <1>2 DEF UniqueLoop

\* A turn of the merge takes the kernel's next record or the tail's.
FromKernel(kernel, tail, n, m, m2) ==
    /\ m.taken + 1 \in 1..Len(kernel)
    /\ n - m.taken > Len(tail) \/ TakeKernel(kernel[m.taken + 1], tail[n - m.taken])
    /\ m2 = [taken |-> m.taken + 1, merged |-> Append(m.merged, kernel[m.taken + 1])]
FromTail(kernel, tail, n, m, m2) ==
    /\ n - m.taken \in 1..Len(tail)
    /\ m.taken = Len(kernel) \/ ~TakeKernel(kernel[m.taken + 1], tail[n - m.taken])
    /\ m2 = [taken |-> m.taken, merged |-> Append(m.merged, tail[n - m.taken])]
Merges(kernel, tail, R, K) ==
    /\ stable_merge(kernel, tail) = K[Len(kernel) + Len(tail)].merged
    /\ K[0] = [taken |-> 0, merged |-> <<>>]
    /\ \A n \in 0..(Len(kernel) + Len(tail)) :
          K[n] \in [taken : 0..Len(kernel), merged : Seq(R)] /\ n - K[n].taken \in 0..Len(tail)
    /\ \A n \in 1..(Len(kernel) + Len(tail)) :
          FromKernel(kernel, tail, n, K[n - 1], K[n]) \/ FromTail(kernel, tail, n, K[n - 1], K[n])

\* Every turn of the merge takes from one of the two, and within it.
LEMMA MergeRuns ==
  ASSUME NEW R, NEW kernel \in Seq(R), NEW tail \in Seq(R)
  PROVE  \E K : Merges(kernel, tail, R, K)
<1> DEFINE N == Len(kernel) + Len(tail)
           Q == R \cup {tail[i] : i \in Int} \cup {kernel[i] : i \in Int}
           M == [taken : Int, merged : Seq(Q)]
           OK(n, m) == m \in [taken : 0..Len(kernel), merged : Seq(R)] /\ n - m.taken \in 0..Len(tail)
<1>0. N \in Nat /\ Len(kernel) \in Nat /\ Len(tail) \in Nat
  OBVIOUS
<1>1. PICK K \in [0..N -> M] : MergeLoop(kernel, tail, K)
  BY MergeUnfolds
<1>2. /\ stable_merge(kernel, tail) = K[N].merged /\ K[0] = [taken |-> 0, merged |-> <<>>]
      /\ \A n \in 1..N : K[n] = MergeTurn(kernel, tail, n, K[n - 1])
  BY <1>1 DEF MergeLoop
<1>3. ASSUME NEW n \in 1..N, NEW m, OK(n - 1, m)
      PROVE  /\ OK(n, MergeTurn(kernel, tail, n, m))
             /\ \/ FromKernel(kernel, tail, n, m, MergeTurn(kernel, tail, n, m))
                \/ FromTail(kernel, tail, n, m, MergeTurn(kernel, tail, n, m))
  <2> DEFINE k == m.taken + 1
             t == n - m.taken
             m2 == MergeTurn(kernel, tail, n, m)
  <2>1. m.taken \in 0..Len(kernel) /\ m.merged \in Seq(R) /\ n - 1 - m.taken \in 0..Len(tail)
    BY <1>3
  <2>2. t \in 1..(Len(tail) + 1) /\ k \in 1..(Len(kernel) + 1) /\ (k <= Len(kernel) \/ t <= Len(tail))
    BY <1>0, <2>1
  <2>3. CASE k <= Len(kernel) /\ (t > Len(tail) \/ TakeKernel(kernel[k], tail[t]))
    <3>1. m2 = [taken |-> k, merged |-> Append(m.merged, kernel[k])] /\ k \in 1..Len(kernel)
      BY <2>2, <2>3 DEF MergeTurn
    <3>2. kernel[k] \in R
      BY <3>1
    <3>3. Append(m.merged, kernel[k]) \in Seq(R)
      BY <2>1, <3>2
    <3>4. FromKernel(kernel, tail, n, m, m2)
      BY <2>3, <3>1 DEF FromKernel
    <3>5. n - k \in 0..Len(tail) /\ k \in 0..Len(kernel)
      BY <1>0, <2>1, <3>1
    <3>6. OK(n, m2)
      <4> HIDE DEF m2, k
      <4> QED
        BY <3>1, <3>3, <3>5
    <3> QED
      BY <3>4, <3>6
  <2>4. CASE ~(k <= Len(kernel) /\ (t > Len(tail) \/ TakeKernel(kernel[k], tail[t])))
    <3>1. m2 = [taken |-> m.taken, merged |-> Append(m.merged, tail[t])]
      BY <2>4 DEF MergeTurn
    <3>2. t \in 1..Len(tail)
      BY <1>0, <2>2, <2>4
    <3>3. tail[t] \in R
      BY <3>2
    <3>a. Append(m.merged, tail[t]) \in Seq(R)
      BY <2>1, <3>3
    <3>b. m.taken = Len(kernel) \/ ~TakeKernel(kernel[k], tail[t])
      BY <1>0, <2>1, <2>4
    <3>4. FromTail(kernel, tail, n, m, m2)
      BY <3>1, <3>2, <3>b DEF FromTail
    <3>5. n - m.taken \in 0..Len(tail)
      BY <1>0, <3>2
    <3>6. OK(n, m2)
      <4> HIDE DEF m2
      <4> QED
        BY <2>1, <3>1, <3>a, <3>5
    <3> QED
      BY <3>4, <3>6
  <2> QED
    BY <2>3, <2>4
<1> DEFINE T == {n \in 0..N : OK(n, K[n])}
<1>4. 0 \in T
  <2>1. OK(0, [taken |-> 0, merged |-> <<>>])
    BY <1>0
  <2> HIDE DEF OK
  <2> QED
    BY <1>0, <1>2, <2>1
<1>5. ASSUME NEW n \in 0..(N - 1), n \in T PROVE n + 1 \in T
  <2> HIDE DEF OK
  <2>1. n + 1 \in 1..N /\ (n + 1) - 1 = n /\ n + 1 \in 0..N /\ OK(n, K[n])
    BY <1>0, <1>5
  <2>2. OK(n + 1, MergeTurn(kernel, tail, n + 1, K[n]))
    BY <1>3, <2>1
  <2>3. K[n + 1] = MergeTurn(kernel, tail, n + 1, K[n])
    BY <1>2, <2>1
  <2> QED
    BY <2>1, <2>2, <2>3
<1> HIDE DEF T
<1>6. 0..N \subseteq T
  BY <1>0, <1>4, <1>5, UpTo
<1>7. \A n \in 0..N : OK(n, K[n])
  BY <1>6 DEF T
<1> HIDE DEF OK
<1>8. ASSUME NEW n \in 1..N
      PROVE FromKernel(kernel, tail, n, K[n - 1], K[n]) \/ FromTail(kernel, tail, n, K[n - 1], K[n])
  <2>1. OK(n - 1, K[n - 1])
    BY <1>0, <1>7
  <2>2. K[n] = MergeTurn(kernel, tail, n, K[n - 1])
    BY <1>2
  <2> QED
    BY <1>3, <2>1, <2>2
<1>9. Merges(kernel, tail, R, K)
  BY <1>2, <1>7, <1>8 DEF Merges, OK
<1> QED
  BY <1>9

\* The merge adds nothing of its own.
LEMMA MergeTyped ==
  ASSUME NEW R, NEW kernel \in Seq(R), NEW tail \in Seq(R)
  PROVE  stable_merge(kernel, tail) \in Seq(R)
<1>1. PICK K : Merges(kernel, tail, R, K)
  BY MergeRuns
<1>2. Len(kernel) + Len(tail) \in 0..(Len(kernel) + Len(tail))
  OBVIOUS
<1> QED
  BY <1>1, <1>2 DEF Merges

\* A larger set has the sequences of a smaller one.
LEMMA SeqWithin ==
  ASSUME NEW X, NEW Y, X \subseteq Y
  PROVE  Seq(X) \subseteq Seq(Y) /\ Records(X) \subseteq Records(Y)
<1>1. ASSUME NEW s \in Seq(X) PROVE s \in Seq(Y)
  OBVIOUS
<1>2. Seq(X) \subseteq Seq(Y)
  BY <1>1
<1>3. \A r \in Rec(X) : r \in Rec(Y)
  BY <1>2 DEF Rec
<1> QED
  BY <1>2, <1>3 DEF Records

\* What the two readings combined consist of.
Unique(kernel, tail) == UniqueTail(journal_records(kernel), journal_records(tail))
Merged(kernel, tail) == stable_merge(journal_records(kernel), Unique(kernel, tail))

\* The records of the readings, of what is unique and of what is merged.
LEMMA MergedTyped ==
  ASSUME NEW kernel \in Seq(JournalLine), NEW tail \in Seq(JournalLine)
  PROVE  LET R == Records(Elems(kernel) \cup Elems(tail))
         IN /\ journal_records(kernel) \in Seq(R) /\ journal_records(tail) \in Seq(R)
            /\ Unique(kernel, tail) \in Seq(R) /\ Merged(kernel, tail) \in Seq(R)
<1> DEFINE L == Elems(kernel) \cup Elems(tail)
           R == Records(L)
<1>1. PICK h : RecordsOf(kernel, h, journal_records(kernel))
  BY RecordsShape
<1>2. PICK g : RecordsOf(tail, g, journal_records(tail))
  BY RecordsShape
<1>3. Elems(kernel) \subseteq L /\ Elems(tail) \subseteq L
  OBVIOUS
<1> HIDE DEF L
<1>4. Records(Elems(kernel)) \subseteq R /\ Records(Elems(tail)) \subseteq R
  BY <1>3, SeqWithin
<1> HIDE DEF R
<1>5. Seq(Records(Elems(kernel))) \subseteq Seq(R) /\ Seq(Records(Elems(tail))) \subseteq Seq(R)
  BY <1>4, SeqWithin
<1>6. journal_records(kernel) \in Seq(R) /\ journal_records(tail) \in Seq(R)
  BY <1>1, <1>2, <1>5 DEF RecordsOf
<1>7. Unique(kernel, tail) \in Seq(R)
  BY <1>6, UniqueTyped DEF Unique
<1>8. Merged(kernel, tail) \in Seq(R)
  BY <1>6, <1>7, MergeTyped DEF Merged
<1> QED
  BY <1>6, <1>7, <1>8 DEF R, L

\* Every line of the readings combined is a line of one of them.
LEMMA CombinedLines ==
  ASSUME NEW kernel \in Seq(JournalLine), NEW tail \in Seq(JournalLine)
  PROVE  Lines(Merged(kernel, tail)) \in Seq(Elems(kernel) \cup Elems(tail))
<1> DEFINE L == Elems(kernel) \cup Elems(tail)
           M == Merged(kernel, tail)
<1>1. M \in Seq(Records(L))
  BY MergedTyped
<1> HIDE DEF L, M
<1>2. \A r \in Records(L) : r.text \in Seq(L)
  BY DEF Records, Rec
<1>3. Len(M) \in Nat /\ \A n \in 1..Len(M) : M[n].text \in Seq(L)
  BY <1>1, <1>2
<1>4. PICK K \in [0..Len(M) -> Seq(L)] : LinesLoop(M, K)
  BY <1>3, LinesUnfolds
<1>5. Lines(M) \in Seq(L)
  BY <1>3, <1>4 DEF LinesLoop
<1> QED
  BY <1>5 DEF L, M
-----------------------------------------------------------------------------
(* A warning rests on the prior boot *)

\* An instant in the window w of wall clocks, read in zones of Z, up to the grace and
\* the tolerance.
Near(w, Z, t) ==
    \E y, z \in Z : t \in (w[1] - y - (Grace + Tolerance))..(w[2] - z + (Grace + Tolerance))

\* A reading that is in order and whose ends lie in the window lies in it, up to the
\* grace, the tolerance and the zones of its stamps.
LEMMA ReadingWithin ==
  ASSUME NEW j \in Seq(JournalLine), NEW w, w[1] \in Int, w[2] \in Int, InWindow(j, w),
         ~journal_timestamps_non_monotonic(j), NEW l \in Elems(j), l.t # NoStamp
  PROVE  Near(w, StampZones(j), l.t)
<1> DEFINE rows == fold_journal_records(j)
<1>1. /\ rows # <<>> /\ rows[1].t + rows[1].zone >= w[1] - Grace
      /\ rows[Len(rows)].t + rows[Len(rows)].zone <= w[2] + Grace
      /\ ~timestamps_regress(rows)
  BY DEF InWindow, WallClock, journal_timestamps_non_monotonic
<1>2. /\ rows \in Seq(Row) /\ {r.t : r \in Elems(rows)} = {x.t : x \in Elems(j)} \ {NoStamp}
      /\ \A r \in Elems(rows) : r.zone \in StampZones(j)
  BY FoldStamps
<1> HIDE DEF rows
<1>3. l.t \in {r.t : r \in Elems(rows)}
  BY <1>2
<1>4. PICK i \in 1..Len(rows) : rows[i].t = l.t
  BY <1>3 DEF Elems
<1>5. rows[i].t \in (rows[1].t - Tolerance)..(rows[Len(rows)].t + Tolerance)
  BY <1>1, <1>2, BetweenEnds
<1>6. /\ rows[i].t \in Int /\ rows[1].t \in Int /\ rows[Len(rows)].t \in Int
      /\ rows[1].zone \in Int /\ rows[Len(rows)].zone \in Int
      /\ rows[1].zone \in StampZones(j) /\ rows[Len(rows)].zone \in StampZones(j)
  <2>1. \A r \in Row : r.t \in Int /\ r.zone \in Int
    BY DEF Row
  <2>2. i \in 1..Len(rows) /\ 1 \in 1..Len(rows) /\ Len(rows) \in 1..Len(rows)
    BY <1>2
  <2>3. rows[i] \in Row /\ rows[1] \in Row /\ rows[Len(rows)] \in Row
    BY <1>2, <2>2
  <2>4. rows[1] \in Elems(rows) /\ rows[Len(rows)] \in Elems(rows)
    BY <2>2 DEF Elems
  <2> QED
    BY <1>2, <2>1, <2>3, <2>4
<1>7. Grace \in Nat /\ Tolerance \in Nat
  BY D3JournalAssumptions
<1>8. \A a, b, c, u, v, x, y \in Int, g, n \in Nat :
         a + u >= x - g /\ c + v <= y + g /\ b \in (a - n)..(c + n)
            => b \in (x - u - (g + n))..(y - v + (g + n))
  OBVIOUS
<1>9. rows[i].t \in (w[1] - rows[1].zone - (Grace + Tolerance))
                      ..(w[2] - rows[Len(rows)].zone + (Grace + Tolerance))
  BY <1>1, <1>5, <1>6, <1>7, <1>8
<1> QED
  BY <1>4, <1>6, <1>9 DEF Near

\* A reading is of journal lines.
LEMMA ReadingLines ==
  ASSUME NEW j, j # None => j \in Seq(JournalLine), NEW keep, ReadJournal(j, keep) # None
  PROVE  ReadJournal(j, keep) \in Seq(JournalLine) /\ Len(ReadJournal(j, keep)) >= 1
<1>1. j # None /\ j # <<>> /\ ReadJournal(j, keep) = Bounded(j, keep)
  BY DEF ReadJournal
<1>2. j \in Seq(JournalLine) /\ Len(j) \in Nat /\ Len(j) >= 1
  BY <1>1
<1>3. JournalLimit \in Nat /\ JournalLimit >= 1
  BY D3JournalAssumptions
<1>4. CASE Len(j) <= JournalLimit
  BY <1>1, <1>2, <1>4 DEF Bounded
<1>5. CASE Len(j) > JournalLimit
  <2>1. \A a \in 1..Len(j), b \in 1..Len(j) : a <= b =>
           SubSeq(j, a, b) \in Seq(JournalLine) /\ Len(SubSeq(j, a, b)) >= 1
    BY <1>2
  <2>2. bounded_end(j) \in Seq(JournalLine) /\ Len(bounded_end(j)) >= 1
    BY <1>2, <1>3, <1>5, <2>1 DEF bounded_end
  <2>3. bounded_start(j) \in Seq(JournalLine) /\ Len(bounded_start(j)) >= 1
    BY <1>2, <1>3, <1>5, <2>1 DEF bounded_start
  <2>4. Bounded(j, keep) \in {bounded_end(j), bounded_start(j)}
    BY <1>2, <1>3, <1>5 DEF Bounded
  <2> QED
    BY <1>1, <2>2, <2>3, <2>4
<1> QED
  BY <1>2, <1>3, <1>4, <1>5

\* The readings that a call gives are journals that are not empty.
LEMMA CallReadingsLines ==
  ASSUME NEW c \in Calls, c.cmd = "gpu-boot"
  PROVE  /\ Kernel(c) # None => Kernel(c) \in Seq(JournalLine) /\ Len(Kernel(c)) >= 1
         /\ Tail_(c) # None => Tail_(c) \in Seq(JournalLine) /\ Len(Tail_(c)) >= 1
<1>1. /\ c.kernel # None => c.kernel \in Seq(JournalLine)
      /\ c.tail # None => c.tail \in Seq(JournalLine)
  BY CliAssumptions
<1> QED
  BY <1>1, ReadingLines DEF Kernel, Tail_

\* The window of the boot before the current one.
LEMMA PriorWindow ==
  ASSUME NEW c \in Calls, c.cmd = "gpu-boot", HasPrior(c)
  PROVE  LET w == Window(c, Position(c) - 1)
             boot == c.list[Position(c) - 1]
         IN /\ w[1] = boot.from + boot.fromZone /\ w[2] = boot.to + boot.toZone
            /\ {boot.from, boot.to, boot.fromZone, boot.toZone} \subseteq Int
<1> DEFINE at == {i \in DOMAIN c.list : c.list[i].boot = CurrentBoot(c)}
           p == Position(c)
<1>1. c.list # None
  <2>1. c.list = None => Position(c) = 0
    BY DEF Position
  <2>2. Position(c) # 0
    BY DEF HasPrior
  <2> QED
    BY <2>1, <2>2
<1>2. c.list \in Seq(BootEntry)
  BY <1>1, CliAssumptions
<1>3. Len(c.list) \in Nat /\ DOMAIN c.list = 1..Len(c.list)
  BY <1>2
<1>4. p = IF at = {} THEN 0 ELSE CHOOSE i \in at : \A k \in at : i <= k
  BY <1>1 DEF Position
<1>5. p > 1
  BY DEF HasPrior
<1> HIDE DEF p
<1>6. at # {} /\ at \subseteq Nat /\ at \subseteq 1..Len(c.list)
  BY <1>3, <1>4, <1>5, SMTT(30)
<1> HIDE DEF at
<1>7. p \in at
  <2>1. \E i \in at : \A k \in at : i <= k
    BY <1>6, Least
  <2> QED
    BY <1>4, <1>6, <2>1
<1>8. p - 1 \in 1..Len(c.list)
  BY <1>3, <1>5, <1>6, <1>7
<1>9. c.list[p - 1] \in BootEntry
  <2>1. \A X : \A s \in Seq(X) : \A i \in 1..Len(s) : s[i] \in X
    OBVIOUS
  <2> QED
    BY <1>2, <1>8, <2>1
<1>10. /\ c.list[p - 1].from \in Int /\ c.list[p - 1].to \in Int
       /\ c.list[p - 1].fromZone \in Int /\ c.list[p - 1].toZone \in Int
  BY <1>9 DEF BootEntry
<1> QED
  BY <1>10 DEF Window, p

\* Only a diagnosis that fires warns of a precursor.
LEMMA WarningFires ==
  ASSUME NEW i, NEW s, NEW n, i.op \in {"diagnose", "learn", "reset"},
         Operate(i, s, n).verdict = "precursor-warning"
  PROVE  Fires(i, s.baseline)
<1>1. reset(s).verdict = "baseline-reset" /\ Refusal.verdict = "error"
  BY DEF reset, Refusal
<1>2. learn(i, s, n).verdict \in {"error", "baseline-learned"}
  <2> DEFINE at == {d \in i.snapshot : d.bdf = i.slot}
             d == CHOOSE d \in at : TRUE
             done == [verdict |-> "baseline-learned",
                      state |-> [pending |-> None,
                                 baseline |-> [slot |-> d.bdf, id |-> d.id, up |-> d.up, learned |-> n]]]
  <2>1. learn(i, s, n) \in {Refusal, done}
    BY DEF learn
  <2>2. done.verdict = "baseline-learned"
    OBVIOUS
  <2> HIDE DEF done
  <2> QED
    BY <1>1, <2>1, <2>2
<1>3. i.op = "diagnose" /\ Operate(i, s, n) = diagnose(i, s, n)
  BY <1>1, <1>2 DEF Operate
<1>4. diagnose(i, s, n) = Refusal \/ diagnose(i, s, n).verdict = evaluate(i, s, n).verdict
  BY DEF diagnose
<1>5. evaluate(i, s, n).verdict = "precursor-warning"
  BY <1>1, <1>3, <1>4
<1> QED
  BY <1>5 DEF evaluate

\* The zones of a reading are zones of the prior boot's readings.
LEMMA ReadingZones ==
  ASSUME NEW c, NEW j \in {Kernel(c), Tail_(c)} \ {None}, j \in Seq(JournalLine)
  PROVE  StampZones(j) \subseteq Zones(c)
<1>1. ToSet(j) = Elems(j)
  BY DEF ToSet, Elems
<1>2. Elems(j) \subseteq UNION {ToSet(k) : k \in {Kernel(c), Tail_(c)} \ {None}}
  BY <1>1
<1> QED
  BY <1>2 DEF StampZones, Zones

\* More zones admit more instants.
LEMMA NearWider ==
  ASSUME NEW w, NEW Y, NEW Z, Y \subseteq Z, NEW t, Near(w, Y, t)
  PROVE  Near(w, Z, t)
BY DEF Near

\* The zones are offsets.
LEMMA ZonesOffsets ==
  ASSUME NEW c \in Calls, c.cmd = "gpu-boot"
  PROVE  Zones(c) \subseteq Int
<1>1. \A j \in {Kernel(c), Tail_(c)} \ {None} : j \in Seq(JournalLine)
  BY CallReadingsLines
<1>2. \A j \in {Kernel(c), Tail_(c)} \ {None} : \A l \in ToSet(j) : l \in JournalLine
  BY <1>1 DEF ToSet
<1>3. \A l \in JournalLine : l.zone \in Int
  BY DEF JournalLine
<1> QED
  BY <1>2, <1>3 DEF Zones

\* A precursor warning has its records in the window of the prior boot.
LEMMA WarningWithin ==
  ASSUME NEW c \in Calls, c.cmd = "gpu-boot", ~OfflineRefused(c),
         Operate(OfflineInput(c), c.state, CurrentBoot(c)).verdict = "precursor-warning"
  PROVE  /\ HasPrior(c)
         /\ LET boot == c.list[Position(c) - 1]
                slack == Grace + Tolerance
                rows == fold_journal_records(OfflineInput(c).tail)
            IN \A i \in DOMAIN rows : \E y, z \in Zones(c) :
                  rows[i].t \in (boot.from + (boot.fromZone - y) - slack)
                                  ..(boot.to + (boot.toZone - z) + slack)
<1> DEFINE input_ == OfflineInput(c)
           w == Window(c, Position(c) - 1)
           boot == c.list[Position(c) - 1]
           slack == Grace + Tolerance
           Within(t) == Near(w, Zones(c), t)
           K == Kernel(c)
           T == Tail_(c)
<1>1. /\ input_.op \in {"diagnose", "learn", "reset"} /\ input_.prior = HasPrior(c)
      /\ input_.tail = combine_prior(K, T) /\ input_.unreliable = PriorTimingUnreliable(K, T)
  BY DEF OfflineInput
<1> HIDE DEF input_
<1>2. input_.prior /\ input_.tail # None /\ ~input_.unreliable
  <2>1. Fires(input_, c.state.baseline)
    BY <1>1, WarningFires DEF input_
  <2> QED
    BY <2>1 DEF Fires
<1>3. HasPrior(c) /\ T # None /\ ~PriorTimingUnreliable(K, T)
  BY <1>1, <1>2 DEF combine_prior
<1>4. \A j \in {K, T} \ {None} : InWindow(j, w)
  <2>1. Paired(c)
    BY DEF OfflineRefused
  <2> QED
    BY <1>3, <2>1 DEF Paired
<1>a. /\ w[1] = boot.from + boot.fromZone /\ w[2] = boot.to + boot.toZone
      /\ {boot.from, boot.to, boot.fromZone, boot.toZone} \subseteq Int
  BY <1>3, PriorWindow
<1> HIDE DEF boot
<1>5. w[1] \in Int /\ w[2] \in Int
  BY <1>a
<1>6. T \in Seq(JournalLine) /\ (K # None => K \in Seq(JournalLine))
  BY <1>3, CallReadingsLines
<1>7. ~journal_timestamps_non_monotonic(T) /\ (K # None => ~journal_timestamps_non_monotonic(K))
  BY <1>3 DEF PriorTimingUnreliable
<1>b. StampZones(T) \subseteq Zones(c) /\ (K # None => StampZones(K) \subseteq Zones(c))
  BY <1>3, <1>6, ReadingZones
<1> HIDE DEF K, T, w
<1>8. ASSUME NEW l \in Elems(T), l.t # NoStamp PROVE Within(l.t)
  <2>1. Near(w, StampZones(T), l.t)
    BY <1>3, <1>4, <1>5, <1>6, <1>7, <1>8, ReadingWithin
  <2> QED
    BY <1>b, <2>1, NearWider
<1>9. ASSUME K # None, NEW l \in Elems(K), l.t # NoStamp PROVE Within(l.t)
  <2>1. Near(w, StampZones(K), l.t)
    BY <1>4, <1>5, <1>6, <1>7, <1>9, ReadingWithin
  <2> QED
    BY <1>9, <1>b, <2>1, NearWider
<1> DEFINE j == combine_prior(K, T)
<1> HIDE DEF Within
<1>10. j \in Seq(JournalLine) /\ \A l \in Elems(j) : l.t # NoStamp => Within(l.t)
  <2>1. CASE K = None
    <3>1. j = T
      BY <1>3, <2>1 DEF combine_prior
    <3> QED
      BY <1>6, <1>8, <3>1
  <2>2. CASE K # None
    <3>1. j = Lines(Merged(K, T))
      BY <1>3, <2>2 DEF combine_prior, Merged, Unique
    <3>2. j \in Seq(Elems(K) \cup Elems(T))
      BY <1>6, <2>2, <3>1, CombinedLines
    <3> HIDE DEF j
    <3>3. Elems(j) \subseteq Elems(K) \cup Elems(T)
      <4>1. \A i \in 1..Len(j) : j[i] \in Elems(K) \cup Elems(T)
        BY <3>2
      <4> QED
        BY <4>1 DEF Elems
    <3>4. Elems(K) \cup Elems(T) \subseteq JournalLine
      BY <1>6, <2>2 DEF Elems
    <3>5. j \in Seq(JournalLine)
      BY <3>2, <3>4, SeqWithin
    <3> QED
      BY <1>8, <1>9, <2>2, <3>3, <3>5
  <2> QED
    BY <2>1, <2>2
<1> HIDE DEF j
<1> DEFINE rows == fold_journal_records(j)
<1>11. rows \in Seq(Row) /\ {r.t : r \in Elems(rows)} = {l.t : l \in Elems(j)} \ {NoStamp}
  BY <1>10, FoldStamps
<1> HIDE DEF rows
<1>12. ASSUME NEW i \in DOMAIN rows PROVE Within(rows[i].t)
  <2>1. i \in 1..Len(rows)
    BY <1>11
  <2>2. rows[i].t \in {l.t : l \in Elems(j)} \ {NoStamp}
    BY <1>11, <2>1 DEF Elems
  <2> QED
    BY <1>10, <2>2
<1>13. OfflineInput(c).tail = j
  BY <1>1 DEF input_, j
<1>14. Zones(c) \subseteq Int /\ slack \in Int
  BY ZonesOffsets, D3JournalAssumptions
<1>15. ASSUME NEW i \in DOMAIN rows
       PROVE  \E y, z \in Zones(c) : rows[i].t \in (boot.from + (boot.fromZone - y) - slack)
                                                       ..(boot.to + (boot.toZone - z) + slack)
  <2>1. PICK y \in Zones(c), z \in Zones(c) : rows[i].t \in (w[1] - y - slack)..(w[2] - z + slack)
    BY <1>12, <1>15 DEF Within, Near
  <2>2. \A a, b, x, s \in Int : /\ (a + b) - x - s = a + (b - x) - s
                               /\ (a + b) - x + s = a + (b - x) + s
    OBVIOUS
  <2> HIDE DEF slack
  <2>3. /\ w[1] - y - slack = boot.from + (boot.fromZone - y) - slack
        /\ w[2] - z + slack = boot.to + (boot.toZone - z) + slack
    BY <1>a, <1>14, <2>2
  <2> QED
    BY <2>1, <2>3
<1> QED
  BY <1>3, <1>13, <1>15 DEF rows, boot
-----------------------------------------------------------------------------
(* The two readings are combined without loss *)

\* How often a text occurs, record by record.
One(r, x) == IF r.text = x THEN 1 ELSE 0

\* A record counts once more after it is appended.
LEMMA TimesAppend ==
  ASSUME NEW R, NEW s \in Seq(R), NEW r \in R, NEW x
  PROVE  /\ Times(x, s) \in Nat /\ Times(x, <<>>) = 0
         /\ Times(x, Append(s, r)) = Times(x, s) + One(r, x)
<1> DEFINE n == Len(s)
           A == {i \in 1..n : s[i].text = x}
           u == Append(s, r)
           B == {i \in 1..(n + 1) : u[i].text = x}
<1>0. n \in Nat /\ Len(u) = n + 1 /\ DOMAIN u = 1..(n + 1) /\ DOMAIN s = 1..n
  OBVIOUS
<1>1. \A i \in 1..(n + 1) : u[i] = IF i = n + 1 THEN r ELSE s[i]
  OBVIOUS
<1>2. Times(x, s) = Cardinality(A) /\ Times(x, u) = Cardinality(B)
  BY <1>0 DEF Times
<1> HIDE DEF n, u
<1>3. B = IF r.text = x THEN A \cup {n + 1} ELSE A
  BY <1>0, <1>1
<1>4. IsFiniteSet(A) /\ n + 1 \notin A
  <2>1. IsFiniteSet(1..n) /\ A \subseteq 1..n
    BY <1>0, FS_Interval
  <2>2. n + 1 \notin 1..n
    BY <1>0
  <2> HIDE DEF A
  <2> QED
    BY <2>1, <2>2, FS_Subset
<1> HIDE DEF A, B
<1>5. Cardinality(A) \in Nat /\ Cardinality(A \cup {n + 1}) = Cardinality(A) + 1
  BY <1>4, FS_CardinalityType, FS_AddElement
<1>6. Times(x, <<>>) = 0
  <2>1. {i \in DOMAIN <<>> : <<>>[i].text = x} = {}
    OBVIOUS
  <2> QED
    BY <2>1, FS_EmptySet DEF Times
<1> QED
  BY <1>2, <1>3, <1>5, <1>6 DEF One, u

\* The prefixes of a sequence.
LEMMA PrefixStep ==
  ASSUME NEW X, NEW s \in Seq(X)
  PROVE  /\ SubSeq(s, 1, 0) = <<>> /\ SubSeq(s, 1, Len(s)) = s
         /\ \A n \in 0..Len(s) : SubSeq(s, 1, n) \in Seq(X)
         /\ \A n \in 1..Len(s) : SubSeq(s, 1, n) = Append(SubSeq(s, 1, n - 1), s[n])
<1>1. SubSeq(s, 1, 0) = <<>> /\ SubSeq(s, 1, Len(s)) = s
  OBVIOUS
<1>2. ASSUME NEW n \in 0..Len(s) PROVE SubSeq(s, 1, n) \in Seq(X)
  OBVIOUS
<1>3. ASSUME NEW n \in 1..Len(s) PROVE SubSeq(s, 1, n) = Append(SubSeq(s, 1, n - 1), s[n])
  OBVIOUS
<1> QED
  BY <1>1, <1>2, <1>3

\* The occurrences among the first n records.
Upto(x, s, n) == Times(x, SubSeq(s, 1, n))

\* The count of a text in the prefixes of a sequence.
LEMMA UptoStep ==
  ASSUME NEW R, NEW s \in Seq(R), NEW x
  PROVE  /\ Upto(x, s, 0) = 0 /\ Upto(x, s, Len(s)) = Times(x, s)
         /\ \A n \in 0..Len(s) : Upto(x, s, n) \in Nat
         /\ \A n \in 1..Len(s) : Upto(x, s, n) = Upto(x, s, n - 1) + One(s[n], x)
<1>1. /\ SubSeq(s, 1, 0) = <<>> /\ SubSeq(s, 1, Len(s)) = s
      /\ \A n \in 0..Len(s) : SubSeq(s, 1, n) \in Seq(R)
      /\ \A n \in 1..Len(s) : SubSeq(s, 1, n) = Append(SubSeq(s, 1, n - 1), s[n])
  BY PrefixStep
<1>2. Upto(x, s, 0) = 0
  <2>1. Times(x, <<>>) = 0
    <3>1. {i \in DOMAIN <<>> : <<>>[i].text = x} = {}
      OBVIOUS
    <3> QED
      BY <3>1, FS_EmptySet DEF Times
  <2> QED
    BY <1>1, <2>1 DEF Upto
<1>3. ASSUME NEW n \in 1..Len(s)
      PROVE  Upto(x, s, n) = Upto(x, s, n - 1) + One(s[n], x) /\ Upto(x, s, n - 1) \in Nat
  <2>1. SubSeq(s, 1, n - 1) \in Seq(R) /\ s[n] \in R
    BY <1>1
  <2>2. /\ Times(x, SubSeq(s, 1, n - 1)) \in Nat
        /\ Times(x, Append(SubSeq(s, 1, n - 1), s[n])) = Times(x, SubSeq(s, 1, n - 1)) + One(s[n], x)
    BY <2>1, TimesAppend
  <2> QED
    BY <1>1, <2>2 DEF Upto
<1>4. ASSUME NEW n \in 0..Len(s) PROVE Upto(x, s, n) \in Nat
  <2>1. CASE n = 0
    BY <1>2, <2>1
  <2>2. CASE n \in 1..Len(s)
    BY <1>3, <2>2 DEF One
  <2> QED
    BY <2>1, <2>2
<1> QED
  BY <1>1, <1>2, <1>3, <1>4 DEF Upto

\* A count is a number.
LEMMA TimesNat ==
  ASSUME NEW R, NEW s \in Seq(R), NEW x
  PROVE  Times(x, s) \in Nat
<1>1. Upto(x, s, Len(s)) = Times(x, s) /\ \A n \in 0..Len(s) : Upto(x, s, n) \in Nat
  BY UptoStep
<1> QED
  BY <1>1

Excess(a, b) == IF a > b THEN a - b ELSE 0

\* What the kernel has of a text is missing from the tail's new records, and no more.
LEMMA UniqueTimes ==
  ASSUME NEW R, NEW kernel \in Seq(R), NEW tail \in Seq(R), NEW x
  PROVE  Times(x, UniqueTail(kernel, tail)) = Excess(Times(x, tail), Times(x, kernel))
<1> DEFINE N == Len(tail)
           c == Times(x, kernel)
<1>0. N \in Nat /\ c \in Nat
  BY TimesNat
<1>1. PICK K \in [0..N -> Seq(R)] : UniqueLoop(kernel, tail, K)
  BY UniqueUnfolds
<1>2. /\ UniqueTail(kernel, tail) = K[N] /\ K[0] = <<>>
      /\ \A n \in 1..N : K[n] = IF Upto(tail[n].text, tail, n) > Times(tail[n].text, kernel)
                                THEN Append(K[n - 1], tail[n]) ELSE K[n - 1]
  BY <1>1 DEF UniqueLoop, Upto
<1>3. /\ Upto(x, tail, 0) = 0 /\ Upto(x, tail, N) = Times(x, tail)
      /\ \A n \in 0..N : Upto(x, tail, n) \in Nat
      /\ \A n \in 1..N : Upto(x, tail, n) = Upto(x, tail, n - 1) + One(tail[n], x)
  BY UptoStep
<1> DEFINE T == {n \in 0..N : Times(x, K[n]) = Excess(Upto(x, tail, n), c)}
<1>4. 0 \in T
  <2>1. Times(x, K[0]) = 0
    <3>1. {i \in DOMAIN <<>> : <<>>[i].text = x} = {}
      OBVIOUS
    <3> QED
      BY <1>2, <3>1, FS_EmptySet DEF Times
  <2> QED
    BY <1>0, <1>3, <2>1 DEF Excess
<1>5. ASSUME NEW n \in 0..(N - 1), n \in T PROVE n + 1 \in T
  <2>1. n + 1 \in 1..N /\ (n + 1) - 1 = n /\ n + 1 \in 0..N /\ n \in 0..N
    BY <1>0
  <2>2. K[n] \in Seq(R) /\ tail[n + 1] \in R
    BY <1>1, <2>1
  <2>3. /\ Times(x, K[n]) \in Nat
        /\ Times(x, Append(K[n], tail[n + 1])) = Times(x, K[n]) + One(tail[n + 1], x)
    BY <2>2, TimesAppend
  <2>4. K[n + 1] = IF Upto(tail[n + 1].text, tail, n + 1) > Times(tail[n + 1].text, kernel)
                   THEN Append(K[n], tail[n + 1]) ELSE K[n]
    BY <1>2, <2>1
  <2>5. Upto(x, tail, n) \in Nat /\ Upto(x, tail, n + 1) = Upto(x, tail, n) + One(tail[n + 1], x)
    BY <1>3, <2>1
  <2>6. Times(x, K[n]) = Excess(Upto(x, tail, n), c)
    BY <1>5
  <2>7. CASE tail[n + 1].text = x
    <3>1. Upto(x, tail, n + 1) = Upto(x, tail, n) + 1 /\ One(tail[n + 1], x) = 1
      BY <2>5, <2>7 DEF One
    <3>2. Times(x, K[n + 1]) = IF Upto(x, tail, n + 1) > c THEN Times(x, K[n]) + 1 ELSE Times(x, K[n])
      BY <2>3, <2>4, <2>7, <3>1
    <3>3. Times(x, K[n + 1]) = Excess(Upto(x, tail, n + 1), c)
      BY <1>0, <2>5, <2>6, <3>1, <3>2 DEF Excess
    <3> QED
      BY <2>1, <3>3
  <2>8. CASE tail[n + 1].text # x
    <3>1. Upto(x, tail, n + 1) = Upto(x, tail, n) /\ One(tail[n + 1], x) = 0
      BY <2>5, <2>8 DEF One
    <3>2. Times(x, K[n + 1]) = Times(x, K[n])
      BY <2>3, <2>4, <3>1
    <3> QED
      BY <2>1, <2>6, <3>1, <3>2
  <2> QED
    BY <2>7, <2>8
<1> HIDE DEF T
<1>6. 0..N \subseteq T
  BY <1>0, <1>4, <1>5, UpTo
<1> QED
  BY <1>0, <1>2, <1>3, <1>6 DEF T

\* The merge has what the two sequences have.
LEMMA MergeTimes ==
  ASSUME NEW R, NEW kernel \in Seq(R), NEW tail \in Seq(R), NEW x
  PROVE  Times(x, stable_merge(kernel, tail)) = Times(x, kernel) + Times(x, tail)
<1> DEFINE N == Len(kernel) + Len(tail)
<1>0. N \in Nat /\ Len(kernel) \in Nat /\ Len(tail) \in Nat
  OBVIOUS
<1>1. PICK K : Merges(kernel, tail, R, K)
  BY MergeRuns
<1>2. /\ stable_merge(kernel, tail) = K[N].merged /\ K[0] = [taken |-> 0, merged |-> <<>>]
      /\ \A n \in 0..N : K[n] \in [taken : 0..Len(kernel), merged : Seq(R)] /\ n - K[n].taken \in 0..Len(tail)
      /\ \A n \in 1..N : FromKernel(kernel, tail, n, K[n - 1], K[n]) \/ FromTail(kernel, tail, n, K[n - 1], K[n])
  BY <1>1 DEF Merges
<1>3. /\ Upto(x, kernel, 0) = 0 /\ Upto(x, kernel, Len(kernel)) = Times(x, kernel)
      /\ \A n \in 0..Len(kernel) : Upto(x, kernel, n) \in Nat
      /\ \A n \in 1..Len(kernel) : Upto(x, kernel, n) = Upto(x, kernel, n - 1) + One(kernel[n], x)
  BY UptoStep
<1>4. /\ Upto(x, tail, 0) = 0 /\ Upto(x, tail, Len(tail)) = Times(x, tail)
      /\ \A n \in 0..Len(tail) : Upto(x, tail, n) \in Nat
      /\ \A n \in 1..Len(tail) : Upto(x, tail, n) = Upto(x, tail, n - 1) + One(tail[n], x)
  BY UptoStep
<1> HIDE DEF N
<1> DEFINE T == {n \in 0..N : Times(x, K[n].merged) = Upto(x, kernel, K[n].taken) + Upto(x, tail, n - K[n].taken)}
<1>5. 0 \in T
  <2>1. K[0].taken = 0 /\ K[0].merged = <<>>
    BY <1>2
  <2>2. Times(x, <<>>) = 0
    <3>1. {i \in DOMAIN <<>> : <<>>[i].text = x} = {}
      OBVIOUS
    <3> QED
      BY <3>1, FS_EmptySet DEF Times
  <2> QED
    BY <1>0, <1>3, <1>4, <2>1, <2>2
<1>6. ASSUME NEW n \in 0..(N - 1), n \in T PROVE n + 1 \in T
  <2> DEFINE m == K[n]
             m2 == K[n + 1]
             k == m.taken
             t == n - m.taken
  <2>1. n + 1 \in 1..N /\ (n + 1) - 1 = n /\ n + 1 \in 0..N /\ n \in 0..N
    BY <1>0
  <2>2. m \in [taken : 0..Len(kernel), merged : Seq(R)] /\ t \in 0..Len(tail)
    BY <1>2, <2>1
  <2>3. k \in 0..Len(kernel) /\ m.merged \in Seq(R)
    BY <2>2
  <2>4. Times(x, m.merged) = Upto(x, kernel, k) + Upto(x, tail, t)
    BY <1>6
  <2>5. Upto(x, kernel, k) \in Nat /\ Upto(x, tail, t) \in Nat
    BY <1>3, <1>4, <2>2, <2>3
  <2>6. FromKernel(kernel, tail, n + 1, m, m2) \/ FromTail(kernel, tail, n + 1, m, m2)
    BY <1>2, <2>1
  <2>a. (n + 1) - k = t + 1 /\ n \in Int /\ k \in Int /\ (n + 1) - (k + 1) = t
    <3> HIDE DEF T, k
    <3>1. n \in Int /\ k \in Int
      BY <1>0, <2>1, <2>3
    <3>2. t = n - k
      BY DEF k
    <3> QED
      BY <3>1, <3>2
  <2> HIDE DEF m, m2
  <2>7. CASE FromKernel(kernel, tail, n + 1, m, m2)
    <3>1. k + 1 \in 1..Len(kernel) /\ m2.taken = k + 1 /\ m2.merged = Append(m.merged, kernel[k + 1])
      BY <2>7 DEF FromKernel
    <3>2. kernel[k + 1] \in R
      BY <3>1
    <3>3. Times(x, m2.merged) = Times(x, m.merged) + One(kernel[k + 1], x)
      BY <2>3, <3>1, <3>2, TimesAppend
    <3>4. Upto(x, kernel, k + 1) = Upto(x, kernel, k) + One(kernel[k + 1], x)
      <4>1. (k + 1) - 1 = k
        BY <2>a
      <4> QED
        BY <1>3, <3>1, <4>1
    <3>5. (n + 1) - m2.taken = t
      BY <2>a, <3>1
    <3>6. One(kernel[k + 1], x) \in Nat
      BY DEF One
    <3> HIDE DEF k, t
    <3>7. Times(x, m2.merged) = Upto(x, kernel, m2.taken) + Upto(x, tail, (n + 1) - m2.taken)
      BY <2>4, <2>5, <3>1, <3>3, <3>4, <3>5, <3>6
    <3> QED
      BY <2>1, <3>7 DEF m2
  <2>8. CASE FromTail(kernel, tail, n + 1, m, m2)
    <3>1. /\ t + 1 \in 1..Len(tail) /\ m2.taken = k
          /\ m2.merged = Append(m.merged, tail[t + 1])
      BY <2>8, <2>a DEF FromTail
    <3>2. tail[t + 1] \in R
      BY <3>1
    <3>3. Times(x, m2.merged) = Times(x, m.merged) + One(tail[t + 1], x)
      BY <2>3, <3>1, <3>2, TimesAppend
    <3>4. Upto(x, tail, t + 1) = Upto(x, tail, t) + One(tail[t + 1], x)
      <4>1. (t + 1) - 1 = t
        BY <2>2
      <4> QED
        BY <1>4, <3>1, <4>1
    <3>5. (n + 1) - m2.taken = t + 1
      BY <2>a, <3>1
    <3>6. One(tail[t + 1], x) \in Nat
      BY DEF One
    <3> HIDE DEF k, t
    <3>7. Times(x, m2.merged) = Upto(x, kernel, m2.taken) + Upto(x, tail, (n + 1) - m2.taken)
      BY <2>4, <2>5, <3>1, <3>3, <3>4, <3>5, <3>6
    <3> QED
      BY <2>1, <3>7 DEF m2
  <2> QED
    BY <2>6, <2>7, <2>8
<1> HIDE DEF T
<1>7. 0..N \subseteq T
  BY <1>0, <1>5, <1>6, UpTo
<1>8. Times(x, K[N].merged) = Upto(x, kernel, K[N].taken) + Upto(x, tail, N - K[N].taken)
  BY <1>0, <1>7 DEF T
<1>9. K[N].taken = Len(kernel) /\ N - K[N].taken = Len(tail)
  <2>1. N \in 0..N
    BY <1>0
  <2>2. K[N].taken \in 0..Len(kernel) /\ N - K[N].taken \in 0..Len(tail)
    BY <1>2, <2>1
  <2> QED
    BY <1>0, <2>2 DEF N
<1> QED
  BY <1>2, <1>3, <1>4, <1>8, <1>9

\* Where the lines of each record are in the lines of all: K is the loop of Lines.
LEMMA LinesPlaces ==
  ASSUME NEW L, NEW recs \in Seq(Records(L)), NEW K \in [0..Len(recs) -> Seq(L)], LinesLoop(recs, K)
  PROVE  /\ \A n \in 1..Len(recs) : /\ recs[n] \in Records(L) /\ Len(recs[n].text) \in Nat
                                    /\ Len(recs[n].text) >= 1
                                    /\ Len(K[n]) = Len(K[n - 1]) + Len(recs[n].text)
         /\ \A n \in 0..Len(recs) : Len(K[n]) \in Nat /\ Len(K[n]) <= Len(K[Len(recs)])
         /\ \A m, n \in 0..Len(recs) : m < n => Len(K[m]) < Len(K[n])
         /\ \A n \in 1..Len(recs) : \A p \in 1..Len(recs[n].text) :
               K[Len(recs)][Len(K[n - 1]) + p] = recs[n].text[p]
<1> DEFINE N == Len(recs)
<1>0. N \in Nat /\ \A n \in 1..N : recs[n] \in Records(L) /\ n - 1 \in 0..N /\ n \in 0..N
  OBVIOUS
<1>1. ASSUME NEW n \in 1..N PROVE recs[n].text \in Seq(L) /\ Len(recs[n].text) \in Nat /\ Len(recs[n].text) >= 1
  <2>1. recs[n].text \in Seq(L) /\ Len(recs[n].text) >= 1
    BY <1>0 DEF Records, Rec, WellFormed
  <2> QED
    BY <2>1
<1>2. K[0] = <<>> /\ \A n \in 1..N : K[n] = K[n - 1] \o recs[n].text
  BY DEF LinesLoop
<1>3. \A n \in 0..N : K[n] \in Seq(L) /\ Len(K[n]) \in Nat
  OBVIOUS
<1>4. ASSUME NEW n \in 1..N
      PROVE  /\ Len(K[n]) = Len(K[n - 1]) + Len(recs[n].text)
             /\ \A p \in 1..Len(K[n - 1]) : K[n][p] = K[n - 1][p]
             /\ \A p \in 1..Len(recs[n].text) : K[n][Len(K[n - 1]) + p] = recs[n].text[p]
  <2>1. K[n] = K[n - 1] \o recs[n].text /\ K[n - 1] \in Seq(L) /\ recs[n].text \in Seq(L)
    BY <1>0, <1>1, <1>2, <1>3
  <2>2. \A a, b \in Seq(L) : /\ Len(a \o b) = Len(a) + Len(b)
                             /\ \A p \in 1..Len(a) : (a \o b)[p] = a[p]
                             /\ \A p \in 1..Len(b) : (a \o b)[Len(a) + p] = b[p]
    OBVIOUS
  <2> DEFINE a == K[n - 1]
             b == recs[n].text
             ab == K[n]
  <2>3. ab = a \o b /\ a \in Seq(L) /\ b \in Seq(L)
    BY <2>1
  <2> HIDE DEF a, b, ab
  <2>4. /\ Len(ab) = Len(a) + Len(b)
        /\ \A p \in 1..Len(a) : ab[p] = a[p]
        /\ \A p \in 1..Len(b) : ab[Len(a) + p] = b[p]
    BY <2>2, <2>3
  <2> QED
    BY <2>4 DEF a, b, ab
<1> HIDE DEF N
<1>5. ASSUME NEW m \in 0..N
      PROVE  \A n \in m..N : /\ Len(K[m]) <= Len(K[n]) /\ (m < n => Len(K[m]) < Len(K[n]))
                             /\ \A p \in 1..Len(K[m]) : K[n][p] = K[m][p]
  <2> DEFINE At(n) == /\ Len(K[m]) <= Len(K[n]) /\ (m < n => Len(K[m]) < Len(K[n]))
                      /\ \A p \in 1..Len(K[m]) : K[n][p] = K[m][p]
             T == {n \in 0..N : n >= m => At(n)}
  <2>1. 0 \in T
    BY <1>0, <1>3
  <2>2. ASSUME NEW n \in 0..(N - 1), n \in T PROVE n + 1 \in T
    <3>1. n + 1 \in 1..N /\ (n + 1) - 1 = n /\ n + 1 \in 0..N /\ n \in 0..N
      BY <1>0
    <3>2. /\ Len(K[n + 1]) = Len(K[n]) + Len(recs[n + 1].text)
          /\ \A p \in 1..Len(K[n]) : K[n + 1][p] = K[n][p]
      BY <1>4, <3>1, ZenonT(60)
    <3>3. Len(recs[n + 1].text) \in Nat /\ Len(recs[n + 1].text) >= 1
      BY <1>1, <3>1
    <3>4. Len(K[n]) \in Nat /\ Len(K[m]) \in Nat /\ Len(K[n + 1]) \in Nat
      BY <1>3, <3>1
    <3>5. CASE n >= m
      <4>1. At(n)
        BY <2>2, <3>5
      <4>2. Len(K[m]) < Len(K[n + 1])
        <5>1. \A a, b, c, d \in Nat : a <= b /\ c = b + d /\ d >= 1 => a < c
          OBVIOUS
        <5> QED
          BY <3>2, <3>3, <3>4, <4>1, <5>1
      <4>3. \A p \in 1..Len(K[m]) : K[n + 1][p] = K[m][p]
        <5>1. \A p \in 1..Len(K[m]) : p \in 1..Len(K[n])
          BY <3>4, <4>1
        <5> QED
          BY <3>2, <4>1, <5>1
      <4>4. At(n + 1)
        BY <3>4, <4>2, <4>3
      <4> HIDE DEF At
      <4> QED
        BY <3>1, <4>4
    <3>6. CASE n + 1 = m
      <4>1. At(n + 1)
        BY <1>0, <3>4, <3>6
      <4> HIDE DEF At
      <4> QED
        BY <3>1, <4>1
    <3>7. CASE n + 1 < m
      <4> HIDE DEF At
      <4> QED
        BY <3>1, <3>7
    <3> QED
      BY <3>1, <3>5, <3>6, <3>7
  <2> HIDE DEF T
  <2>3. 0..N \subseteq T
    BY <1>0, <2>1, <2>2, UpTo
  <2>4. \A n \in m..N : n \in 0..N /\ n >= m
    BY <1>0
  <2> QED
    BY <2>3, <2>4 DEF T
<1>6. ASSUME NEW n \in 0..N PROVE Len(K[n]) \in Nat /\ Len(K[n]) <= Len(K[N])
  <2>1. N \in n..N
    BY <1>0
  <2> QED
    BY <1>3, <1>5, <2>1
<1>7. ASSUME NEW m \in 0..N, NEW n \in 0..N, m < n PROVE Len(K[m]) < Len(K[n])
  <2>1. n \in m..N
    BY <1>0, <1>7
  <2> QED
    BY <1>5, <1>7, <2>1
<1>8. ASSUME NEW n \in 1..N, NEW p \in 1..Len(recs[n].text)
      PROVE  K[N][Len(K[n - 1]) + p] = recs[n].text[p]
  <2>1. N \in n..N /\ n \in 0..N /\ n - 1 \in 0..N
    BY <1>0
  <2>2. Len(K[n - 1]) + p \in 1..Len(K[n])
    <3>1. \A a, b, c \in Nat : c = a + b => \A q \in 1..b : a + q \in 1..c
      OBVIOUS
    <3>2. /\ Len(K[n - 1]) \in Nat /\ Len(K[n]) \in Nat /\ Len(recs[n].text) \in Nat
          /\ Len(K[n]) = Len(K[n - 1]) + Len(recs[n].text)
      BY <1>1, <1>3, <1>4, <2>1
    <3> QED
      BY <3>1, <3>2
  <2>3. K[N][Len(K[n - 1]) + p] = K[n][Len(K[n - 1]) + p]
    BY <1>5, <2>1, <2>2
  <2> QED
    BY <1>4, <2>3
<1> QED
  BY <1>0, <1>1, <1>4, <1>6, <1>7, <1>8 DEF N

\* Records whose heads stand on their own are read back from their lines.
LEMMA Reparse ==
  ASSUME NEW L, L \subseteq JournalLine, NEW recs \in Seq(Whole(L))
  PROVE  journal_records(Lines(recs)) = recs
<1> DEFINE N == Len(recs)
           j == Lines(recs)
<1>0. N \in Nat /\ recs \in Seq(Records(L)) /\ \A n \in 1..N : recs[n] \in Whole(L)
  <2>1. Whole(L) \subseteq Records(L)
    BY DEF Whole
  <2>2. \A s \in Seq(Whole(L)) : s \in Seq(Records(L)) /\ \A n \in 1..Len(s) : s[n] \in Whole(L)
    BY <2>1
  <2> QED
    BY <2>2
<1>1. \A n \in 1..N : /\ recs[n].text \in Seq(L) /\ recs[n].t = recs[n].text[1].t
                      /\ \A k \in 2..Len(recs[n].text) : Continues(recs[n].text[k])
                      /\ ~Continues(recs[n].text[1])
                      /\ recs[n] = [t |-> recs[n].t, text |-> recs[n].text]
  BY <1>0 DEF Whole, Records, Rec, WellFormed
<1>2. PICK K \in [0..N -> Seq(L)] : LinesLoop(recs, K)
  BY <1>0, <1>1, LinesUnfolds
<1>3. /\ \A n \in 1..N : /\ Len(recs[n].text) \in Nat /\ Len(recs[n].text) >= 1
                         /\ Len(K[n]) = Len(K[n - 1]) + Len(recs[n].text)
      /\ \A n \in 0..N : Len(K[n]) \in Nat /\ Len(K[n]) <= Len(K[N])
      /\ \A m, n \in 0..N : m < n => Len(K[m]) < Len(K[n])
      /\ \A n \in 1..N : \A p \in 1..Len(recs[n].text) : K[N][Len(K[n - 1]) + p] = recs[n].text[p]
  BY <1>0, <1>2, LinesPlaces
<1>4. j = K[N] /\ Len(K[0]) = 0
  BY <1>2 DEF LinesLoop
<1>5. j \in Seq(JournalLine) /\ Len(j) \in Nat
  <2>1. j \in Seq(L)
    BY <1>0, <1>2, <1>4
  <2> HIDE DEF j
  <2> QED
    BY <2>1
<1> HIDE DEF N, j
<1> DEFINE g == [n \in 1..N |-> Len(K[n - 1]) + 1]
           Top(n) == Len(K[n - 1]) + 1
<1>6. \A n \in 1..N : n - 1 \in 0..N /\ n \in 0..N /\ Top(n) \in Nat
  BY <1>0, <1>3
<1>7. g \in Seq(Nat) /\ Len(g) = N /\ \A n \in 1..N : g[n] = Top(n)
  BY <1>0, <1>6
<1> HIDE DEF g
<1>8. Increasing(g)
  <2> SUFFICES ASSUME NEW a \in 1..N, NEW b \in 1..N, a < b PROVE Top(a) < Top(b)
    BY <1>7 DEF Increasing
  <2>1. Len(K[a - 1]) < Len(K[b - 1]) /\ Len(K[a - 1]) \in Nat /\ Len(K[b - 1]) \in Nat
    <3>1. a - 1 \in 0..N /\ b - 1 \in 0..N /\ a - 1 < b - 1
      BY <1>0
    <3> QED
      BY <1>3, <3>1
  <2> QED
    BY <2>1

\* Each record's head opens a record.
<1>9. ASSUME NEW n \in 1..N PROVE Top(n) \in Opening(j) /\ j[Top(n)] = recs[n].text[1]
  <2>0. \A a \in Nat : a >= 1 => 1 \in 1..a
    OBVIOUS
  <2>1. 1 \in 1..Len(recs[n].text)
    BY <1>3, <2>0
  <2>2. j[Top(n)] = recs[n].text[1]
    BY <1>3, <1>4, <2>1
  <2>3. Top(n) \in 1..Len(j)
    <3>1. /\ Len(K[n - 1]) \in Nat /\ Len(K[n]) = Len(K[n - 1]) + Len(recs[n].text)
          /\ Len(K[n]) <= Len(K[N]) /\ Len(recs[n].text) \in Nat /\ Len(recs[n].text) >= 1
          /\ Len(K[N]) \in Nat
      <4>1. N \in 0..N /\ n \in 0..N /\ n - 1 \in 0..N
        BY <1>0, <1>6
      <4> QED
        BY <1>3, <4>1
    <3>2. \A a, b, c, d \in Nat : b = a + c /\ c >= 1 /\ b <= d => a + 1 \in 1..d
      OBVIOUS
    <3>3. Len(K[n]) \in Nat
      BY <1>3, <1>6
    <3> QED
      BY <1>4, <3>1, <3>2, <3>3
  <2> QED
    BY <1>1, <2>2, <2>3 DEF Opening

\* Every line is in a record.
<1>10. ASSUME NEW p \in 1..Len(j) PROVE \E n \in 1..N : p \in Top(n)..Len(K[n])
  <2> DEFINE S == {n \in 0..N : Len(K[n]) >= p}
  <2>1. N \in S /\ S \subseteq Nat /\ 0 \notin S
    BY <1>0, <1>3, <1>4, <1>5
  <2>2. PICK n \in S : \A m \in S : n <= m
    BY <2>1, Least
  <2>3. n \in 1..N /\ n - 1 \in 0..N /\ n - 1 \notin S
    BY <1>0, <2>1, <2>2
  <2>4. Len(K[n - 1]) < p /\ p <= Len(K[n]) /\ Len(K[n - 1]) \in Nat /\ Len(K[n]) \in Nat
    BY <1>3, <2>3
  <2> QED
    BY <1>5, <2>3, <2>4
<1>11. Opening(j) \subseteq Elems(g)
  <2> SUFFICES ASSUME NEW p \in Opening(j) PROVE p \in Elems(g)
    OBVIOUS
  <2>1. p \in 1..Len(j) /\ (p = 1 \/ ~Continues(j[p]))
    BY DEF Opening
  <2>2. PICK n \in 1..N : p \in Top(n)..Len(K[n])
    BY <1>10, <2>1
  <2>3. p = Top(n)
    <3> SUFFICES ASSUME p # Top(n) PROVE FALSE
      OBVIOUS
    <3> DEFINE q == p - Len(K[n - 1])
    <3>1. /\ Len(K[n - 1]) \in Nat /\ Len(K[n]) = Len(K[n - 1]) + Len(recs[n].text)
          /\ Len(recs[n].text) \in Nat
      BY <1>3, <1>6
    <3>2. q \in 2..Len(recs[n].text) /\ q \in 1..Len(recs[n].text) /\ p = Len(K[n - 1]) + q /\ p > 1
      <4>1. \A x \in Int, a, b, c \in Nat : b = a + c /\ x \in (a + 1)..b /\ x # a + 1 =>
               x - a \in 2..c /\ x - a \in 1..c /\ x = a + (x - a) /\ x > 1
        OBVIOUS
      <4>2. Len(K[n]) \in Nat /\ p \in Int
        BY <1>3, <1>6, <2>1
      <4> QED
        BY <2>2, <3>1, <4>1, <4>2
    <3>3. j[p] = recs[n].text[q]
      BY <1>3, <1>4, <3>2
    <3>4. p # 1
      BY <2>1, <3>2
    <3> HIDE DEF q
    <3> QED
      BY <1>1, <2>1, <3>2, <3>3, <3>4
  <2> QED
    BY <1>7, <2>3 DEF Elems
<1>12. Elems(g) = Opening(j)
  <2>1. Elems(g) \subseteq Opening(j)
    BY <1>7, <1>9 DEF Elems
  <2> QED
    BY <1>11, <2>1
<1>13. PICK h : RecordsOf(j, h, journal_records(j))
  BY <1>5, RecordsShape
<1>14. h = g
  <2>1. h \in Seq(Nat) /\ Increasing(h) /\ Elems(h) = Opening(j)
    BY <1>13 DEF RecordsOf
  <2> QED
    BY <1>7, <1>8, <1>12, <2>1, SortedUnique
<1> DEFINE out == journal_records(j)
<1>15. /\ out \in Seq(Records(Elems(j))) /\ Len(out) = N
       /\ \A i \in 1..N : out[i] = RecFrom(j, g[i], EndOf(j, g, i))
  BY <1>7, <1>13, <1>14 DEF RecordsOf
<1> HIDE DEF out
<1>16. ASSUME NEW i \in 1..N PROVE out[i] = recs[i]
  <2>1. EndOf(j, g, i) = Len(K[i])
    <3>1. CASE i < N
      <4>1. i + 1 \in 1..N /\ (i + 1) - 1 = i
        BY <1>0, <3>1
      <4>2. g[i + 1] = Len(K[i]) + 1 /\ Len(K[i]) \in Nat
        BY <1>3, <1>6, <1>7, <4>1
      <4> QED
        BY <1>7, <3>1, <4>2 DEF EndOf
    <3>2. CASE i = N
      BY <1>0, <1>4, <1>7, <3>2 DEF EndOf
    <3> QED
      BY <1>0, <3>1, <3>2
  <2> DEFINE a == Len(K[i - 1])
             len == Len(recs[i].text)
  <2>2. a \in Nat /\ len \in Nat /\ len >= 1 /\ Len(K[i]) = a + len /\ a + len <= Len(j) /\ g[i] = a + 1
    BY <1>3, <1>4, <1>6, <1>7
  <2>3. \A p \in 1..len : j[a + p] = recs[i].text[p]
    BY <1>3, <1>4
  <2>4. recs[i].text \in Seq(L)
    BY <1>1
  <2> HIDE DEF a
  <2>5. SubSeq(j, a + 1, a + len) = recs[i].text
    <3> DEFINE s == SubSeq(j, a + 1, a + len)
    <3>1. s \in Seq(JournalLine) /\ Len(s) = len /\ \A p \in 1..len : s[p] = j[a + p]
      <4> HIDE DEF len
      <4>1. \A p \in 1..len : (a + 1) + p - 1 = a + p
        BY <2>2
      <4>2. (a + len) - (a + 1) + 1 = len /\ a + 1 <= a + len
        BY <2>2
      <4>3. \A u, v \in 1..Len(j) : u <= v =>
               /\ SubSeq(j, u, v) \in Seq(JournalLine) /\ Len(SubSeq(j, u, v)) = v - u + 1
               /\ \A p \in 1..(v - u + 1) : SubSeq(j, u, v)[p] = j[u + p - 1]
        BY <1>5
      <4>4. a + 1 \in 1..Len(j) /\ a + len \in 1..Len(j)
        BY <1>5, <2>2
      <4> QED
        BY <4>1, <4>2, <4>3, <4>4
    <3> HIDE DEF s
    <3>2. \A p \in 1..Len(s) : s[p] = recs[i].text[p]
      BY <2>3, <3>1
    <3>3. Len(s) = Len(recs[i].text) /\ recs[i].text \in Seq(JournalLine)
      BY <2>4, <3>1, SeqWithin
    <3>4. \A u, v \in Seq(JournalLine) :
             Len(u) = Len(v) /\ (\A p \in 1..Len(u) : u[p] = v[p]) => u = v
      BY SeqEqual
    <3> QED
      BY <2>4, <3>1, <3>2, <3>3, <3>4 DEF s
  <2>6. j[a + 1].t = recs[i].t
    <3>1. 1 \in 1..len
      BY <2>2
    <3> QED
      BY <1>1, <2>3, <3>1
  <2>7. out[i] = RecFrom(j, a + 1, a + len)
    BY <1>15, <2>1, <2>2
  <2>8. RecFrom(j, a + 1, a + len) = [t |-> recs[i].t, text |-> recs[i].text]
    BY <2>5, <2>6 DEF RecFrom
  <2> QED
    BY <1>1, <2>7, <2>8
<1>17. out = recs
  BY <1>15, <1>16, SeqEqual DEF N
<1> QED
  BY <1>17 DEF out, j

\* The first record starts with the first line, and where that line is not a
\* continuation, every head stands on its own.
LEMMA WholeRecords ==
  ASSUME NEW j \in Seq(JournalLine), Len(j) >= 1
  PROVE  /\ journal_records(j)[1].text[1] = j[1]
         /\ ~Continues(j[1]) => journal_records(j) \in Seq(Whole(Elems(j)))
<1> DEFINE recs == journal_records(j)
<1>1. PICK h : RecordsOf(j, h, recs)
  BY RecordsShape
<1> HIDE DEF recs
<1>2. /\ h \in Seq(Nat) /\ Increasing(h) /\ Elems(h) = Opening(j)
      /\ recs \in Seq(Records(Elems(j))) /\ Len(recs) = Len(h)
      /\ \A i \in 1..Len(h) : recs[i] = RecFrom(j, h[i], EndOf(j, h, i))
  BY <1>1 DEF RecordsOf
<1>3. Len(j) \in Nat /\ Len(h) \in Nat /\ Elems(h) \subseteq 1..Len(j) /\ \A i \in 1..Len(h) : h[i] \in Nat
  BY <1>2 DEF Opening
<1>4. ASSUME NEW i \in 1..Len(h)
      PROVE  recs[i].text[1] = j[h[i]] /\ h[i] \in Opening(j)
  <2>1. h[i] \in 1..Len(j) /\ EndOf(j, h, i) \in h[i]..Len(j)
    BY <1>2, <1>3, Extent
  <2>2. \A a \in 1..Len(j) : \A b \in a..Len(j) : SubSeq(j, a, b)[1] = j[a]
    OBVIOUS
  <2>3. recs[i].text = SubSeq(j, h[i], EndOf(j, h, i))
    <3>1. \A a, b : RecFrom(j, a, b).text = SubSeq(j, a, b)
      BY DEF RecFrom
    <3> QED
      BY <1>2, <3>1
  <2>4. h[i] \in Elems(h)
    BY DEF Elems
  <2> QED
    BY <1>2, <2>1, <2>2, <2>3, <2>4
<1>5. 1 \in 1..Len(h) /\ h[1] = 1
  <2>1. 1 \in Opening(j)
    BY <1>3 DEF Opening
  <2>2. PICK i \in 1..Len(h) : h[i] = 1
    BY <1>2, <2>1 DEF Elems
  <2>3. 1 \in 1..Len(h) /\ (i = 1 \/ 1 < i)
    BY <1>3
  <2>4. h[1] \in 1..Len(j)
    BY <1>2, <1>3, <2>3 DEF Elems
  <2>5. 1 < i => h[1] < h[i]
    BY <1>2, <2>3 DEF Increasing
  <2> QED
    BY <1>3, <2>2, <2>3, <2>4, <2>5
<1>6. recs[1].text[1] = j[1]
  BY <1>4, <1>5
<1>7. ASSUME ~Continues(j[1]) PROVE recs \in Seq(Whole(Elems(j)))
  <2>1. \A i \in 1..Len(recs) : recs[i] \in Records(Elems(j)) /\ ~Continues(recs[i].text[1])
    BY <1>2, <1>4, <1>7 DEF Opening
  <2>2. \A i \in 1..Len(recs) : recs[i] \in Whole(Elems(j))
    BY <2>1 DEF Whole
  <2>3. \A X, Y : \A s \in Seq(X) : (\A i \in 1..Len(s) : s[i] \in Y) => s \in Seq(Y)
    OBVIOUS
  <2> QED
    BY <1>2, <2>2, <2>3
<1> QED
  BY <1>6, <1>7 DEF recs

\* Whole records of some lines are whole records of more lines.
LEMMA WholeWithin ==
  ASSUME NEW X, NEW Y, X \subseteq Y
  PROVE  Seq(Whole(X)) \subseteq Seq(Whole(Y))
<1>1. Records(X) \subseteq Records(Y)
  BY SeqWithin
<1>2. Whole(X) \subseteq Whole(Y)
  BY <1>1 DEF Whole
<1> QED
  BY <1>2, SeqWithin

\* The lines of a journal.
LEMMA LinesOf ==
  ASSUME NEW j \in Seq(JournalLine)
  PROVE  Elems(j) \subseteq JournalLine
<1>1. \A i \in 1..Len(j) : j[i] \in JournalLine
  OBVIOUS
<1> QED
  BY <1>1 DEF Elems

\* Two readings that start with a record of their own: the text of each record occurs as
\* often as in the reading that has it most often.
LEMMA CombinedTimes ==
  ASSUME NEW kernel \in Seq(JournalLine), NEW tail \in Seq(JournalLine),
         Len(kernel) >= 1, Len(tail) >= 1, ~Continues(kernel[1]), ~Continues(tail[1]), NEW x
  PROVE  LET k == journal_records(kernel)
             t == journal_records(tail)
         IN Times(x, journal_records(Lines(Merged(kernel, tail))))
               = IF Times(x, k) >= Times(x, t) THEN Times(x, k) ELSE Times(x, t)
<1> DEFINE L == Elems(kernel) \cup Elems(tail)
           R == Whole(L)
           k == journal_records(kernel)
           t == journal_records(tail)
           u == UniqueTail(k, t)
           m == stable_merge(k, u)
<1>1. k \in Seq(Whole(Elems(kernel))) /\ t \in Seq(Whole(Elems(tail)))
  BY WholeRecords
<1>2. L \subseteq JournalLine /\ Elems(kernel) \subseteq L /\ Elems(tail) \subseteq L
  BY LinesOf
<1> HIDE DEF L, k, t
<1>3. k \in Seq(R) /\ t \in Seq(R)
  BY <1>1, <1>2, WholeWithin
<1>4. u \in Seq(R)
  BY <1>3, UniqueTyped
<1>5. m \in Seq(R)
  BY <1>3, <1>4, MergeTyped
<1>6. Times(x, u) = Excess(Times(x, t), Times(x, k))
  BY <1>3, UniqueTimes
<1>7. Times(x, m) = Times(x, k) + Times(x, u)
  BY <1>3, <1>4, MergeTimes
<1>8. Times(x, k) \in Nat /\ Times(x, t) \in Nat
  BY <1>3, TimesNat
<1>9. Merged(kernel, tail) = m
  BY DEF Merged, Unique, k, t
<1> HIDE DEF u, m
<1>10. journal_records(Lines(m)) = m
  BY <1>2, <1>5, Reparse
<1>11. Times(x, m) = IF Times(x, k) >= Times(x, t) THEN Times(x, k) ELSE Times(x, t)
  BY <1>6, <1>7, <1>8 DEF Excess
<1> QED
  BY <1>9, <1>10, <1>11 DEF k, t

\* The two readings are combined without loss: the first part of JournalsRight.
LEMMA ReadingsMerge == OutcomeInv => MergeKeeps
<1> SUFFICES ASSUME OutcomeInv, call.cmd = "gpu-boot", None \notin {Kernel(call), Tail_(call)} PROVE MergeKeeps
  BY DEF MergeKeeps
<1> DEFINE K == Kernel(call)
           T == Tail_(call)
           k == journal_records(K)
           t == journal_records(T)
<1>1. K \in Seq(JournalLine) /\ T \in Seq(JournalLine) /\ Len(K) >= 1 /\ Len(T) >= 1
  BY CallReadingsLines DEF OutcomeInv
<1>2. combine_prior(K, T) = Lines(Merged(K, T))
  BY DEF combine_prior, Merged, Unique
<1> HIDE DEF K, T
<1>3. k[1].text[1] = K[1] /\ t[1].text[1] = T[1]
  BY <1>1, WholeRecords
<1> DEFINE merged == journal_records(combine_prior(K, T))
<1>4. ASSUME ~k[1].text[1].indent, ~t[1].text[1].indent, NEW r
      PROVE  Times(r.text, merged) = IF Times(r.text, k) >= Times(r.text, t)
                                     THEN Times(r.text, k) ELSE Times(r.text, t)
  <2>1. ~Continues(K[1]) /\ ~Continues(T[1])
    BY <1>3, <1>4 DEF Continues
  <2> QED
    BY <1>1, <1>2, <2>1, CombinedTimes
<1> HIDE DEF k, t, merged
<1>5. ~k[1].text[1].indent /\ ~t[1].text[1].indent =>
         \A r \in {k[i] : i \in DOMAIN k} \cup {t[i] : i \in DOMAIN t} :
            r.t # NoStamp =>
               Times(r.text, merged) = IF Times(r.text, k) >= Times(r.text, t)
                                       THEN Times(r.text, k) ELSE Times(r.text, t)
  BY <1>4
<1> QED
  BY <1>5 DEF MergeKeeps, k, t, merged, K, T
-----------------------------------------------------------------------------
(* Sequences filtered, mapped and in order *)

\* A filter takes the elements one after the other.
LEMMA AmongAppend ==
  ASSUME NEW X, NEW s \in Seq(X), NEW x \in X, NEW S
  PROVE  Among(Append(s, x), S) = IF x \in S THEN Append(Among(s, S), x) ELSE Among(s, S)
<1> DEFINE u == Append(s, x)
           N == Len(s)
<1>0. u \in Seq(X) /\ Len(u) = N + 1 /\ N \in Nat /\ u[N + 1] = x /\ \A n \in 1..N : u[n] = s[n]
  OBVIOUS
<1> HIDE DEF u
<1>1. PICK K \in [0..N -> Seq(X)] : AmongLoop(s, S, K)
  BY AmongUnfolds
<1>2. PICK J \in [0..(N + 1) -> Seq(X)] : AmongLoop(u, S, J)
  BY <1>0, AmongUnfolds
<1>3. /\ Among(s, S) = K[N] /\ K[0] = <<>>
      /\ \A n \in 1..N : K[n] = IF s[n] \in S THEN Append(K[n - 1], s[n]) ELSE K[n - 1]
  BY <1>1 DEF AmongLoop
<1>4. /\ Among(u, S) = J[N + 1] /\ J[0] = <<>>
      /\ \A n \in 1..(N + 1) : J[n] = IF u[n] \in S THEN Append(J[n - 1], u[n]) ELSE J[n - 1]
  BY <1>0, <1>2 DEF AmongLoop
<1> HIDE DEF N
<1>5. ASSUME NEW k \in 0..(N - 1), K[k] = J[k] PROVE K[k + 1] = J[k + 1]
  <2>1. k + 1 \in 1..N /\ k + 1 \in 1..(N + 1) /\ (k + 1) - 1 = k
    BY <1>0
  <2>2. u[k + 1] = s[k + 1]
    BY <1>0, <2>1
  <2>3. K[k + 1] = IF s[k + 1] \in S THEN Append(K[k], s[k + 1]) ELSE K[k]
    BY <1>3, <2>1
  <2>4. J[k + 1] = IF u[k + 1] \in S THEN Append(J[k], u[k + 1]) ELSE J[k]
    BY <1>4, <2>1
  <2> QED
    BY <1>5, <2>2, <2>3, <2>4
<1>6. \A k \in 0..N : K[k] = J[k]
  <2>1. K[0] = J[0] /\ N \in Nat
    BY <1>0, <1>3, <1>4
  <2>2. \A k \in 0..(N - 1) : K[k] = J[k] => K[k + 1] = J[k + 1]
    BY <1>5
  <2> QED
    BY <2>1, <2>2, SameUpTo
<1>7. K[N] = J[N] /\ N + 1 \in 1..(N + 1) /\ (N + 1) - 1 = N
  BY <1>0, <1>6
<1> QED
  BY <1>0, <1>3, <1>4, <1>7 DEF u

\* A filter of nothing.
LEMMA AmongNone ==
  ASSUME NEW S
  PROVE  Among(<<>>, S) = <<>>
<1>1. <<>> \in Seq({}) /\ Len(<<>>) = 0
  OBVIOUS
<1>2. PICK K \in [0..Len(<<>>) -> Seq({})] : AmongLoop(<<>>, S, K)
  BY <1>1, AmongUnfolds
<1> QED
  BY <1>1, <1>2 DEF AmongLoop

\* Induction over the prefixes of a sequence.
LEMMA OverPrefixes ==
  ASSUME NEW X, NEW s \in Seq(X), NEW T, <<>> \in T,
         \A n \in 1..Len(s) : SubSeq(s, 1, n - 1) \in T => Append(SubSeq(s, 1, n - 1), s[n]) \in T
  PROVE  s \in T
<1>1. /\ SubSeq(s, 1, 0) = <<>> /\ SubSeq(s, 1, Len(s)) = s
      /\ \A n \in 1..Len(s) : SubSeq(s, 1, n) = Append(SubSeq(s, 1, n - 1), s[n])
  BY PrefixStep
<1> DEFINE N == Len(s)
           S == {n \in 0..N : SubSeq(s, 1, n) \in T}
<1>2. N \in Nat
  OBVIOUS
<1>3. 0 \in S
  <2>1. SubSeq(s, 1, 0) \in T
    BY <1>1
  <2>2. 0 \in 0..N
    BY <1>2
  <2> HIDE DEF N
  <2> QED
    BY <2>1, <2>2
<1>4. ASSUME NEW n \in 0..(N - 1), n \in S PROVE n + 1 \in S
  <2>1. n + 1 \in 1..N /\ (n + 1) - 1 = n /\ n + 1 \in 0..N
    BY <1>2
  <2>2. SubSeq(s, 1, n + 1) = Append(SubSeq(s, 1, n), s[n + 1])
    BY <1>1, <2>1
  <2>3. SubSeq(s, 1, n) \in T => Append(SubSeq(s, 1, n), s[n + 1]) \in T
    BY <2>1
  <2> QED
    BY <1>4, <2>1, <2>2, <2>3
<1> HIDE DEF S
<1>5. 0..N \subseteq S
  BY <1>2, <1>3, <1>4, UpTo
<1>6. N \in S
  BY <1>2, <1>5
<1>7. SubSeq(s, 1, N) \in T
  BY <1>6 DEF S
<1> QED
  BY <1>1, <1>7

\* A filter shortens.
LEMMA AmongShorter ==
  ASSUME NEW X, NEW s \in Seq(X), NEW S
  PROVE  Len(Among(s, S)) <= Len(s)
<1> DEFINE T == {u \in Seq(X) : Len(Among(u, S)) <= Len(u)}
<1>1. <<>> \in T
  BY AmongNone
<1>2. ASSUME NEW u \in T, NEW x \in X PROVE Append(u, x) \in T
  <2>1. u \in Seq(X) /\ Among(u, S) \in Seq(X)
    BY AmongElems
  <2>2. Len(Append(u, x)) = Len(u) + 1 /\ Len(Append(Among(u, S), x)) = Len(Among(u, S)) + 1
    BY <2>1
  <2>3. Among(Append(u, x), S) = IF x \in S THEN Append(Among(u, S), x) ELSE Among(u, S)
    BY <2>1, AmongAppend
  <2>4. Len(u) \in Nat /\ Len(Among(u, S)) \in Nat /\ Len(Among(u, S)) <= Len(u)
    BY <2>1
  <2>5. Len(Among(Append(u, x), S)) <= Len(Append(u, x))
    BY <2>2, <2>3, <2>4
  <2>6. Append(u, x) \in Seq(X)
    BY <2>1
  <2> QED
    BY <2>5, <2>6
<1> HIDE DEF T
<1>3. \A n \in 1..Len(s) : s[n] \in X
  OBVIOUS
<1>4. s \in T
  BY <1>1, <1>2, <1>3, OverPrefixes
<1> QED
  BY <1>4 DEF T

\* Two filters are one.
LEMMA AmongAmong ==
  ASSUME NEW X, NEW s \in Seq(X), NEW A, NEW B
  PROVE  Among(Among(s, A), B) = Among(s, A \cap B)
<1> DEFINE T == {u \in Seq(X) : Among(Among(u, A), B) = Among(u, A \cap B)}
<1>1. <<>> \in T
  BY AmongNone
<1>2. ASSUME NEW u \in T, NEW x \in X PROVE Append(u, x) \in T
  <2>1. u \in Seq(X) /\ Among(u, A) \in Seq(X) /\ Append(u, x) \in Seq(X)
    BY AmongElems
  <2>2. Among(Append(u, x), A) = IF x \in A THEN Append(Among(u, A), x) ELSE Among(u, A)
    BY <2>1, AmongAppend
  <2>3. Among(Append(u, x), A \cap B)
           = IF x \in A \cap B THEN Append(Among(u, A \cap B), x) ELSE Among(u, A \cap B)
    BY <2>1, AmongAppend
  <2>4. Among(Append(Among(u, A), x), B)
           = IF x \in B THEN Append(Among(Among(u, A), B), x) ELSE Among(Among(u, A), B)
    BY <2>1, AmongAppend, ZenonT(60)
  <2>5. Among(Among(u, A), B) = Among(u, A \cap B)
    OBVIOUS
  <2>6. Among(Among(Append(u, x), A), B) = Among(Append(u, x), A \cap B)
    <3>1. CASE x \in A
      <4>1. x \in A \cap B <=> x \in B
        BY <3>1
      <4> QED
        BY <2>2, <2>3, <2>4, <2>5, <3>1, <4>1
    <3>2. CASE x \notin A
      <4>1. x \notin A \cap B
        BY <3>2
      <4> QED
        BY <2>2, <2>3, <2>5, <3>2, <4>1
    <3> QED
      BY <3>1, <3>2
  <2> QED
    BY <2>1, <2>6
<1> HIDE DEF T
<1>3. \A n \in 1..Len(s) : s[n] \in X
  OBVIOUS
<1>4. s \in T
  BY <1>1, <1>2, <1>3, OverPrefixes
<1> QED
  BY <1>4 DEF T

\* Filters that agree on the elements agree.
LEMMA AmongSame ==
  ASSUME NEW X, NEW s \in Seq(X), NEW A, NEW B, \A x \in Elems(s) : x \in A <=> x \in B
  PROVE  Among(s, A) = Among(s, B)
<1> DEFINE E == Elems(s)
           T == {u \in Seq(E) : Among(u, A) = Among(u, B)}
<1>0. s \in Seq(E)
  <2>1. \A i \in 1..Len(s) : s[i] \in Elems(s)
    BY DEF Elems
  <2>2. \A Y : (\A i \in 1..Len(s) : s[i] \in Y) => s \in Seq(Y)
    OBVIOUS
  <2> QED
    BY <2>1, <2>2
<1> HIDE DEF E
<1>1. <<>> \in T
  BY AmongNone
<1>2. ASSUME NEW u \in T, NEW x \in E PROVE Append(u, x) \in T
  <2>1. u \in Seq(E) /\ Append(u, x) \in Seq(E)
    OBVIOUS
  <2>2. Among(Append(u, x), A) = IF x \in A THEN Append(Among(u, A), x) ELSE Among(u, A)
    BY <2>1, AmongAppend
  <2>3. Among(Append(u, x), B) = IF x \in B THEN Append(Among(u, B), x) ELSE Among(u, B)
    BY <2>1, AmongAppend
  <2>4. (x \in A <=> x \in B) /\ Among(u, A) = Among(u, B)
    BY DEF E
  <2>5. Among(Append(u, x), A) = Among(Append(u, x), B)
    BY <2>2, <2>3, <2>4
  <2> QED
    BY <2>1, <2>5
<1> HIDE DEF T
<1>3. \A n \in 1..Len(s) : s[n] \in E
  BY <1>0
<1>4. s \in T
  BY <1>0, <1>1, <1>2, <1>3, OverPrefixes
<1> QED
  BY <1>4 DEF T

\* A function applied to each element.
Map(f, s) == [i \in 1..Len(s) |-> f[s[i]]]

MapOf(f, s, Y) ==
    /\ Map(f, s) \in Seq(Y) /\ Len(Map(f, s)) = Len(s)
    /\ \A i \in 1..Len(s) : Map(f, s)[i] = f[s[i]]

\* A map takes the elements one after the other.
LEMMA MapAppend ==
  ASSUME NEW X, NEW Y, NEW f \in [X -> Y], NEW s \in Seq(X), NEW x \in X
  PROVE  /\ MapOf(f, s, Y) /\ Map(f, <<>>) = <<>>
         /\ Map(f, Append(s, x)) = Append(Map(f, s), f[x])
<1>1. Len(s) \in Nat /\ \A i \in 1..Len(s) : f[s[i]] \in Y
  OBVIOUS
<1>2. Map(f, s) \in Seq(Y) /\ Len(Map(f, s)) = Len(s) /\ \A i \in 1..Len(s) : Map(f, s)[i] = f[s[i]]
  BY <1>1 DEF Map
<1>3. Map(f, <<>>) = <<>>
  BY DEF Map
<1> DEFINE u == Append(s, x)
<1>4. u \in Seq(X) /\ Len(u) = Len(s) + 1 /\ \A i \in 1..(Len(s) + 1) : u[i] = IF i = Len(s) + 1 THEN x ELSE s[i]
  OBVIOUS
<1> HIDE DEF u
<1>5. Map(f, u) \in Seq(Y) /\ Len(Map(f, u)) = Len(s) + 1 /\ \A i \in 1..(Len(s) + 1) : Map(f, u)[i] = f[u[i]]
  <2>1. \A i \in 1..(Len(s) + 1) : u[i] \in X /\ f[u[i]] \in Y
    BY <1>4
  <2> QED
    BY <1>1, <1>4, <2>1 DEF Map
<1> DEFINE m == Map(f, s)
           v == Append(m, f[x])
<1>6. f[x] \in Y
  OBVIOUS
<1>7. /\ v \in Seq(Y) /\ Len(v) = Len(s) + 1
      /\ \A i \in 1..(Len(s) + 1) : v[i] = IF i = Len(s) + 1 THEN f[x] ELSE m[i]
  <2> HIDE DEF m
  <2> QED
    BY <1>2, <1>6 DEF m
<1>8. \A i \in 1..(Len(s) + 1) : i = Len(s) + 1 \/ i \in 1..Len(s)
  BY <1>1
<1>9. \A i \in 1..(Len(s) + 1) : Map(f, u)[i] = v[i]
  BY <1>2, <1>4, <1>5, <1>7, <1>8
<1> HIDE DEF v
<1>10. Map(f, u) = v
  BY <1>5, <1>7, <1>9, SeqEqual
<1> QED
  BY <1>2, <1>3, <1>10 DEF u, v, MapOf

\* A filter of what is mapped is the map of a filter.
InverseImage(f, X, Y, P, Q) == f \in [X -> Y] /\ \A x \in X : x \in P <=> f[x] \in Q

\* The map of a filter, for a filter that is the inverse image of the other.
LEMMA AmongMap ==
  ASSUME NEW X, NEW Y, NEW f, NEW s \in Seq(X), NEW Q, NEW P, InverseImage(f, X, Y, P, Q)
  PROVE  Among(Map(f, s), Q) = Map(f, Among(s, P))
<1> DEFINE T == {u \in Seq(X) : Among(Map(f, u), Q) = Map(f, Among(u, P))}
<1>0. f \in [X -> Y] /\ \A x \in X : x \in P <=> f[x] \in Q
  BY DEF InverseImage
<1>1. <<>> \in T
  <2>1. Map(f, <<>>) = <<>>
    BY DEF Map
  <2> QED
    BY <2>1, AmongNone
<1>2. ASSUME NEW u \in T, NEW x \in X PROVE Append(u, x) \in T
  <2>1. u \in Seq(X) /\ Append(u, x) \in Seq(X) /\ Among(u, P) \in Seq(X) /\ f[x] \in Y
    BY <1>0, AmongElems
  <2>a. \A v \in Seq(X) : MapOf(f, v, Y) /\ Map(f, Append(v, x)) = Append(Map(f, v), f[x])
    <3> HIDE DEF T
    <3>1. TAKE v \in Seq(X)
    <3> QED
      BY <1>0, MapAppend
  <2>2. Map(f, u) \in Seq(Y) /\ Map(f, Append(u, x)) = Append(Map(f, u), f[x])
    BY <2>1, <2>a DEF MapOf
  <2>3. Map(f, Append(Among(u, P), x)) = Append(Map(f, Among(u, P)), f[x])
    BY <2>1, <2>a
  <2>4. Among(Append(u, x), P) = IF x \in P THEN Append(Among(u, P), x) ELSE Among(u, P)
    BY <2>1, AmongAppend
  <2>5. Among(Append(Map(f, u), f[x]), Q)
           = IF f[x] \in Q THEN Append(Among(Map(f, u), Q), f[x]) ELSE Among(Map(f, u), Q)
    <3> DEFINE v == Map(f, u)
               y == f[x]
    <3>1. v \in Seq(Y) /\ y \in Y
      BY <2>1, <2>2
    <3> HIDE DEF T, v, y
    <3>2. Among(Append(v, y), Q) = IF y \in Q THEN Append(Among(v, Q), y) ELSE Among(v, Q)
      BY <3>1, AmongAppend
    <3> QED
      BY <3>2 DEF v, y
  <2>6. Among(Map(f, u), Q) = Map(f, Among(u, P)) /\ (x \in P <=> f[x] \in Q)
    BY <1>0
  <2>7. Among(Map(f, Append(u, x)), Q) = Map(f, Among(Append(u, x), P))
    BY <2>2, <2>3, <2>4, <2>5, <2>6
  <2> QED
    BY <2>1, <2>7
<1> HIDE DEF T
<1>3. \A n \in 1..Len(s) : s[n] \in X
  OBVIOUS
<1>4. s \in T
  BY <1>1, <1>2, <1>3, OverPrefixes
<1> QED
  BY <1>4 DEF T
-----------------------------------------------------------------------------
(* Sequences in the order of their stamps *)

Timed(X) == \A x \in X : x.t \in Int
Sorted(s) == \A i, k \in 1..Len(s) : i <= k => s[i].t <= s[k].t

\* A sequence stays in order when what is appended is no earlier.
LEMMA SortedAppend ==
  ASSUME NEW X, Timed(X), NEW s \in Seq(X), NEW x \in X
  PROVE  Sorted(Append(s, x)) <=> Sorted(s) /\ \A y \in Elems(s) : y.t <= x.t
<1> DEFINE u == Append(s, x)
           N == Len(s)
<1>0. N \in Nat /\ Len(u) = N + 1 /\ u[N + 1] = x /\ \A i \in 1..N : u[i] = s[i] /\ s[i] \in X
  OBVIOUS
<1> HIDE DEF u
<1>1. ASSUME Sorted(u) PROVE Sorted(s) /\ \A y \in Elems(s) : y.t <= x.t
  <2>1. \A i, k \in 1..(N + 1) : i <= k => u[i].t <= u[k].t
    BY <1>0, <1>1 DEF Sorted
  <2>2. \A i \in 1..N : i \in 1..(N + 1) /\ N + 1 \in 1..(N + 1) /\ i <= N + 1
    BY <1>0
  <2>3. Sorted(s)
    BY <1>0, <2>1, <2>2 DEF Sorted
  <2>4. \A i \in 1..N : s[i].t <= x.t
    BY <1>0, <2>1, <2>2
  <2> QED
    BY <2>3, <2>4 DEF Elems
<1>2. ASSUME Sorted(s), \A y \in Elems(s) : y.t <= x.t PROVE Sorted(u)
  <2>1. \A i \in 1..N : s[i].t <= x.t
    BY <1>2 DEF Elems
  <2>2. x.t <= x.t
    BY DEF Timed
  <2>3. ASSUME NEW i \in 1..(N + 1), NEW k \in 1..(N + 1), i <= k PROVE u[i].t <= u[k].t
    <3>1. i \in 1..N \/ i = N + 1
      BY <1>0
    <3>2. k \in 1..N \/ k = N + 1
      BY <1>0
    <3>3. i = N + 1 => k = N + 1
      BY <1>0, <2>3
    <3>4. CASE k = N + 1
      BY <1>0, <2>1, <2>2, <3>1, <3>4
    <3>5. CASE k \in 1..N /\ i \in 1..N
      <4>1. s[i].t <= s[k].t
        BY <1>2, <2>3, <3>5 DEF Sorted
      <4> QED
        BY <1>0, <3>5, <4>1
    <3>6. N + 1 \notin 1..N
      BY <1>0
    <3> QED
      BY <3>1, <3>2, <3>3, <3>4, <3>5, <3>6
  <2> QED
    BY <1>0, <2>3 DEF Sorted
<1> QED
  BY <1>1, <1>2 DEF u

\* A filter keeps the order.
LEMMA AmongSorted ==
  ASSUME NEW X, Timed(X), NEW s \in Seq(X), NEW S, Sorted(s)
  PROVE  Sorted(Among(s, S))
<1> DEFINE T == {u \in Seq(X) : Sorted(u) => Sorted(Among(u, S))}
<1>1. <<>> \in T
  <2>1. Sorted(<<>>)
    BY DEF Sorted
  <2> QED
    BY <2>1, AmongNone
<1>2. ASSUME NEW u \in T, NEW x \in X PROVE Append(u, x) \in T
  <2>1. u \in Seq(X) /\ Append(u, x) \in Seq(X)
    OBVIOUS
  <2>2. Among(u, S) \in Seq(X) /\ Elems(Among(u, S)) = Elems(u) \cap S
    BY <2>1, AmongElems
  <2>3. Among(Append(u, x), S) = IF x \in S THEN Append(Among(u, S), x) ELSE Among(u, S)
    BY <2>1, AmongAppend
  <2>4. Sorted(Append(u, x)) <=> Sorted(u) /\ \A y \in Elems(u) : y.t <= x.t
    BY <2>1, SortedAppend
  <2>5. Sorted(Append(Among(u, S), x)) <=> Sorted(Among(u, S)) /\ \A y \in Elems(Among(u, S)) : y.t <= x.t
    BY <2>2, SortedAppend
  <2>6. Sorted(u) => Sorted(Among(u, S))
    OBVIOUS
  <2>7. Sorted(Append(u, x)) => Sorted(Among(Append(u, x), S))
    BY <2>2, <2>3, <2>4, <2>5, <2>6
  <2> QED
    BY <2>1, <2>7
<1> HIDE DEF T
<1>3. \A n \in 1..Len(s) : s[n] \in X
  OBVIOUS
<1>4. s \in T
  BY <1>1, <1>2, <1>3, OverPrefixes
<1> QED
  BY <1>4 DEF T

\* Where each stamp is at least the one before it, the stamps are in order.
LEMMA AdjacentSorted ==
  ASSUME NEW X, Timed(X), NEW s \in Seq(X), \A i \in 2..Len(s) : s[i - 1].t <= s[i].t
  PROVE  Sorted(s)
<1> DEFINE N == Len(s)
           T == {k \in 0..N : \A i \in 1..k : s[i].t <= s[k].t}
<1>0. N \in Nat /\ \A n \in 1..N : s[n].t \in Int
  BY DEF Timed
<1>1. 0 \in T
  BY <1>0
<1>2. ASSUME NEW k \in 0..(N - 1), k \in T PROVE k + 1 \in T
  <2>1. k + 1 \in 1..N /\ (k + 1) - 1 = k /\ k + 1 \in 0..N
    BY <1>0
  <2>2. ASSUME NEW i \in 1..(k + 1) PROVE s[i].t <= s[k + 1].t
    <3>1. CASE i = k + 1
      <4>1. s[k + 1].t \in Int
        BY <1>0, <2>1
      <4>2. \A a \in Int : a <= a
        OBVIOUS
      <4> QED
        BY <3>1, <4>1, <4>2
    <3>2. CASE i \in 1..k
      <4>1. s[i].t <= s[k].t /\ k + 1 \in 2..N /\ i \in 1..N /\ k \in 1..N
        BY <1>0, <1>2, <3>2
      <4>2. s[(k + 1) - 1].t <= s[k + 1].t
        BY <4>1
      <4>3. s[i].t \in Int /\ s[k].t \in Int /\ s[k + 1].t \in Int
        BY <1>0, <2>1, <4>1
      <4>4. \A a, b, c \in Int : a <= b /\ b <= c => a <= c
        OBVIOUS
      <4> QED
        BY <2>1, <4>1, <4>2, <4>3, <4>4
    <3>3. i = k + 1 \/ i \in 1..k
      BY <1>0
    <3> QED
      BY <3>1, <3>2, <3>3
  <2> QED
    BY <2>1, <2>2
<1> HIDE DEF T
<1>3. 0..N \subseteq T
  BY <1>0, <1>1, <1>2, UpTo
<1>4. ASSUME NEW i \in 1..N, NEW k \in 1..N, i <= k PROVE s[i].t <= s[k].t
  <2>1. k \in T /\ i \in 1..k
    BY <1>0, <1>3, <1>4
  <2> QED
    BY <2>1 DEF T
<1> QED
  BY <1>4 DEF Sorted

\* Stamps in order do not regress.
LEMMA SortedSteady ==
  ASSUME NEW rows \in Seq(Row), Sorted(rows)
  PROVE  ~timestamps_regress(rows)
<1> DEFINE N == Len(rows)
<1>0. N \in Nat /\ \A n \in 1..N : rows[n].t \in Int
  <2>1. \A r \in Row : r.t \in Int
    BY DEF Row
  <2> QED
    BY <2>1
<1>1. PICK K \in [0..N -> Nat] : RegressLoop(rows, K)
  BY <1>0, RegressUnfolds
<1>2. /\ timestamps_regress(rows) <=> K[N] > Tolerance
      /\ K[0] = 0 /\ \A n \in 1..N : K[n] = K[n - 1] + Back(rows, n)
  BY <1>1 DEF RegressLoop
<1>3. ASSUME NEW n \in 1..N PROVE Back(rows, n) = 0
  <2>1. CASE n > 1
    <3>1. n - 1 \in 1..N /\ n - 1 <= n
      BY <1>0, <2>1
    <3>2. rows[n - 1].t <= rows[n].t
      BY <3>1 DEF Sorted
    <3>3. \A a, b \in Int : a <= b => ~(a > b)
      OBVIOUS
    <3>4. ~(rows[n - 1].t > rows[n].t)
      BY <1>0, <3>1, <3>2, <3>3
    <3> QED
      BY <3>4 DEF Back
  <2> QED
    BY <2>1 DEF Back
<1> DEFINE T == {n \in 0..N : K[n] = 0}
<1>4. 0 \in T
  BY <1>0, <1>2
<1>5. ASSUME NEW n \in 0..(N - 1), n \in T PROVE n + 1 \in T
  <2>1. n + 1 \in 1..N /\ (n + 1) - 1 = n /\ n + 1 \in 0..N
    BY <1>0
  <2>2. K[n + 1] = K[n] + Back(rows, n + 1)
    BY <1>2, <2>1
  <2>3. K[n] = 0 /\ Back(rows, n + 1) = 0
    BY <1>3, <1>5, <2>1
  <2> QED
    BY <2>1, <2>2, <2>3
<1> HIDE DEF T
<1>6. 0..N \subseteq T
  BY <1>0, <1>4, <1>5, UpTo
<1>7. K[N] = 0
  BY <1>0, <1>6 DEF T
<1>8. Tolerance \in Nat
  BY D3JournalAssumptions
<1> QED
  BY <1>2, <1>7, <1>8

\* What is left of a tail in order is in order, and is of the tail.
LEMMA UniqueSorted ==
  ASSUME NEW R, Timed(R), NEW tail \in Seq(R), NEW kernel, Sorted(tail)
  PROVE  Sorted(UniqueTail(kernel, tail)) /\ Elems(UniqueTail(kernel, tail)) \subseteq Elems(tail)
<1> DEFINE N == Len(tail)
           Before(n) == {tail[i] : i \in 1..n}
<1>0. N \in Nat /\ \A n \in 1..N : tail[n] \in R
  OBVIOUS
<1>1. PICK K \in [0..N -> Seq(R)] : UniqueLoop(kernel, tail, K)
  BY UniqueUnfolds
<1>2. /\ UniqueTail(kernel, tail) = K[N] /\ K[0] = <<>>
      /\ \A n \in 1..N : K[n] \in {K[n - 1], Append(K[n - 1], tail[n])}
  BY <1>1 DEF UniqueLoop
<1> DEFINE T == {n \in 0..N : Sorted(K[n]) /\ Elems(K[n]) \subseteq Before(n)}
<1>3. 0 \in T
  <2>1. Sorted(<<>>) /\ Elems(<<>>) = {}
    BY DEF Sorted, Elems
  <2> QED
    BY <1>0, <1>2, <2>1
<1>4. ASSUME NEW n \in 0..(N - 1), n \in T PROVE n + 1 \in T
  <2>1. n + 1 \in 1..N /\ (n + 1) - 1 = n /\ n + 1 \in 0..N /\ n \in 0..N
    BY <1>0
  <2>2. K[n] \in Seq(R) /\ Sorted(K[n]) /\ Elems(K[n]) \subseteq Before(n) /\ tail[n + 1] \in R
    BY <1>0, <1>4, <2>1
  <2>3. \A i \in 1..n : i \in 1..N /\ i <= n + 1 /\ i \in 1..(n + 1)
    BY <1>0
  <2>4. Before(n) \subseteq Before(n + 1) /\ tail[n + 1] \in Before(n + 1)
    BY <2>1, <2>3
  <2>5. \A y \in Before(n) : y.t <= tail[n + 1].t
    BY <2>1, <2>3 DEF Sorted
  <2> HIDE DEF Before
  <2>6. \A y \in Elems(K[n]) : y.t <= tail[n + 1].t
    BY <2>2, <2>5
  <2>7. Sorted(Append(K[n], tail[n + 1]))
    BY <2>2, <2>6, SortedAppend
  <2>8. Elems(Append(K[n], tail[n + 1])) = Elems(K[n]) \cup {tail[n + 1]}
    BY <2>2, ElemsAppend
  <2>9. K[n + 1] \in {K[n], Append(K[n], tail[n + 1])}
    BY <1>2, <2>1
  <2>10. Sorted(K[n + 1]) /\ Elems(K[n + 1]) \subseteq Before(n + 1)
    <3>1. CASE K[n + 1] = K[n]
      BY <2>2, <2>4, <3>1
    <3>2. CASE K[n + 1] = Append(K[n], tail[n + 1])
      <4> DEFINE a == Append(K[n], tail[n + 1])
                 z == tail[n + 1]
      <4> HIDE DEF a, z
      <4>1. Elems(a) \subseteq Before(n + 1)
        BY <2>2, <2>4, <2>8 DEF a, z
      <4> QED
        BY <2>7, <3>2, <4>1 DEF a
    <3> QED
      BY <2>9, <3>1, <3>2
  <2> QED
    BY <2>1, <2>10
<1> HIDE DEF T
<1>5. 0..N \subseteq T
  BY <1>0, <1>3, <1>4, UpTo
<1>6. N \in T
  BY <1>0, <1>5
<1> QED
  BY <1>2, <1>6 DEF T, Elems

\* Two sequences in order are merged in order, where every stamp parses.
LEMMA MergeSorted ==
  ASSUME NEW R, Timed(R), \A r \in R : r.t # NoStamp,
         NEW kernel \in Seq(R), NEW tail \in Seq(R), Sorted(kernel), Sorted(tail)
  PROVE  Sorted(stable_merge(kernel, tail))
<1> DEFINE N == Len(kernel) + Len(tail)
           Below(s, k, y) == \A i \in (k + 1)..Len(s) : y.t <= s[i].t
<1>0. N \in Nat /\ Len(kernel) \in Nat /\ Len(tail) \in Nat
  OBVIOUS
<1>1. PICK K : Merges(kernel, tail, R, K)
  BY MergeRuns
<1>2. /\ stable_merge(kernel, tail) = K[N].merged /\ K[0] = [taken |-> 0, merged |-> <<>>]
      /\ \A n \in 0..N : K[n] \in [taken : 0..Len(kernel), merged : Seq(R)] /\ n - K[n].taken \in 0..Len(tail)
      /\ \A n \in 1..N : FromKernel(kernel, tail, n, K[n - 1], K[n]) \/ FromTail(kernel, tail, n, K[n - 1], K[n])
  BY <1>1 DEF Merges
<1> HIDE DEF N
<1> DEFINE Ready(n, m) == /\ Sorted(m.merged)
                          /\ \A y \in Elems(m.merged) : Below(kernel, m.taken, y) /\ Below(tail, n - m.taken, y)
           T == {n \in 0..N : Ready(n, K[n])}
<1>a. (\A i \in 1..Len(kernel) : kernel[i] \in R) /\ (\A i \in 1..Len(tail) : tail[i] \in R)
  OBVIOUS
<1>b. \A a, b, c \in Int : (a <= b /\ b <= c => a <= c) /\ (a <= b \/ b <= a) /\ a <= a
  OBVIOUS
<1>c. \A r \in R : r.t \in Int /\ r.t # NoStamp
  BY DEF Timed
<1>5. 0 \in T
  <2>1. K[0].merged = <<>>
    BY <1>2
  <2>2. Sorted(<<>>) /\ Elems(<<>>) = {}
    BY DEF Sorted, Elems
  <2>3. Ready(0, K[0])
    BY <2>1, <2>2
  <2> HIDE DEF Ready
  <2> QED
    BY <1>0, <2>3
<1>6. ASSUME NEW n \in 0..(N - 1), n \in T PROVE n + 1 \in T
  <2> DEFINE m == K[n]
             m2 == K[n + 1]
             k == m.taken
             t == n - m.taken
  <2>1. n + 1 \in 1..N /\ (n + 1) - 1 = n /\ n + 1 \in 0..N /\ n \in 0..N
    BY <1>0
  <2>2. m \in [taken : 0..Len(kernel), merged : Seq(R)] /\ t \in 0..Len(tail)
    BY <1>2, <2>1
  <2>3. k \in 0..Len(kernel) /\ m.merged \in Seq(R)
    BY <2>2
  <2>4. Sorted(m.merged) /\ \A y \in Elems(m.merged) : Below(kernel, k, y) /\ Below(tail, t, y)
    BY <1>6
  <2>6. FromKernel(kernel, tail, n + 1, m, m2) \/ FromTail(kernel, tail, n + 1, m, m2)
    BY <1>2, <2>1
  <2>a. (n + 1) - k = t + 1 /\ n \in Int /\ k \in Int /\ (n + 1) - (k + 1) = t
    <3> HIDE DEF T, k
    <3>1. n \in Int /\ k \in Int
      BY <1>0, <2>1, <2>3
    <3>2. t = n - k
      BY DEF k
    <3> QED
      BY <3>1, <3>2
  <2>b. ASSUME NEW s, Len(s) \in Nat, NEW i \in 0..Len(s), NEW y, Below(s, i, y)
        PROVE  Below(s, i + 1, y)
    <3>1. \A p \in ((i + 1) + 1)..Len(s) : p \in (i + 1)..Len(s)
      BY <2>b
    <3> QED
      BY <2>b, <3>1
  <2>c. ASSUME NEW s \in Seq(R), Sorted(s), NEW i \in 1..Len(s)
        PROVE  Below(s, i, s[i]) /\ \A p \in i..Len(s) : s[i].t <= s[p].t
    <3>1. \A p \in i..Len(s) : p \in 1..Len(s) /\ i <= p
      OBVIOUS
    <3>2. \A p \in i..Len(s) : s[i].t <= s[p].t
      BY <2>c, <3>1 DEF Sorted
    <3>3. \A p \in (i + 1)..Len(s) : p \in i..Len(s)
      OBVIOUS
    <3> QED
      BY <3>2, <3>3
  <2>d. ASSUME NEW x \in R, NEW s \in Seq(R), Sorted(s), NEW i \in 0..Len(s), i < Len(s) => x.t <= s[i + 1].t
        PROVE  Below(s, i, x)
    <3>1. TAKE p \in (i + 1)..Len(s)
    <3>2. i + 1 \in 1..Len(s) /\ i < Len(s) /\ p \in 1..Len(s) /\ i + 1 <= p
      BY <3>1
    <3>3. s[i + 1].t <= s[p].t /\ x.t <= s[i + 1].t
      BY <2>d, <3>2 DEF Sorted
    <3>4. s[i + 1].t \in Int /\ s[p].t \in Int /\ x.t \in Int
      BY <1>c, <3>2
    <3> QED
      BY <1>b, <3>3, <3>4
  <2> HIDE DEF m, m2
  <2>7. CASE FromKernel(kernel, tail, n + 1, m, m2)
    <3> DEFINE x == kernel[k + 1]
    <3>1. /\ k + 1 \in 1..Len(kernel) /\ m2.taken = k + 1 /\ m2.merged = Append(m.merged, x)
          /\ t + 1 > Len(tail) \/ TakeKernel(x, tail[t + 1])
      BY <2>7, <2>a DEF FromKernel
    <3>2. x \in R
      BY <1>a, <3>1
    <3>3. (n + 1) - m2.taken = t
      BY <2>a, <3>1
    <3>4. \A y \in Elems(m.merged) : Below(kernel, k + 1, y) /\ Below(tail, t, y) /\ y.t <= x.t
      <4>1. k + 1 \in (k + 1)..Len(kernel)
        BY <1>0, <2>3, <3>1
      <4> QED
        BY <1>0, <2>2, <2>3, <2>4, <2>b, <4>1
    <3>5. t < Len(tail) => x.t <= tail[t + 1].t
      <4>1. SUFFICES ASSUME t < Len(tail) PROVE x.t <= tail[t + 1].t
        OBVIOUS
      <4>2. t + 1 \in 1..Len(tail) /\ ~(t + 1 > Len(tail))
        BY <1>0, <2>2, <4>1
      <4>3. tail[t + 1] \in R
        BY <1>a, <4>2
      <4> QED
        BY <1>c, <3>1, <3>2, <4>2, <4>3 DEF TakeKernel
    <3>6. Below(tail, t, x)
      BY <2>2, <2>d, <3>2, <3>5
    <3>7. Below(kernel, k + 1, x)
      BY <2>c, <3>1
    <3> HIDE DEF k, t, x, Below
    <3>8. Sorted(Append(m.merged, x))
      BY <2>3, <2>4, <3>2, <3>4, SortedAppend
    <3>9. Elems(Append(m.merged, x)) = Elems(m.merged) \cup {x}
      BY <2>3, <3>2, ElemsAppend
    <3>10. Ready(n + 1, m2)
      BY <3>1, <3>3, <3>4, <3>6, <3>7, <3>8, <3>9
    <3> HIDE DEF Ready
    <3> QED
      BY <2>1, <3>10 DEF m2
  <2>8. CASE FromTail(kernel, tail, n + 1, m, m2)
    <3> DEFINE x == tail[t + 1]
    <3>1. /\ t + 1 \in 1..Len(tail) /\ m2.taken = k /\ m2.merged = Append(m.merged, x)
          /\ k = Len(kernel) \/ ~TakeKernel(kernel[k + 1], x)
      BY <2>8, <2>a DEF FromTail
    <3>2. x \in R
      BY <1>a, <3>1
    <3>3. (n + 1) - m2.taken = t + 1
      BY <2>a, <3>1
    <3>4. \A y \in Elems(m.merged) : Below(kernel, k, y) /\ Below(tail, t + 1, y) /\ y.t <= x.t
      <4>1. t + 1 \in (t + 1)..Len(tail)
        BY <1>0, <2>2, <3>1
      <4> QED
        BY <1>0, <2>2, <2>3, <2>4, <2>b, <4>1
    <3>5. k < Len(kernel) => x.t <= kernel[k + 1].t
      <4>1. SUFFICES ASSUME k < Len(kernel) PROVE x.t <= kernel[k + 1].t
        OBVIOUS
      <4>2. k + 1 \in 1..Len(kernel) /\ k # Len(kernel)
        BY <1>0, <2>3, <4>1
      <4>3. kernel[k + 1] \in R
        BY <1>a, <4>2
      <4>4. ~(kernel[k + 1].t <= x.t)
        BY <3>1, <4>2 DEF TakeKernel
      <4> QED
        BY <1>b, <1>c, <3>2, <4>3, <4>4
    <3>6. Below(kernel, k, x)
      BY <2>3, <2>d, <3>2, <3>5
    <3>7. Below(tail, t + 1, x)
      BY <2>c, <3>1
    <3> HIDE DEF k, t, x, Below
    <3>8. Sorted(Append(m.merged, x))
      BY <2>3, <2>4, <3>2, <3>4, SortedAppend
    <3>9. Elems(Append(m.merged, x)) = Elems(m.merged) \cup {x}
      BY <2>3, <3>2, ElemsAppend
    <3>10. Ready(n + 1, m2)
      BY <3>1, <3>3, <3>4, <3>6, <3>7, <3>8, <3>9
    <3> HIDE DEF Ready
    <3> QED
      BY <2>1, <3>10 DEF m2
  <2> QED
    BY <2>6, <2>7, <2>8
<1> HIDE DEF T
<1>7. 0..N \subseteq T
  BY <1>0, <1>5, <1>6, UpTo
<1>8. N \in T
  BY <1>0, <1>7
<1> QED
  BY <1>2, <1>8 DEF T

\* The merge keeps the order of what comes from one side only.
LEMMA MergeAmong ==
  ASSUME NEW R, NEW kernel \in Seq(R), NEW tail \in Seq(R), NEW P, \A x \in Elems(tail) : x \notin P
  PROVE  Among(stable_merge(kernel, tail), P) = Among(kernel, P)
<1> DEFINE N == Len(kernel) + Len(tail)
           Pre(k) == SubSeq(kernel, 1, k)
<1>0. N \in Nat /\ Len(kernel) \in Nat /\ Len(tail) \in Nat
  OBVIOUS
<1>1. PICK K : Merges(kernel, tail, R, K)
  BY MergeRuns
<1>2. /\ stable_merge(kernel, tail) = K[N].merged /\ K[0] = [taken |-> 0, merged |-> <<>>]
      /\ \A n \in 0..N : K[n] \in [taken : 0..Len(kernel), merged : Seq(R)] /\ n - K[n].taken \in 0..Len(tail)
      /\ \A n \in 1..N : FromKernel(kernel, tail, n, K[n - 1], K[n]) \/ FromTail(kernel, tail, n, K[n - 1], K[n])
  BY <1>1 DEF Merges
<1>3. /\ Pre(0) = <<>> /\ Pre(Len(kernel)) = kernel
      /\ \A n \in 0..Len(kernel) : Pre(n) \in Seq(R)
      /\ \A n \in 1..Len(kernel) : Pre(n) = Append(Pre(n - 1), kernel[n])
  BY PrefixStep
<1> HIDE DEF N, Pre
<1> DEFINE T == {n \in 0..N : Among(K[n].merged, P) = Among(Pre(K[n].taken), P)}
<1>5. 0 \in T
  <2>1. K[0].merged = <<>> /\ K[0].taken = 0
    BY <1>2
  <2> QED
    BY <1>0, <1>3, <2>1
<1>6. ASSUME NEW n \in 0..(N - 1), n \in T PROVE n + 1 \in T
  <2> DEFINE m == K[n]
             m2 == K[n + 1]
             k == m.taken
             t == n - m.taken
  <2>1. n + 1 \in 1..N /\ (n + 1) - 1 = n /\ n + 1 \in 0..N /\ n \in 0..N
    BY <1>0
  <2>2. m \in [taken : 0..Len(kernel), merged : Seq(R)] /\ t \in 0..Len(tail)
    BY <1>2, <2>1
  <2>3. k \in 0..Len(kernel) /\ m.merged \in Seq(R)
    BY <2>2
  <2>4. Among(m.merged, P) = Among(Pre(k), P)
    BY <1>6
  <2>6. FromKernel(kernel, tail, n + 1, m, m2) \/ FromTail(kernel, tail, n + 1, m, m2)
    BY <1>2, <2>1
  <2>a. (n + 1) - k = t + 1 /\ n \in Int /\ k \in Int /\ (k + 1) - 1 = k
    <3> HIDE DEF T, k
    <3>1. n \in Int /\ k \in Int
      BY <1>0, <2>1, <2>3
    <3>2. t = n - k
      BY DEF k
    <3> QED
      BY <3>1, <3>2
  <2> HIDE DEF m, m2
  <2>7. CASE FromKernel(kernel, tail, n + 1, m, m2)
    <3> DEFINE x == kernel[k + 1]
    <3>1. k + 1 \in 1..Len(kernel) /\ m2.taken = k + 1 /\ m2.merged = Append(m.merged, x)
      BY <2>7 DEF FromKernel
    <3>2. x \in R /\ Pre(k + 1) = Append(Pre(k), x) /\ Pre(k) \in Seq(R)
      <4> HIDE DEF T, k
      <4>1. x \in R
        BY <3>1
      <4>2. Pre(k) \in Seq(R)
        BY <1>3, <2>3
      <4>3. Pre(k + 1) = Append(Pre((k + 1) - 1), kernel[k + 1])
        BY <1>3, <3>1
      <4> QED
        BY <2>a, <4>1, <4>2, <4>3
    <3> HIDE DEF k, x
    <3>3. Among(Append(m.merged, x), P) = IF x \in P THEN Append(Among(m.merged, P), x) ELSE Among(m.merged, P)
      BY <2>3, <3>2, AmongAppend
    <3>4. Among(Append(Pre(k), x), P) = IF x \in P THEN Append(Among(Pre(k), P), x) ELSE Among(Pre(k), P)
      BY <3>2, AmongAppend
    <3>5. Among(m2.merged, P) = Among(Pre(m2.taken), P)
      BY <2>4, <3>1, <3>2, <3>3, <3>4
    <3> QED
      BY <2>1, <3>5 DEF m2
  <2>8. CASE FromTail(kernel, tail, n + 1, m, m2)
    <3> DEFINE x == tail[t + 1]
    <3>1. /\ t + 1 \in 1..Len(tail) /\ m2.taken = k /\ m2.merged = Append(m.merged, x)
      BY <2>8, <2>a DEF FromTail
    <3>2. x \in R /\ x \notin P
      BY <3>1 DEF Elems
    <3> HIDE DEF k, t, x
    <3>3. Among(Append(m.merged, x), P) = Among(m.merged, P)
      BY <2>3, <3>2, AmongAppend
    <3>5. Among(m2.merged, P) = Among(Pre(m2.taken), P)
      BY <2>4, <3>1, <3>3
    <3> QED
      BY <2>1, <3>5 DEF m2
  <2> QED
    BY <2>6, <2>7, <2>8
<1> HIDE DEF T
<1>7. 0..N \subseteq T
  BY <1>0, <1>5, <1>6, UpTo
<1>8. Among(K[N].merged, P) = Among(Pre(K[N].taken), P)
  BY <1>0, <1>7 DEF T
<1>9. K[N].taken = Len(kernel)
  <2>1. N \in 0..N
    BY <1>0
  <2>2. K[N].taken \in 0..Len(kernel) /\ N - K[N].taken \in 0..Len(tail)
    BY <1>2, <2>1
  <2> QED
    BY <1>0, <2>2 DEF N
<1> QED
  BY <1>2, <1>3, <1>8, <1>9

\* What is in the merged sequence is in one of the two, and the other way round.
LEMMA TimesPresent ==
  ASSUME NEW R, NEW s \in Seq(R), NEW x
  PROVE  Times(x, s) > 0 <=> \E r \in Elems(s) : r.text = x
<1> DEFINE A == {i \in 1..Len(s) : s[i].text = x}
<1>1. Len(s) \in Nat /\ DOMAIN s = 1..Len(s)
  OBVIOUS
<1>2. IsFiniteSet(A)
  <2>1. IsFiniteSet(1..Len(s)) /\ A \subseteq 1..Len(s)
    BY <1>1, FS_Interval
  <2> QED
    BY <2>1, FS_Subset
<1>3. Times(x, s) = Cardinality(A)
  BY <1>1 DEF Times
<1>4. Cardinality(A) \in Nat /\ (Cardinality(A) = 0 <=> A = {})
  BY <1>2, FS_EmptySet, FS_CardinalityType
<1>5. A # {} <=> \E r \in Elems(s) : r.text = x
  BY DEF Elems
<1> HIDE DEF A
<1> QED
  BY <1>3, <1>4, <1>5
-----------------------------------------------------------------------------
(* Journals whose every line is stamped *)

Stampd == {l \in JournalLine : l.t # NoStamp}
SingleF == [l \in Stampd |-> [t |-> l.t, text |-> <<l>>]]
RowF == [l \in Stampd |-> [t |-> l.t, zone |-> l.zone, kernel |-> l.kernel, bdf |-> l.bdf, says |-> {l.says}]]
Singles == {SingleF[l] : l \in Stampd}

\* A stamped line is a record of one line and a row of one text.
LEMMA SingleTyped ==
  /\ SingleF \in [Stampd -> Singles] /\ Singles \subseteq Whole(Stampd) /\ RowF \in [Stampd -> Row]
  /\ \A l \in Stampd : /\ SingleF[l].t = l.t /\ SingleF[l].text = <<l>>
                       /\ RowF[l].t = l.t /\ RowF[l].kernel = l.kernel /\ RowF[l].bdf = l.bdf
                       /\ RowF[l].says = {l.says} /\ l.t \in Int /\ l \in JournalLine
<1>1. \A l \in Stampd : l.t \in Int /\ l.zone \in Int /\ l.kernel \in BOOLEAN /\ l.bdf \in STRING /\ l.says \in STRING /\ l.t # NoStamp
  BY DEF Stampd, JournalLine
<1>2. SingleF \in [Stampd -> Singles]
  BY DEF SingleF, Singles
<1>3. RowF \in [Stampd -> Row]
  BY <1>1 DEF RowF, Row
<1>4. \A l \in Stampd : SingleF[l] = [t |-> l.t, text |-> <<l>>]
  BY DEF SingleF
<1>5. ASSUME NEW l \in Stampd PROVE SingleF[l] \in Whole(Stampd)
  <2> DEFINE r == SingleF[l]
  <2>0. \A X : \A x \in X : <<x>> \in Seq(X)
    OBVIOUS
  <2>1. r \in Rec(Stampd) /\ r.t = l.t /\ r.text = <<l>>
    <3>1. <<l>> \in Seq(Stampd) /\ l.t \in Int
      BY <1>1, <2>0
    <3>2. r = [t |-> l.t, text |-> <<l>>]
      BY <1>4
    <3> HIDE DEF r
    <3> QED
      BY <3>1, <3>2 DEF Rec
  <2>2. Len(<<l>>) = 1 /\ <<l>>[1] = l
    OBVIOUS
  <2> HIDE DEF r
  <2>3. WellFormed(r)
    BY <2>1, <2>2 DEF WellFormed
  <2>4. ~Continues(r.text[1])
    BY <1>1, <2>1, <2>2 DEF Continues
  <2> QED
    BY <2>1, <2>3, <2>4 DEF Whole, Records, r
<1>6. Singles \subseteq Whole(Stampd)
  BY <1>5 DEF Singles
<1>7. \A l \in Stampd : RowF[l] = [t |-> l.t, zone |-> l.zone, kernel |-> l.kernel, bdf |-> l.bdf, says |-> {l.says}]
  BY DEF RowF
<1>8. \A l \in Stampd : l \in JournalLine
  BY DEF Stampd
<1> QED
  BY <1>1, <1>2, <1>3, <1>4, <1>6, <1>7, <1>8

\* A map of a whole sequence, without a further element.
LEMMA MapTyped ==
  ASSUME NEW X, NEW Y, NEW f \in [X -> Y], NEW s \in Seq(X)
  PROVE  MapOf(f, s, Y)
<1>1. Len(s) \in Nat /\ \A i \in 1..Len(s) : f[s[i]] \in Y
  OBVIOUS
<1> QED
  BY <1>1 DEF Map, MapOf

\* The records of the lines have the lines as their text.
LEMMA SingleLines ==
  ASSUME NEW j \in Seq(Stampd)
  PROVE  Map(SingleF, j) \in Seq(Singles) /\ Lines(Map(SingleF, j)) = j
<1> DEFINE s == Map(SingleF, j)
           N == Len(j)
<1>1. MapOf(SingleF, j, Singles)
  BY SingleTyped, MapTyped
<1>2. s \in Seq(Singles) /\ Len(s) = N /\ N \in Nat /\ \A n \in 1..N : s[n] = SingleF[j[n]] /\ j[n] \in Stampd
  BY <1>1 DEF MapOf
<1> HIDE DEF s
<1>3. \A n \in 1..N : s[n].text = <<j[n]>>
  BY <1>2, SingleTyped
<1>4. PICK K \in [0..N -> Seq(Stampd)] : LinesLoop(s, K)
  <2>0. \A X : \A x \in X : <<x>> \in Seq(X)
    OBVIOUS
  <2>1. \A n \in 1..Len(s) : s[n].text \in Seq(Stampd)
    BY <1>2, <1>3, <2>0
  <2> QED
    BY <1>2, <2>1, LinesUnfolds
<1>5. Lines(s) = K[N] /\ K[0] = <<>> /\ \A n \in 1..N : K[n] = K[n - 1] \o s[n].text
  BY <1>2, <1>4 DEF LinesLoop
<1>6. /\ SubSeq(j, 1, 0) = <<>> /\ SubSeq(j, 1, N) = j
      /\ \A n \in 0..N : SubSeq(j, 1, n) \in Seq(Stampd)
      /\ \A n \in 1..N : SubSeq(j, 1, n) = Append(SubSeq(j, 1, n - 1), j[n])
  BY PrefixStep
<1> HIDE DEF N
<1> DEFINE T == {n \in 0..N : K[n] = SubSeq(j, 1, n)}
<1>7. 0 \in T
  BY <1>2, <1>5, <1>6
<1>8. ASSUME NEW n \in 0..(N - 1), n \in T PROVE n + 1 \in T
  <2>1. n + 1 \in 1..N /\ (n + 1) - 1 = n /\ n + 1 \in 0..N /\ n \in 0..N
    BY <1>2
  <2>2. K[n + 1] = K[n] \o <<j[n + 1]>> /\ K[n] \in Seq(Stampd) /\ j[n + 1] \in Stampd
    BY <1>2, <1>3, <1>5, <2>1
  <2>3. \A u \in Seq(Stampd) : \A x \in Stampd : u \o <<x>> = Append(u, x)
    OBVIOUS
  <2>4. SubSeq(j, 1, n + 1) = Append(SubSeq(j, 1, n), j[n + 1])
    BY <1>6, <2>1
  <2>5. K[n] = SubSeq(j, 1, n)
    BY <1>8
  <2>6. K[n + 1] = SubSeq(j, 1, n + 1)
    BY <2>2, <2>3, <2>4, <2>5
  <2> QED
    BY <2>1, <2>6
<1> HIDE DEF T
<1>9. 0..N \subseteq T
  BY <1>2, <1>7, <1>8, UpTo
<1>10. K[N] = SubSeq(j, 1, N)
  BY <1>2, <1>9 DEF T
<1> QED
  BY <1>2, <1>5, <1>6, <1>10 DEF s, N

\* Each line is a record.
LEMMA SingleRecords ==
  ASSUME NEW j \in Seq(Stampd)
  PROVE  journal_records(j) = Map(SingleF, j)
<1>1. Map(SingleF, j) \in Seq(Singles) /\ Lines(Map(SingleF, j)) = j
  BY SingleLines
<1>2. Map(SingleF, j) \in Seq(Whole(Stampd))
  BY <1>1, SingleTyped, SeqWithin
<1>3. Stampd \subseteq JournalLine
  BY DEF Stampd
<1> QED
  BY <1>1, <1>2, <1>3, Reparse

\* Each line is a row.
LEMMA SingleRows ==
  ASSUME NEW j \in Seq(Stampd)
  PROVE  fold_journal_records(j) = Map(RowF, j)
<1> DEFINE rows == fold_journal_records(j)
           N == Len(j)
           id == [n \in 1..N |-> n]
<1>0. Stampd \subseteq JournalLine
  BY DEF Stampd
<1>1. j \in Seq(JournalLine)
  BY <1>0, SeqWithin
<1>2. PICK h : FoldOf(j, h, rows)
  BY <1>1, FoldShape
<1> HIDE DEF rows
<1>3. /\ h \in Seq(Nat) /\ Increasing(h) /\ Elems(h) = Stamped(j)
      /\ rows \in Seq(Row) /\ Len(rows) = Len(h)
      /\ \A i \in 1..Len(h) : rows[i] = RowFrom(j, h[i], EndOf(j, h, i))
  BY <1>2 DEF FoldOf
<1>4. N \in Nat /\ \A n \in 1..N : j[n] \in Stampd
  OBVIOUS
<1>5. Stamped(j) = 1..N
  <2>1. \A n \in 1..N : j[n].t # NoStamp
    BY <1>4 DEF Stampd
  <2> QED
    BY <2>1 DEF Stamped
<1>6. id \in Seq(Nat) /\ Len(id) = N /\ \A n \in 1..N : id[n] = n
  BY <1>4
<1> HIDE DEF id
<1>7. Increasing(id) /\ Elems(id) = 1..N
  BY <1>6 DEF Increasing, Elems
<1>8. h = id
  BY <1>3, <1>5, <1>6, <1>7, SortedUnique
<1>9. MapOf(RowF, j, Row)
  BY SingleTyped, MapTyped
<1>10. ASSUME NEW i \in 1..N PROVE rows[i] = RowF[j[i]]
  <2>1. rows[i] = RowFrom(j, id[i], EndOf(j, id, i)) /\ id[i] = i
    BY <1>3, <1>6, <1>8
  <2>2. EndOf(j, id, i) = i
    <3>1. CASE i < N
      <4>1. i + 1 \in 1..N /\ (i + 1) - 1 = i
        BY <1>4, <3>1
      <4> QED
        BY <1>6, <3>1, <4>1 DEF EndOf
    <3>2. CASE i = N
      BY <1>4, <1>6, <3>2 DEF EndOf
    <3>3. i < N \/ i = N
      BY <1>4
    <3> QED
      BY <3>1, <3>2, <3>3
  <2>3. {n \in i..i : n = i \/ j[n].indent} = {i}
    BY <1>4
  <2>4. {j[k].says : k \in {n \in i..i : n = i \/ j[n].indent}} = {j[i].says}
    BY <2>3
  <2>5. RowFrom(j, i, i) = [t |-> j[i].t, zone |-> j[i].zone, kernel |-> j[i].kernel, bdf |-> j[i].bdf, says |-> {j[i].says}]
    BY <2>4 DEF RowFrom
  <2>6. RowF[j[i]] = [t |-> j[i].t, zone |-> j[i].zone, kernel |-> j[i].kernel, bdf |-> j[i].bdf, says |-> {j[i].says}]
    BY <1>4 DEF RowF
  <2> QED
    BY <2>1, <2>2, <2>5, <2>6
<1>11. /\ Len(rows) = N /\ Len(Map(RowF, j)) = N /\ Map(RowF, j) \in Seq(Row)
       /\ \A i \in 1..N : Map(RowF, j)[i] = rows[i]
  BY <1>3, <1>6, <1>8, <1>9, <1>10 DEF MapOf
<1> DEFINE a == Map(RowF, j)
<1> HIDE DEF a, N
<1>12. rows = a
  BY <1>3, <1>11, SeqEqual DEF a
<1> QED
  BY <1>12 DEF rows, a

\* A line that a filter keeps occurs as often after it.
LEMMA AmongTimes ==
  ASSUME NEW w \in Seq(Stampd), NEW S, NEW l \in Stampd, l \in S
  PROVE  Times(<<l>>, Map(SingleF, Among(w, S))) = Times(<<l>>, Map(SingleF, w))
<1> DEFINE x == <<l>>
           Same(u) == Times(x, Map(SingleF, Among(u, S))) = Times(x, Map(SingleF, u))
           T == {u \in Seq(Stampd) : Same(u)}
<1> HIDE DEF Same, x
<1>1. <<>> \in T
  <2>1. Same(<<>>)
    BY AmongNone DEF Same
  <2> QED
    BY <2>1
<1>2. ASSUME NEW u \in T, NEW y \in Stampd PROVE Append(u, y) \in T
  <2>1. u \in Seq(Stampd) /\ Append(u, y) \in Seq(Stampd) /\ Among(u, S) \in Seq(Stampd)
    BY AmongElems
  <2> DEFINE r == SingleF[y]
  <2>2. SingleF \in [Stampd -> Singles] /\ r \in Singles /\ r.text = <<y>>
    BY SingleTyped
  <2> HIDE DEF r
  <2>3. \A v \in Seq(Stampd) : /\ Times(x, Map(SingleF, Append(v, y))) = Times(x, Map(SingleF, v)) + One(r, x)
                              /\ Times(x, Map(SingleF, v)) \in Nat
    <3> HIDE DEF T
    <3>1. TAKE v \in Seq(Stampd)
    <3>2. MapOf(SingleF, v, Singles) /\ Map(SingleF, Append(v, y)) = Append(Map(SingleF, v), r)
      BY <2>2, MapAppend, ZenonT(60) DEF r
    <3>3. Map(SingleF, v) \in Seq(Singles)
      BY <3>2 DEF MapOf
    <3>4. /\ Times(x, Map(SingleF, v)) \in Nat
          /\ Times(x, Append(Map(SingleF, v), r)) = Times(x, Map(SingleF, v)) + One(r, x)
      BY <2>2, <3>3, TimesAppend
    <3> QED
      BY <3>2, <3>4
  <2>4. Among(Append(u, y), S) = IF y \in S THEN Append(Among(u, S), y) ELSE Among(u, S)
    BY <2>1, AmongAppend
  <2>5. y \notin S => One(r, x) = 0
    <3>1. SUFFICES ASSUME y \notin S PROVE r.text # x
      BY DEF One
    <3>2. <<y>> = <<l>> => y = l
      OBVIOUS
    <3> QED
      BY <2>2, <3>1, <3>2 DEF x
  <2>6. Times(x, Map(SingleF, Among(u, S))) = Times(x, Map(SingleF, u))
    BY DEF Same
  <2>7. CASE y \in S
    BY <2>1, <2>3, <2>4, <2>6, <2>7 DEF Same
  <2>8. CASE y \notin S
    <3>1. Times(x, Map(SingleF, Append(u, y))) = Times(x, Map(SingleF, u)) + 0
      BY <2>1, <2>3, <2>5, <2>8
    <3>2. Times(x, Map(SingleF, u)) \in Nat
      BY <2>1, <2>3
    <3>3. Times(x, Map(SingleF, u)) + 0 = Times(x, Map(SingleF, u))
      BY <3>2
    <3> QED
      BY <2>1, <2>4, <2>6, <2>8, <3>1, <3>3 DEF Same
  <2> QED
    BY <2>7, <2>8
<1> HIDE DEF T
<1>3. \A n \in 1..Len(w) : w[n] \in Stampd
  OBVIOUS
<1>4. w \in T
  BY <1>1, <1>2, <1>3, OverPrefixes
<1> QED
  BY <1>4 DEF T, Same, x

\* The end of a journal has no line more often than the journal.
LEMMA EndTimes ==
  ASSUME NEW w \in Seq(Stampd), NEW n \in 1..Len(w), NEW x
  PROVE  LET e == SubSeq(w, n, Len(w))
         IN e \in Seq(Stampd) /\ Times(x, Map(SingleF, e)) <= Times(x, Map(SingleF, w))
<1> DEFINE e == SubSeq(w, n, Len(w))
           N == Len(w)
           A == {i \in 1..Len(e) : Map(SingleF, e)[i].text = x}
           B == {i \in 1..N : Map(SingleF, w)[i].text = x}
           f == [i \in A |-> i + (n - 1)]
<1>1. /\ e \in Seq(Stampd) /\ N \in Nat /\ Len(e) = N - n + 1 /\ Len(e) \in Nat
      /\ \A i \in 1..Len(e) : e[i] = w[i + (n - 1)]
  OBVIOUS
<1> HIDE DEF e
<1>2. MapOf(SingleF, e, Singles) /\ MapOf(SingleF, w, Singles)
  BY <1>1, SingleTyped, MapTyped
<1>3. /\ Len(Map(SingleF, e)) = Len(e) /\ Len(Map(SingleF, w)) = N
      /\ DOMAIN Map(SingleF, e) = 1..Len(e) /\ DOMAIN Map(SingleF, w) = 1..N
      /\ \A i \in 1..Len(e) : Map(SingleF, e)[i] = SingleF[e[i]]
      /\ \A i \in 1..N : Map(SingleF, w)[i] = SingleF[w[i]]
  BY <1>1, <1>2 DEF MapOf, Map
<1>4. Times(x, Map(SingleF, e)) = Cardinality(A) /\ Times(x, Map(SingleF, w)) = Cardinality(B)
  BY <1>3 DEF Times
<1>5. \A i \in A : i \in Int /\ f[i] = i + (n - 1) /\ f[i] \in B
  <2>1. TAKE i \in A
  <2>2. i \in 1..Len(e) /\ Map(SingleF, e)[i].text = x
    OBVIOUS
  <2>3. i + (n - 1) \in 1..N /\ i \in Int
    BY <1>1, <2>2
  <2>4. Map(SingleF, w)[i + (n - 1)] = Map(SingleF, e)[i]
    BY <1>1, <1>3, <2>2, <2>3
  <2> HIDE DEF N
  <2> QED
    BY <2>2, <2>3, <2>4
<1>6. IsFiniteSet(B)
  <2>1. IsFiniteSet(1..N) /\ B \subseteq 1..N
    BY <1>1, FS_Interval
  <2> QED
    BY <2>1, FS_Subset
<1> HIDE DEF A, B
<1>7. f \in Injection(A, B)
  <2>1. f \in [A -> B]
    BY <1>5
  <2>2. \A a, b \in A : f[a] = f[b] => a = b
    <3>1. \A a, b \in Int : a + (n - 1) = b + (n - 1) => a = b
      BY <1>1
    <3> HIDE DEF f
    <3> QED
      BY <1>5, <3>1
  <2> HIDE DEF f
  <2> QED
    BY <2>1, <2>2 DEF Injection, IsInjective
<1>8. Cardinality(A) <= Cardinality(B)
  <2> HIDE DEF f
  <2> QED
    BY <1>6, <1>7, FS_Injection
<1> QED
  BY <1>1, <1>4, <1>8 DEF e

\* A sequence of one-line records is a journal.
LEMMA SinglesAreLines ==
  ASSUME NEW m \in Seq(Singles)
  PROVE  \E j \in Seq(Stampd) : m = Map(SingleF, j)
<1> DEFINE N == Len(m)
           j == [i \in 1..N |-> m[i].text[1]]
<1>1. N \in Nat /\ \A i \in 1..N : m[i] \in Singles
  OBVIOUS
<1>2. \A r \in Singles : r.text[1] \in Stampd /\ SingleF[r.text[1]] = r
  <2>1. \A l \in Stampd : SingleF[l].text[1] = l
    BY SingleTyped
  <2> QED
    BY <2>1 DEF Singles
<1>3. j \in Seq(Stampd) /\ Len(j) = N /\ \A i \in 1..N : j[i] = m[i].text[1]
  <2>1. \A i \in 1..N : m[i].text[1] \in Stampd
    BY <1>1, <1>2
  <2> QED
    BY <1>1, <2>1
<1> HIDE DEF j
<1>4. MapOf(SingleF, j, Singles)
  BY <1>3, SingleTyped, MapTyped
<1> DEFINE s == Map(SingleF, j)
<1>5. s \in Seq(Singles) /\ Len(s) = N /\ \A i \in 1..N : s[i] = m[i]
  BY <1>1, <1>2, <1>3, <1>4 DEF MapOf
<1> HIDE DEF s
<1>6. m = s
  BY <1>5, SeqEqual
<1> QED
  BY <1>3, <1>6 DEF s

\* A record of one line occurs where its line does.
LEMMA SingleElems ==
  ASSUME NEW v \in Seq(Stampd), NEW l
  PROVE  Times(<<l>>, Map(SingleF, v)) \in Nat /\ (Times(<<l>>, Map(SingleF, v)) > 0 <=> l \in Elems(v))
<1> DEFINE s == Map(SingleF, v)
<1>1. s \in Seq(Singles) /\ Len(s) = Len(v) /\ \A i \in 1..Len(v) : s[i] = SingleF[v[i]] /\ v[i] \in Stampd
  <2>1. MapOf(SingleF, v, Singles)
    BY SingleTyped, MapTyped
  <2> QED
    BY <2>1 DEF MapOf
<1> HIDE DEF s
<1>2. Times(<<l>>, s) \in Nat /\ (Times(<<l>>, s) > 0 <=> \E r \in Elems(s) : r.text = <<l>>)
  BY <1>1, TimesNat, TimesPresent
<1>3. \A i \in 1..Len(v) : s[i].text = <<l>> <=> v[i] = l
  <2>1. \A x : <<x>> = <<l>> <=> x = l
    OBVIOUS
  <2> QED
    BY <1>1, <2>1, SingleTyped
<1>4. (\E r \in Elems(s) : r.text = <<l>>) <=> l \in Elems(v)
  BY <1>1, <1>3 DEF Elems
<1> QED
  BY <1>2, <1>4 DEF s

\* A map that keeps the stamps keeps the order.
LEMMA MapSorted ==
  ASSUME NEW Y, NEW f \in [Stampd -> Y], \A l \in Stampd : f[l].t = l.t, NEW s \in Seq(Stampd)
  PROVE  Sorted(Map(f, s)) <=> Sorted(s)
<1> DEFINE m == Map(f, s)
<1>1. MapOf(f, s, Y)
  BY MapTyped
<1>2. Len(m) = Len(s) /\ \A i \in 1..Len(s) : m[i].t = s[i].t
  BY <1>1 DEF MapOf
<1> HIDE DEF m
<1> QED
  BY <1>2 DEF Sorted, m

Kern == {l \in Stampd : l.kernel}
KernelRecords == {SingleF[l] : l \in Kern}

\* The kernel records are the records of the kernel lines.
LEMMA KernelSingles ==
  ASSUME NEW v \in Seq(Stampd)
  PROVE  Among(Map(SingleF, v), KernelRecords) = Map(SingleF, Among(v, Kern))
<1>1. \A l, k \in Stampd : SingleF[l] = SingleF[k] => l = k
  <2>1. \A x, y : <<x>> = <<y>> => x = y
    OBVIOUS
  <2>2. \A l \in Stampd : SingleF[l].text = <<l>>
    BY SingleTyped
  <2>3. ASSUME NEW l \in Stampd, NEW k \in Stampd, SingleF[l] = SingleF[k] PROVE l = k
    <3>1. <<l>> = <<k>>
      BY <2>2, <2>3
    <3> QED
      BY <2>1, <3>1
  <2> QED
    BY <2>3
<1>2. Kern \subseteq Stampd
  BY DEF Kern
<1>3. \A l \in Stampd : SingleF[l] \in KernelRecords <=> l \in Kern
  BY <1>1, <1>2 DEF KernelRecords
<1>4. InverseImage(SingleF, Stampd, Singles, Kern, KernelRecords)
  BY <1>3, SingleTyped DEF InverseImage
<1> QED
  BY <1>4, AmongMap

\* What the precursor needs of a journal j to see in it what it sees in w.
SeenAs(w, j) ==
    /\ Sorted(j) /\ Among(j, Kern) = Among(w, Kern)
    /\ Elems(j) \subseteq Elems(w) /\ w[Len(w)] \in Elems(j)

\* A journal in order, read as its kernel lines and its end, is combined into one that is in
\* order, has the same kernel lines and the same last line.
LEMMA CombinedSeen ==
  ASSUME NEW w \in Seq(Stampd), Sorted(w), NEW n \in 1..Len(w)
  PROVE  LET j == Lines(Merged(Among(w, Kern), SubSeq(w, n, Len(w)))) IN j \in Seq(Stampd) /\ SeenAs(w, j)
<1> DEFINE k == Among(w, Kern)
           e == SubSeq(w, n, Len(w))
           sk == Map(SingleF, k)
           st == Map(SingleF, e)
           u == UniqueTail(sk, st)
           m == stable_merge(sk, u)
<1>1. /\ Len(w) \in Nat /\ e \in Seq(Stampd) /\ Len(e) = Len(w) - n + 1
      /\ \A i \in 1..Len(e) : e[i] = w[i + (n - 1)]
  OBVIOUS
<1>2. k \in Seq(Stampd) /\ Elems(k) = Elems(w) \cap Kern
  BY AmongElems
<1>3. journal_records(k) = sk /\ journal_records(e) = st
  BY <1>1, <1>2, SingleRecords
<1>4. Merged(k, e) = m
  BY <1>3 DEF Merged, Unique
<1>5. \A x : Times(x, st) <= Times(x, Map(SingleF, w))
  BY EndTimes
<1>6. \A l \in Kern : Times(<<l>>, sk) = Times(<<l>>, Map(SingleF, w))
  <2>1. \A l \in Kern : l \in Stampd
    BY DEF Kern
  <2> QED
    BY <2>1, AmongTimes
<1>7. Sorted(k) /\ Sorted(e)
  <2>1. Timed(Stampd)
    BY SingleTyped DEF Timed
  <2>2. Sorted(k)
    BY <2>1, AmongSorted
  <2>3. ASSUME NEW a \in 1..Len(e), NEW b \in 1..Len(e), a <= b PROVE e[a].t <= e[b].t
    <3>1. a + (n - 1) \in 1..Len(w) /\ b + (n - 1) \in 1..Len(w) /\ a + (n - 1) <= b + (n - 1)
      BY <1>1, <2>3
    <3>2. w[a + (n - 1)].t <= w[b + (n - 1)].t
      BY <3>1 DEF Sorted
    <3> QED
      BY <1>1, <3>2
  <2> QED
    BY <2>2, <2>3 DEF Sorted
<1>8. Elems(e) \subseteq Elems(w) /\ w[Len(w)] \in Elems(e)
  <2>1. \A i \in 1..Len(e) : i + (n - 1) \in 1..Len(w)
    BY <1>1
  <2>2. Len(e) \in 1..Len(e) /\ Len(e) + (n - 1) = Len(w)
    BY <1>1
  <2>3. e[Len(e)] = w[Len(w)]
    BY <1>1, <2>2
  <2> QED
    BY <1>1, <2>1, <2>2, <2>3 DEF Elems
<1> HIDE DEF k, e
<1>9. sk \in Seq(Singles) /\ st \in Seq(Singles)
  BY <1>1, <1>2, SingleLines
<1>10. Sorted(sk) /\ Sorted(st)
  <2>1. SingleF \in [Stampd -> Singles] /\ \A l \in Stampd : SingleF[l].t = l.t
    BY SingleTyped
  <2> QED
    BY <1>1, <1>2, <1>7, <2>1, MapSorted
<1> HIDE DEF sk, st
<1>11. u \in Seq(Singles)
  BY <1>9, UniqueTyped
<1>12. Timed(Singles) /\ \A r \in Singles : r.t # NoStamp
  <2>1. \A l \in Stampd : SingleF[l].t = l.t /\ l.t \in Int
    BY SingleTyped
  <2>2. \A l \in Stampd : l.t # NoStamp
    BY DEF Stampd
  <2> QED
    BY <2>1, <2>2 DEF Timed, Singles
<1>13. Sorted(u)
  BY <1>9, <1>10, <1>12, UniqueSorted
<1>14. \A x : Times(x, u) = Excess(Times(x, st), Times(x, sk))
  BY <1>9, UniqueTimes
<1> HIDE DEF u
<1>15. m \in Seq(Singles) /\ Sorted(m)
  <2>1. m \in Seq(Singles)
    BY <1>9, <1>11, MergeTyped
  <2>2. Sorted(m)
    BY <1>9, <1>10, <1>11, <1>12, <1>13, MergeSorted
  <2> QED
    BY <2>1, <2>2
<1>16. \A x : Times(x, m) = Times(x, sk) + Times(x, u)
  BY <1>9, <1>11, MergeTimes
<1>17. \A x : Times(x, sk) \in Nat /\ Times(x, st) \in Nat /\ Times(x, u) \in Nat
  BY <1>9, <1>11, TimesNat
<1>18. \A r \in Elems(u) : r \notin KernelRecords
  <2>1. SUFFICES ASSUME NEW l \in Kern, SingleF[l] \in Elems(u) PROVE FALSE
    BY DEF KernelRecords
  <2>2. SingleF[l].text = <<l>>
    BY SingleTyped DEF Kern
  <2>3. Times(<<l>>, u) > 0
    BY <1>11, <2>1, <2>2, TimesPresent
  <2>4. Times(<<l>>, st) <= Times(<<l>>, sk)
    BY <1>5, <1>6
  <2>5. \A a, b \in Nat : a <= b => ~(Excess(a, b) > 0)
    BY DEF Excess
  <2> QED
    BY <1>14, <1>17, <2>3, <2>4, <2>5
<1>19. Among(m, KernelRecords) = Among(sk, KernelRecords)
  BY <1>9, <1>11, <1>18, MergeAmong
<1> HIDE DEF m
<1>20. PICK j \in Seq(Stampd) : m = Map(SingleF, j)
  BY <1>15, SinglesAreLines
<1>21. Lines(m) = j
  BY <1>20, SingleLines
<1>22. Sorted(j)
  <2>1. SingleF \in [Stampd -> Singles] /\ \A l \in Stampd : SingleF[l].t = l.t
    BY SingleTyped
  <2> QED
    BY <1>15, <1>20, <2>1, MapSorted
<1>23. Among(j, Kern) = k
  <2>1. Among(m, KernelRecords) = Map(SingleF, Among(j, Kern))
    BY <1>20, KernelSingles
  <2>2. Among(sk, KernelRecords) = Map(SingleF, Among(k, Kern))
    BY <1>2, KernelSingles DEF sk
  <2>3. Among(k, Kern) = k
    <3>1. Kern \cap Kern = Kern
      OBVIOUS
    <3> QED
      BY <3>1, AmongAmong DEF k
  <2>4. Map(SingleF, Among(j, Kern)) = Map(SingleF, k)
    BY <1>19, <2>1, <2>2, <2>3
  <2>5. Among(j, Kern) \in Seq(Stampd)
    BY AmongElems
  <2>6. Lines(Map(SingleF, Among(j, Kern))) = Among(j, Kern) /\ Lines(Map(SingleF, k)) = k
    BY <1>2, <2>5, SingleLines
  <2> QED
    BY <2>4, <2>6
<1>24. \A l : /\ Times(<<l>>, sk) > 0 <=> l \in Elems(k)
              /\ Times(<<l>>, st) > 0 <=> l \in Elems(e)
              /\ Times(<<l>>, m) > 0 <=> l \in Elems(j)
  BY <1>1, <1>2, <1>20, SingleElems DEF sk, st
<1>25. \A a, b \in Nat : (a + Excess(b, a) > 0 => a > 0 \/ b > 0) /\ (b > 0 => a + Excess(b, a) > 0)
  BY DEF Excess
<1>26. \A x : Times(x, m) = Times(x, sk) + Excess(Times(x, st), Times(x, sk))
  BY <1>14, <1>16
<1>27. \A l : /\ l \in Elems(j) => l \in Elems(k) \/ l \in Elems(e)
              /\ l \in Elems(e) => l \in Elems(j)
  <2>1. TAKE l
  <2> DEFINE a == Times(<<l>>, sk)
             b == Times(<<l>>, st)
             c == Times(<<l>>, m)
  <2>2. a \in Nat /\ b \in Nat /\ c = a + Excess(b, a)
    BY <1>17, <1>26
  <2>3. (a > 0 <=> l \in Elems(k)) /\ (b > 0 <=> l \in Elems(e)) /\ (c > 0 <=> l \in Elems(j))
    BY <1>24
  <2> HIDE DEF a, b, c
  <2>4. (c > 0 => a > 0 \/ b > 0) /\ (b > 0 => c > 0)
    BY <1>25, <2>2
  <2> QED
    BY <2>3, <2>4
<1>28. Elems(j) \subseteq Elems(w) /\ w[Len(w)] \in Elems(j)
  BY <1>2, <1>8, <1>27
<1>29. SeenAs(w, j)
  BY <1>22, <1>23, <1>28 DEF SeenAs, k
<1> QED
  BY <1>4, <1>21, <1>29 DEF k, e
-----------------------------------------------------------------------------
(* What the precursor sees of a journal in order *)

InScope(from, slot) == {l \in Stampd : l.t >= from /\ l.kernel /\ l.bdf = slot}
RowsInScope(from, slot) == {r \in Row : r.t >= from /\ r.kernel /\ r.bdf = slot}
Scope(kernel, from, slot) == Map(RowF, Among(kernel, InScope(from, slot)))
FiresOn(rows) == Count(rows, "smu") >= SmuMin /\ Count(rows, "reset") >= ResetMin /\ Terminal(rows)
Sees(p, rows) ==
    /\ p.fires = FiresOn(rows)
    /\ p.smu = Count(rows, "smu") /\ p.resets = Count(rows, "reset")

\* The precursor of a journal in order depends on its kernel lines and its last stamp only.
LEMMA PrecursorSees ==
  ASSUME NEW v \in Seq(Stampd), Sorted(v), Len(v) >= 1, NEW slot
  PROVE  Sees(precursor(v, slot), Scope(Among(v, Kern), v[Len(v)].t - PrecursorWindow, slot))
<1> DEFINE from == v[Len(v)].t - PrecursorWindow
           rows == Map(RowF, v)
           A == {r \in ToSet(rows) : r.t >= from}
           B == {r \in ToSet(rows) : kernel_amdgpu_record(r, slot)}
           Q == RowsInScope(from, slot)
           P == InScope(from, slot)
           window == Among(rows, A)
           scoped == Among(window, B)
<1>1. fold_journal_records(v) = rows
  BY SingleRows
<1>2. /\ rows \in Seq(Row) /\ Len(rows) = Len(v) /\ Len(v) \in Nat
      /\ \A i \in 1..Len(v) : rows[i] = RowF[v[i]] /\ v[i] \in Stampd
  <2>1. MapOf(RowF, v, Row)
    BY SingleTyped, MapTyped
  <2> QED
    BY <2>1 DEF MapOf
<1>3. rows[Len(rows)].t = v[Len(v)].t
  <2>1. Len(v) \in 1..Len(v)
    BY <1>2
  <2> QED
    BY <1>2, <2>1, SingleTyped
<1>4. Sorted(rows)
  <2>1. RowF \in [Stampd -> Row] /\ \A l \in Stampd : RowF[l].t = l.t
    BY SingleTyped
  <2> QED
    BY <2>1, MapSorted
<1> HIDE DEF A, B
<1>5. window \in Seq(Row) /\ Sorted(window)
  <2>1. Timed(Row)
    BY DEF Timed, Row
  <2> HIDE DEF rows
  <2> QED
    BY <1>2, <1>4, <2>1, AmongElems, AmongSorted
<1>6. timestamps_regress(window) = FALSE
  <2> HIDE DEF window
  <2>1. ~timestamps_regress(window)
    BY <1>5, SortedSteady
  <2>2. timestamps_regress(window) \in BOOLEAN
    BY DEF timestamps_regress
  <2> QED
    BY <2>1, <2>2
<1>7. scoped = Map(RowF, Among(v, P))
  <2>1. scoped = Among(rows, A \cap B)
    <3> HIDE DEF rows
    <3> QED
      BY <1>2, AmongAmong
  <2>2. \A r \in Elems(rows) : r \in A \cap B <=> r \in Q
    <3>1. ToSet(rows) = Elems(rows) /\ \A r \in Elems(rows) : r \in Row
      <4> HIDE DEF rows
      <4>1. DOMAIN rows = 1..Len(rows) /\ \A i \in 1..Len(rows) : rows[i] \in Row
        BY <1>2
      <4> QED
        BY <4>1 DEF ToSet, Elems
    <3> HIDE DEF rows, from
    <3> QED
      BY <3>1 DEF A, B, RowsInScope, kernel_amdgpu_record
  <2>3. Among(rows, A \cap B) = Among(rows, Q)
    <3> HIDE DEF rows, Q
    <3>1. \A D : (\A r \in Elems(rows) : r \in D <=> r \in Q) => Among(rows, D) = Among(rows, Q)
      BY <1>2, AmongSame
    <3> QED
      BY <2>2, <3>1
  <2>4. InverseImage(RowF, Stampd, Row, P, Q)
    <3> HIDE DEF from
    <3>1. \A l \in Stampd : RowF[l].t = l.t /\ RowF[l].kernel = l.kernel /\ RowF[l].bdf = l.bdf /\ RowF[l] \in Row
      BY SingleTyped
    <3>2. \A l \in Stampd : l \in P <=> RowF[l] \in Q
      BY <3>1 DEF InScope, RowsInScope
    <3> HIDE DEF P, Q
    <3> QED
      BY <3>2, SingleTyped DEF InverseImage
  <2>5. Among(rows, Q) = Map(RowF, Among(v, P))
    <3> HIDE DEF P, Q
    <3> QED
      BY <2>4, AmongMap
  <2> QED
    BY <2>1, <2>3, <2>5
<1>8. Among(v, P) = Among(Among(v, Kern), P)
  <2>1. Kern \cap P = P
    <3> HIDE DEF from
    <3> QED
      BY DEF Kern, InScope
  <2> HIDE DEF P
  <2>2. Among(Among(v, Kern), P) = Among(v, Kern \cap P)
    BY AmongAmong
  <2> QED
    BY <2>1, <2>2
<1>9. rows # <<>>
  <2> HIDE DEF rows
  <2> QED
    BY <1>2
<1> DEFINE texts == {v[i].says : i \in DOMAIN v}
<1>10. precursor(v, slot) =
          [fires |-> /\ ~timestamps_regress(window)
                     /\ Count(scoped, "smu") >= SmuMin
                     /\ Count(scoped, "reset") >= ResetMin
                     /\ Terminal(scoped),
           smu |-> Count(scoped, "smu"), resets |-> Count(scoped, "reset"),
           truncated |-> "shutdown" \notin texts,
           unreliable |-> timestamps_regress(window),
           suppressed |-> "suppressed" \in texts]
  <2> DEFINE z == rows[Len(rows)].t - PrecursorWindow
  <2>1. z = from
    BY <1>3
  <2>2. A = {r \in ToSet(rows) : r.t >= z}
    BY <2>1 DEF A
  <2> HIDE DEF rows, from
  <2> QED
    BY <1>1, <1>9, <2>2 DEF precursor, B
<1>11. scoped = Scope(Among(v, Kern), from, slot)
  BY <1>7, <1>8 DEF Scope
<1> HIDE DEF scoped, window, texts, from
<1> DEFINE fires == /\ ~timestamps_regress(window)
                    /\ Count(scoped, "smu") >= SmuMin
                    /\ Count(scoped, "reset") >= ResetMin
                    /\ Terminal(scoped)
           tr == "shutdown" \notin texts
           un == timestamps_regress(window)
           su == "suppressed" \in texts
<1>12. precursor(v, slot) = [fires |-> fires, smu |-> Count(scoped, "smu"), resets |-> Count(scoped, "reset"),
                             truncated |-> tr, unreliable |-> un, suppressed |-> su]
  BY <1>10, Zenon
<1>13. /\ precursor(v, slot).fires = fires
       /\ precursor(v, slot).smu = Count(scoped, "smu") /\ precursor(v, slot).resets = Count(scoped, "reset")
  <2> HIDE DEF fires, tr, un, su
  <2> QED
    BY <1>12
<1>14. fires = FiresOn(scoped)
  BY <1>6, Zenon DEF FiresOn
<1>15. Sees(precursor(v, slot), scoped)
  BY <1>13, <1>14, Zenon DEF Sees
<1> QED
  BY <1>11, <1>15 DEF from

\* The combined journal ends when the whole one does.
LEMMA SameEnd ==
  ASSUME NEW w \in Seq(Stampd), Sorted(w), Len(w) >= 1, NEW j \in Seq(Stampd), SeenAs(w, j)
  PROVE  Len(j) >= 1 /\ j[Len(j)].t = w[Len(w)].t
<1>1. Sorted(j) /\ Elems(j) \subseteq Elems(w) /\ w[Len(w)] \in Elems(j)
  BY DEF SeenAs
<1>2. PICK i \in 1..Len(j) : j[i] = w[Len(w)]
  BY <1>1 DEF Elems
<1>3. Len(j) \in Nat /\ Len(j) \in 1..Len(j) /\ i <= Len(j) /\ Len(j) >= 1
  BY <1>2
<1>4. j[i].t <= j[Len(j)].t
  BY <1>1, <1>3 DEF Sorted
<1>5. PICK k \in 1..Len(w) : j[Len(j)] = w[k]
  BY <1>1, <1>3 DEF Elems
<1>6. Len(w) \in Nat /\ Len(w) \in 1..Len(w) /\ k <= Len(w)
  BY <1>5
<1>7. w[k].t <= w[Len(w)].t
  BY <1>6 DEF Sorted
<1>8. j[Len(j)].t \in Int /\ w[Len(w)].t \in Int
  <2>1. j[Len(j)] \in Stampd /\ w[Len(w)] \in Stampd
    BY <1>3, <1>6
  <2> QED
    BY <2>1, SingleTyped
<1>9. \A a, b \in Int : a <= b /\ b <= a => a = b
  OBVIOUS
<1> QED
  BY <1>2, <1>3, <1>4, <1>5, <1>7, <1>8, <1>9

\* The precursor sees in the combined journal what it sees in the whole one.
LEMMA PrecursorSame ==
  ASSUME NEW w \in Seq(Stampd), Sorted(w), Len(w) >= 1, NEW j \in Seq(Stampd), SeenAs(w, j), NEW slot
  PROVE  /\ precursor(j, slot).fires = precursor(w, slot).fires
         /\ precursor(j, slot).smu = precursor(w, slot).smu
         /\ precursor(j, slot).resets = precursor(w, slot).resets
<1>1. Len(j) >= 1 /\ j[Len(j)].t = w[Len(w)].t
  BY SameEnd
<1>2. Sorted(j) /\ Among(j, Kern) = Among(w, Kern)
  BY DEF SeenAs
<1>3. Sees(precursor(j, slot), Scope(Among(j, Kern), j[Len(j)].t - PrecursorWindow, slot))
  BY <1>1, <1>2, PrecursorSees
<1>4. Sees(precursor(w, slot), Scope(Among(w, Kern), w[Len(w)].t - PrecursorWindow, slot))
  BY PrecursorSees
<1> QED
  BY <1>1, <1>2, <1>3, <1>4 DEF Sees

\* A reading within the cap is read whole.
LEMMA ReadWhole ==
  ASSUME NEW j, NEW keep, Len(j) <= JournalLimit, ReadJournal(j, keep) # None
  PROVE  ReadJournal(j, keep) = j
BY DEF ReadJournal, Bounded

\* A journal logged in order.
LEMMA OrderedStamps ==
  ASSUME NEW w \in Seq(JournalLine), Ordered(w)
  PROVE  w \in Seq(Stampd) /\ Sorted(w)
<1>1. Len(w) \in Nat /\ DOMAIN w = 1..Len(w) /\ \A i \in 1..Len(w) : w[i] \in JournalLine
  OBVIOUS
<1>2. \A i \in 1..Len(w) : w[i].t # NoStamp /\ (i > 1 => w[i - 1].t <= w[i].t)
  BY <1>1 DEF Ordered
<1>3. \A i \in 1..Len(w) : w[i] \in Stampd
  BY <1>1, <1>2 DEF Stampd
<1>4. w \in Seq(Stampd)
  <2>1. \A X : (\A i \in 1..Len(w) : w[i] \in X) => w \in Seq(X)
    OBVIOUS
  <2> QED
    BY <1>3, <2>1
<1>5. \A i \in 2..Len(w) : w[i - 1].t <= w[i].t
  <2>1. \A i \in 2..Len(w) : i \in 1..Len(w) /\ i > 1
    BY <1>1
  <2> QED
    BY <1>2, <2>1
<1>6. Timed(Stampd)
  BY SingleTyped DEF Timed
<1> QED
  BY <1>4, <1>5, <1>6, AdjacentSorted

\* The tail's reach does not move the precursor: the second part of JournalsRight.
LEMMA ReadingsUnmoved == OutcomeInv => PrecursorUnmoved
<1> DEFINE w == call.whole
           K == Kernel(call)
           T == Tail_(call)
<1> SUFFICES ASSUME OutcomeInv, call.cmd = "gpu-boot", ReadFrom(call), Ordered(w), Len(w) <= JournalLimit,
                    None \notin {K, T}
             PROVE  PrecursorUnmoved
  BY DEF PrecursorUnmoved
<1>1. w \in Seq(JournalLine)
  BY CliAssumptions DEF OutcomeInv, ReadFrom
<1>2. w \in Seq(Stampd) /\ Sorted(w)
  BY <1>1, OrderedStamps
<1>3. PICK n \in DOMAIN w : call.tail = SubSeq(w, n, Len(w))
  BY DEF ReadFrom
<1>4. call.kernel = Among(w, Kern)
  <2> DEFINE S == {l \in ToSet(w) : l.kernel}
  <2>1. call.kernel = Among(w, S)
    BY DEF ReadFrom
  <2>2. \A x \in Elems(w) : x \in S <=> x \in Kern
    <3>1. ToSet(w) = Elems(w) /\ \A x \in Elems(w) : x \in Stampd
      BY <1>2 DEF ToSet, Elems
    <3> QED
      BY <3>1 DEF Kern
  <2> HIDE DEF S
  <2>3. Among(w, S) = Among(w, Kern)
    BY <1>2, <2>2, AmongSame
  <2> QED
    BY <2>1, <2>3
<1>5. Len(w) \in Nat /\ n \in 1..Len(w) /\ JournalLimit \in Nat /\ Len(w) >= 1
  <2>1. DOMAIN w = 1..Len(w) /\ Len(w) \in Nat
    BY <1>1
  <2>2. JournalLimit \in Nat
    BY D3JournalAssumptions
  <2> QED
    BY <1>3, <2>1, <2>2
<1>6. K = Among(w, Kern)
  <2>1. Len(Among(w, Kern)) <= Len(w) /\ Len(Among(w, Kern)) \in Nat
    BY <1>2, AmongShorter, AmongElems
  <2>2. Len(call.kernel) <= JournalLimit
    BY <1>4, <1>5, <2>1
  <2> QED
    BY <1>4, <2>2, ReadWhole DEF Kernel
<1>7. T = SubSeq(w, n, Len(w))
  <2>1. Len(SubSeq(w, n, Len(w))) = Len(w) - n + 1
    BY <1>2, <1>5
  <2>2. Len(call.tail) <= JournalLimit
    BY <1>3, <1>5, <2>1
  <2> QED
    BY <1>3, <2>2, ReadWhole DEF Tail_
<1>8. combine_prior(K, T) = Lines(Merged(K, T))
  BY DEF combine_prior, Merged, Unique
<1> DEFINE j == Lines(Merged(Among(w, Kern), SubSeq(w, n, Len(w))))
<1>9. j \in Seq(Stampd) /\ SeenAs(w, j)
  BY <1>2, <1>5, CombinedSeen
<1>10. combine_prior(K, T) = j
  BY <1>6, <1>7, <1>8
<1> HIDE DEF j, K, T, w
<1>11. \A slot : /\ precursor(j, slot).fires = precursor(w, slot).fires
                 /\ precursor(j, slot).smu = precursor(w, slot).smu
                 /\ precursor(j, slot).resets = precursor(w, slot).resets
  BY <1>2, <1>5, <1>9, PrecursorSame
<1>12. \A prior \in {combine_prior(K, T)}, slot \in {l.bdf : l \in ToSet(w)} :
       \A combined \in {precursor(prior, slot)}, whole \in {precursor(w, slot)} :
          /\ combined.fires = whole.fires
          /\ combined.smu = whole.smu /\ combined.resets = whole.resets
  BY <1>10, <1>11
<1> QED
  BY <1>12 DEF PrecursorUnmoved, K, T, w

-----------------------------------------------------------------------------
(* The journals *)

\* A warning that was printed is the verdict on the readings.
LEMMA ReadingsPrior == OutcomeInv => WarningFromPriorBoot
<1> SUFFICES ASSUME OutcomeInv, call.cmd = "gpu-boot", outcome \notin {None, Error},
                    outcome.verdict = "precursor-warning"
             PROVE  WarningFromPriorBoot
  BY DEF WarningFromPriorBoot
<1>1. PICK v : BootVerdict(call, v) /\ outcome = OutcomeOf(v)
  BY DEF OutcomeInv
<1>2. v # "error"
  BY <1>1 DEF OutcomeOf
<1>3. outcome.verdict = v
  BY <1>1, <1>2 DEF OutcomeOf, Build
<1>4. /\ ~OfflineRefused(call)
      /\ Operate(OfflineInput(call), call.state, CurrentBoot(call)).verdict = "precursor-warning"
  BY <1>1, <1>2, <1>3 DEF BootVerdict
<1>5. call \in Calls
  BY DEF OutcomeInv
<1> QED
  BY <1>4, <1>5, WarningWithin DEF WarningFromPriorBoot

\* combine_prior, precursor and validate_journal_window of d3.rs, for journals of any
\* length: putting the two readings of the prior boot together loses no record and counts
\* none twice; how far back the tail reaches does not change what the precursor sees of a
\* journal in order; and a warning rests on records of the prior boot's window only, as far
\* as the readings and the inventory are written in one zone.
THEOREM JournalsSound == Spec => []JournalsRight
<1>1. OutcomeInv => JournalsRight
  BY ReadingsMerge, ReadingsUnmoved, ReadingsPrior DEF JournalsRight
<1> QED
  BY <1>1, AlwaysOutcomeInv, PTL
=============================================================================
