----------------------------- MODULE Aggregator -----------------------------
(***************************************************************************)
(* What one interval's events become                                       *)
(* (src/ebpf/rigsignal-ebpf/src/aggregator.rs and es_model.rs).  Every     *)
(* flush takes the events pushed since the last one and returns documents; *)
(* a document also carries the events it was made from, so that a property *)
(* can compare.  An average is kept as the total it is computed from.      *)
(***************************************************************************)
EXTENDS Integers, Sequences, FiniteSets, SequencesExt

CONSTANTS
    Bounds,      \* LatencyHistogram::BOUNDARIES_US
    Slow,        \* CONTENDED_NS and BLOCKED_NS
    Spike,       \* SPIKE_THRESHOLD_US
    TopThreads,  \* thread documents per interval, 8 in the code
    Ccx          \* build_ccx_map: the L3 domain of the cpus that report one

ASSUME AggregatorAssumptions ==
    /\ TopThreads \in Nat /\ Slow \in Nat /\ Spike \in Nat
    /\ Bounds \in Seq(Nat) /\ Bounds # <<>>
    /\ \A b, c \in DOMAIN Bounds : b < c => Bounds[b] < Bounds[c]

Unset == 2147483647   \* u64::MAX

\* The events at the positions in keep, in order.
Kept(es, keep) ==
    LET upto[n \in 0..Len(es)] ==
            IF n = 0 THEN <<>>
            ELSE IF n \in keep THEN Append(upto[n - 1], es[n]) ELSE upto[n - 1]
    IN  upto[Len(es)]

OfKind(es, kind) == Kept(es, {i \in DOMAIN es : es[i].kind = kind})

\* Mutant: a latency on a boundary belongs to the bucket below.
BucketUpTo(latency) ==
    IF \E b \in DOMAIN Bounds : latency <= Bounds[b]
    THEN CHOOSE b \in DOMAIN Bounds : latency <= Bounds[b] /\ \A c \in 1..(b-1) : latency > Bounds[c]
    ELSE Len(Bounds)

\* LatencyHistogram::record_ns: the first bucket whose bound is above.  There are as
\* many buckets as bounds, so the last one also takes what reaches its own bound.
Bucket(latency) ==
    IF \E b \in DOMAIN Bounds : latency < Bounds[b]
    THEN CHOOSE b \in DOMAIN Bounds : latency < Bounds[b] /\ \A c \in 1..(b-1) : latency >= Bounds[c]
    ELSE Len(Bounds)

EmptyStats == [count |-> 0, total |-> 0, min |-> Unset, max |-> 0, slow |-> 0,
               hist |-> [b \in DOMAIN Bounds |-> 0]]

Record(s, latency) ==
    [count |-> s.count + 1,
     total |-> s.total + latency,
     min   |-> IF latency < s.min THEN latency ELSE s.min,
     max   |-> IF latency > s.max THEN latency ELSE s.max,
     slow  |-> IF latency > Slow THEN s.slow + 1 ELSE s.slow,
     hist  |-> [s.hist EXCEPT ![Bucket(latency)] = @ + 1]]

Shown(s) == [s EXCEPT !.min = IF @ = Unset THEN 0 ELSE @]

\* The events of an interval recorded one by one.
Recorded(es) ==
    LET after[n \in 0..Len(es)] ==
            IF n = 0 THEN EmptyStats ELSE Record(after[n - 1], es[n].latency)
    IN  after[Len(es)]

Stats(es) == Shown(Recorded(es))

\* The aggregate document of a probe.
Metric(probe, sid, es, fields) ==
    LET common == [type |-> "metric", probe |-> probe, session |-> sid, events |-> es]
    IN  [f \in DOMAIN common \cup DOMAIN fields |->
            IF f \in DOMAIN common THEN common[f] ELSE fields[f]]

-----------------------------------------------------------------------------
(* One flush per probe: no events, no document *)

BioFlush(es, sid) ==
    Metric("bio", sid, es, [stats |-> Stats(es),
                            bytes |-> FoldLeft(LAMBDA n, e : n + e.bytes, 0, es)])

GpuSchedFlush(es, sid) == Metric("gpu_sched", sid, es, [stats |-> Stats(es)])

FutexFlush(es, sid) == Metric("futex", sid, es, [stats |-> Stats(es)])

GpuFenceFlush(es, sid) == Metric("gpu_fence", sid, es, [stats |-> Stats(es)])

IrqFlush(es, sid) ==
    Metric("irq", sid, es, [hard |-> Stats(OfKind(es, "hard")), soft |-> Stats(OfKind(es, "soft"))])

VfsFlush(es, sid) ==
    Metric("vfs", sid, es, [read |-> Stats(OfKind(es, "read")), write |-> Stats(OfKind(es, "write"))])

MemFlush(es, sid) ==
    Metric("mem", sid, es,
           [faults |-> Len(OfKind(es, "fault")),
            writes |-> Len(SelectSeq(es, LAMBDA e : e.kind = "fault" /\ e.write)),
            reclaims |-> Len(OfKind(es, "reclaim"))])

GpuSubmitFlush(es, sid) == Metric("gpu_submit", sid, es, [count |-> Len(es)])

-----------------------------------------------------------------------------
(* The scheduler's: an aggregate and the busiest threads *)

is_ccx_cross(e) ==
    e.prev \in DOMAIN Ccx /\ e.next \in DOMAIN Ccx /\ Ccx[e.prev] # Ccx[e.next]

OfThread(es, t) == Kept(es, {i \in DOMAIN es : es[i].tid = t})
Switches(es) == OfKind(es, "switch")

\* Mutant: the threads come in the order of the map, unsorted.
RankedAnyhow(es) ==
    LET tids == {es[i].tid : i \in DOMAIN es}
    IN  {SubSeq(q, 1, IF Len(q) < TopThreads THEN Len(q) ELSE TopThreads) : q \in SetToSeqs(tids)}

\* sort_by switch_count, largest first, and truncate.  Equal threads come in the
\* order of the hash map they were gathered in.
Ranked(es) ==
    LET tids == {es[i].tid : i \in DOMAIN es}
        count(t) == Len(Switches(OfThread(es, t)))
        sorted == {q \in SetToSeqs(tids) :
                      \A i, j \in DOMAIN q : i < j => count(q[i]) >= count(q[j])}
    IN  {SubSeq(q, 1, IF Len(q) < TopThreads THEN Len(q) ELSE TopThreads) : q \in sorted}

ThreadDoc(es, sid, rank, t) ==
    [type |-> "thread", probe |-> "schedlatency", session |-> sid, rank |-> rank, tid |-> t,
     stats |-> Stats(Switches(OfThread(es, t))),
     migrations |-> Len(OfKind(OfThread(es, t), "migrate"))]

SchedFlushes(es, sid) ==
    LET metric == Metric("schedlatency", sid, es,
                         [stats |-> Stats(Switches(es)),
                          migrations |-> Len(OfKind(es, "migrate")),
                          crossings |-> Len(SelectSeq(OfKind(es, "migrate"), is_ccx_cross))])
    IN  {<<metric>> \o [i \in DOMAIN q |-> ThreadDoc(es, sid, i, q[i])] : q \in Ranked(es)}

\* Probe::collect once the ring buffer is drained: the documents it may return.
Flushes(probe, es, sid) ==
    IF es = <<>> THEN {<<>>}
    ELSE CASE probe = "schedlatency" -> SchedFlushes(es, sid)
           [] probe = "bio" -> {<<BioFlush(es, sid)>>}
           [] probe = "gpu_sched" -> {<<GpuSchedFlush(es, sid)>>}
           [] probe = "futex" -> {<<FutexFlush(es, sid)>>}
           [] probe = "irq" -> {<<IrqFlush(es, sid)>>}
           [] probe = "vfs" -> {<<VfsFlush(es, sid)>>}
           [] probe = "mem" -> {<<MemFlush(es, sid)>>}
           [] probe = "gpu_fence" -> {<<GpuFenceFlush(es, sid)>>}
           [] probe = "gpu_submit" -> {<<GpuSubmitFlush(es, sid)>>}

-----------------------------------------------------------------------------
(* The stutter correlator *)

\* Mutant: a spike is a latency of the threshold, or a reclaim.
SpikedAt(d) ==
    \/ d.probe \in {"schedlatency", "bio", "gpu_sched"} /\ d.stats.max >= Spike
    \/ d.probe = "mem" /\ d.reclaims > 0

Spiked(d) ==
    \/ d.probe \in {"schedlatency", "bio", "gpu_sched"} /\ d.stats.max > Spike
    \/ d.probe = "mem" /\ d.reclaims > 0

\* correlate: one more document when two or more probes spiked in one interval.
correlate(docs, sid) ==
    LET spiked == {i \in DOMAIN docs : docs[i].type = "metric" /\ Spiked(docs[i])}
    IN  IF Cardinality(spiked) < 2 THEN <<>>
        ELSE <<Metric("stutter_correlation", sid, <<>>,
                      [contributing |-> {docs[i].probe : i \in spiked},
                       severity |-> Cardinality(spiked)])>>
=============================================================================
