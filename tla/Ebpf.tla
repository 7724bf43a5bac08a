-------------------------------- MODULE Ebpf --------------------------------
(***************************************************************************)
(* The eBPF daemon (src/ebpf/rigsignal-ebpf/src: main.rs, loader.rs,       *)
(* probes/, shipper.rs, config.rs) over the BPF programs of Probes and the *)
(* session feed of Feed.  It loads the probes its host supports, then loops *)
(* over interval ticks, session changes and signals.  The kernel runs all  *)
(* the while: between any two steps below a program may fire.              *)
(***************************************************************************)
EXTENDS Probes, Aggregator

CONSTANTS
    Hosts,         \* machines the daemon may start on, each with its share of
                   \* kernel operations, session changes and signals
    MaxTicks,      \* ticks of the interval timer
    WarnInterval   \* LOSS_WARN_INTERVAL

ASSUME SessionAssumptions ==
    /\ NoSession.tids = {} /\ MaxClock < Unset
    /\ \A s \in States : s.tids \subseteq Threads /\ IsFiniteSet(s.tids)

VARIABLES
    host,       \* the machine
    pc,         \* "start", "seed", "connect", "select", "collect", "flush", "detach", "stopped"
    loaded,     \* LoadedProbes::probes, always walked in the order of Candidates
    update,     \* update_pids in progress: keys still to remove, ids still to insert
    sid,        \* the session id of the tick in progress
    todo,       \* probes the tick has still to collect
    docs,       \* the tick's documents, then EsShipper::pending
    reported,   \* by probe, events Elasticsearch was told about ...
    dropped,    \* ... and events whose document was given up
    warned,     \* LossWarningTracker
    logged,     \* the losses its warnings named, added up
    ticks, published,
    signal      \* SIGINT or SIGTERM was sent

tick == <<sid, todo, docs>>
tally == <<reported, dropped>>
tracker == <<warned, logged>>
bounds == <<ticks, published>>
vars == <<feed, kernel, host, pc, loaded, update, tick, tally, tracker, bounds, signal>>

NoUpdate == [remove |-> {}, insert |-> <<>>]
NoTime == -1

-----------------------------------------------------------------------------
(* Start *)

\* What each probe attaches, in the order of its attach function.
SchedPrograms == <<"sched_wakeup", "sched_switch", "sched_migrate_task">>
BioPrograms == <<"block_rq_issue", "block_rq_complete">>
GpuSchedPrograms == <<"gpu_queue", "gpu_run">>
MemPrograms == <<"page_fault_user", "mm_vmscan_direct_reclaim_begin">>
FutexPrograms == <<"do_futex_entry", "do_futex_return">>
IrqPrograms == <<"irq_handler_entry", "irq_handler_exit", "softirq_entry", "softirq_exit">>
VfsPrograms == <<"vfs_read_entry", "vfs_read_return", "vfs_write_entry", "vfs_write_return">>
GpuFencePrograms == <<"dma_fence_default_wait_entry", "dma_fence_default_wait_return">>
GpuSubmitPrograms == <<"amdgpu_cs_ioctl_entry">>

ProgramsOf ==
    [schedlatency |-> SchedPrograms, bio |-> BioPrograms, gpu_sched |-> GpuSchedPrograms,
     mem |-> MemPrograms, futex |-> FutexPrograms, irq |-> IrqPrograms, vfs |-> VfsPrograms,
     gpu_fence |-> GpuFencePrograms, gpu_submit |-> GpuSubmitPrograms]

\* main's candidates, in its order.
Candidates == <<"schedlatency", "bio", "gpu_sched", "mem", "futex", "irq", "vfs",
                "gpu_fence", "gpu_submit">>

\* check_requirements: kernel version, tracepoints, symbols and modules.  The
\* gpu_sched probe asks for no tracepoint here: it looks for its pair itself.
check_requirements(p) == p \in host.offers

\* parse_key_field_offset, on the lines of one format file: the named field must
\* occur once, eight bytes wide.
parse_key_field_offset(format, field) ==
    LET found == SelectSeq(format, LAMBDA f : f.name = field)
    IN  IF Len(found) = 1 /\ found[1].size = 8 THEN found[1].offset ELSE NoTime

Variants == <<[queue |-> "drm_sched_job_queue", run |-> "drm_sched_job_run",
               fields |-> {"fence_seqno", "fence_context"}],
              [queue |-> "drm_sched_job", run |-> "drm_run_job",
               fields |-> {"id", "entity"}]>>

\* select_variant: the first complete pair, the renamed one before the legacy one.
select_variant(formats) ==
    SelectSeq(Variants, LAMBDA v : {v.queue, v.run} \subseteq DOMAIN formats)

\* parse_variant_offset: both events of the pair have both key fields, at the
\* same offsets.
VariantUsable(formats) ==
    /\ select_variant(formats) # <<>>
    /\ LET v == select_variant(formats)[1]
       IN  \A f \in v.fields :
              LET offset == parse_key_field_offset(formats[v.queue], f)
              IN  offset # NoTime /\ offset = parse_key_field_offset(formats[v.run], f)

\* Probe::attach, program by program: the programs it gets attached.  One that
\* fails leaves those before it in place.
Attachable(p) ==
    IF p = "gpu_sched" /\ ~VariantUsable(host.formats) THEN {}
    ELSE LET q == ProgramsOf[p]
         IN  {q[i] : i \in {n \in DOMAIN q : \A m \in 1..n : q[m] \in host.attaches}}

Attaches(p) == Attachable(p) = Range(ProgramsOf[p])

\* check_capabilities: CAP_BPF and CAP_PERFMON, unless root.
check_capabilities == host.root \/ {"bpf", "perfmon"} \subseteq host.caps

\* Config::load, load_probes; a machine without any probe is given up.
Load ==
    LET tried == {p \in Range(Candidates) : check_requirements(p)}
        active == {p \in tried : Attaches(p)}
        able == host.config /\ check_capabilities /\ host.btf /\ host.object /\ active # {}
    IN  /\ pc = "start"
        /\ \/ /\ able
              /\ pc' = "seed" /\ loaded' = active
              /\ attached' = UNION {Attachable(p) : p \in tried}
           \/ ~able /\ pc' = "stopped" /\ UNCHANGED <<loaded, attached>>
        /\ UNCHANGED <<feed, pids, starts, ring, loss, clock, calls, fired, made, lost, ran>>
        /\ UNCHANGED <<host, update, tick, tally, tracker, bounds, signal>>

\* Mutant: the new ids are inserted beside the old ones.
StartUpdateKeeping(s) == update' = [remove |-> {}, insert |-> SetToSeq(s.tids)]

\* SchedProbe::update_pids begins: the keys that are there now will be removed,
\* the session's thread ids inserted.
StartUpdate(s) == update' = [remove |-> pids, insert |-> SetToSeq(s.tids)]

\* The filter is seeded with the session there is.
Seed ==
    /\ pc = "seed" /\ pc' = "connect"
    /\ Take
    /\ \/ state # NoSession /\ StartUpdate(state)
       \/ state = NoSession /\ UNCHANGED update
    /\ UNCHANGED <<kernel, host, loaded, tick, tally, tracker, bounds, signal>>

\* One map operation of update_pids.  A full map refuses the thread.
UpdateStep ==
    /\ update # NoUpdate
    /\ \/ \E t \in update.remove :
             pids' = pids \ {t} /\ update' = [update EXCEPT !.remove = @ \ {t}]
       \/ /\ update.remove = {}
          /\ pids' = IF Cardinality(pids) < MapSize THEN pids \cup {Head(update.insert)} ELSE pids
          /\ update' = [update EXCEPT !.insert = Tail(@)]
    /\ UNCHANGED <<feed, attached, starts, ring, loss, clock, calls, fired, made, lost, ran>>
    /\ UNCHANGED <<host, pc, loaded, tick, tally, tracker, bounds, signal>>

\* EsShipper::new: an api key, and a CA bundle that can be read when one is named.
Connect ==
    /\ pc = "connect" /\ update = NoUpdate
    /\ \/ host.key /\ host.ca /\ pc' = "select" /\ UNCHANGED attached
       \/ ~(host.key /\ host.ca) /\ pc' = "stopped" /\ attached' = {}
    /\ UNCHANGED <<feed, pids, starts, ring, loss, clock, calls, fired, made, lost, ran>>
    /\ UNCHANGED <<host, loaded, update, tick, tally, tracker, bounds, signal>>

-----------------------------------------------------------------------------
(* The main loop: tokio::select! over a tick, a session change and a signal *)

Selecting == pc = "select" /\ update = NoUpdate

\* A tick without a session is skipped, unless the baseline is wanted; the ring
\* buffers then stay as they are.
Tick ==
    /\ Selecting /\ ticks < MaxTicks
    /\ ticks' = ticks + 1
    /\ \/ /\ state # NoSession \/ host.baseline
          /\ pc' = "collect" /\ todo' = loaded /\ docs' = <<>>
          /\ sid' = state.session
       \/ state = NoSession /\ ~host.baseline /\ UNCHANGED <<pc, tick>>
    /\ UNCHANGED <<feed, kernel, host, loaded, update, tally, tracker, published, signal>>

\* Mutant: the warning does not remember what it named.
observe_forgets(counters) ==
    LET delta == [k \in LossKinds |-> counters[k] - warned.counted[k]]
        due == warned.at = NoTime \/ clock - warned.at >= WarnInterval
    IN  \/ /\ due /\ \E k \in LossKinds : delta[k] > 0
           /\ warned' = [warned EXCEPT !.at = clock]
           /\ logged' = [k \in LossKinds |-> logged[k] + delta[k]]
        \/ ~(due /\ \E k \in LossKinds : delta[k] > 0) /\ UNCHANGED tracker

\* LossWarningTracker::observe: what is new since the last warning, at most one
\* warning in thirty seconds.
observe(counters) ==
    LET delta == [k \in LossKinds |-> counters[k] - warned.counted[k]]
        due == warned.at = NoTime \/ clock - warned.at >= WarnInterval
    IN  \/ /\ due /\ \E k \in LossKinds : delta[k] > 0
           /\ warned' = [at |-> clock, counted |-> counters]
           /\ logged' = [k \in LossKinds |-> logged[k] + delta[k]]
        \/ ~(due /\ \E k \in LossKinds : delta[k] > 0) /\ UNCHANGED tracker

\* Mutant: the events are looked at and left in the buffer.
DrainCopy(p) == <<ring[p], ring[p]>>

\* The drain loop runs until the buffer is empty.
Drain(p) == <<ring[p], <<>>>>

\* Probe::collect of the next probe: the ring buffer is drained into the
\* aggregator and flushed.
Collect ==
    /\ pc = "collect"
    /\ \E n \in DOMAIN Candidates :
          LET p == Candidates[n]
          IN  /\ p \in todo /\ \A m \in 1..(n-1) : Candidates[m] \notin todo
              /\ todo' = todo \ {p}
              /\ \E new \in Flushes(p, Drain(p)[1], sid) : docs' = docs \o new
              /\ ring' = [ring EXCEPT ![p] = Drain(p)[2]]
              /\ IF p = "gpu_sched" THEN observe(loss) ELSE UNCHANGED tracker
    /\ UNCHANGED <<feed, attached, pids, starts, loss, clock, calls, fired, made, lost, ran>>
    /\ UNCHANGED <<host, pc, loaded, update, sid, tally, bounds, signal>>

\* The probes are through: correlate, queue_all, and flush sends the request.
Queue ==
    /\ pc = "collect" /\ todo = {}
    /\ pc' = IF docs = <<>> THEN "select" ELSE "flush"
    /\ docs' = docs \o correlate(docs, sid)
    /\ UNCHANGED <<feed, kernel, host, loaded, update, sid, todo, tally, tracker, bounds, signal>>

\* The events of a probe that a batch of documents reports, each by its document and
\* its place there.
Reports(ds, p) == {i \in DOMAIN ds : ds[i].type = "metric" /\ ds[i].probe = p}
Entries(ds, p) == UNION {{i} \X DOMAIN ds[i].events : i \in Reports(ds, p)}
Count(ds, p) == Cardinality(Entries(ds, p))

Accept(taken, refused) ==
    /\ reported' = [p \in ProbeNames |-> reported[p] + Count(taken, p)]
    /\ dropped' = [p \in ProbeNames |-> dropped[p] + Count(refused, p)]

\* Mutant: a client without a timeout hears only of a server that answers.
FlushNoTimeout ==
    /\ pc = "flush" /\ pc' = "select" /\ docs' = <<>>
    /\ host.server /\ Accept(docs, <<>>)
    /\ UNCHANGED <<feed, kernel, host, loaded, update, sid, todo, tracker, bounds, signal>>

\* EsShipper::flush returns: the batch was taken, single documents of it were
\* refused, or nothing came of it (an error status, or ten seconds without an
\* answer); what was not taken is given up.
Flush ==
    /\ pc = "flush" /\ pc' = "select" /\ docs' = <<>>
    /\ \/ host.server /\ Accept(docs, <<>>)
       \/ host.server /\ \E i \in DOMAIN docs : Accept(RemoveAt(docs, i), <<docs[i]>>)
       \/ Accept(<<>>, docs)
    /\ UNCHANGED <<feed, kernel, host, loaded, update, sid, todo, tracker, bounds, signal>>

\* session_rx.recv: the thread ids of the new state go into the filter.
SessionChange ==
    /\ Selecting
    /\ Recv /\ StartUpdate(Head(channel))
    /\ UNCHANGED <<kernel, host, pc, loaded, tick, tally, tracker, bounds, signal>>

\* A signal ends the loop.  The final flush finds nothing pending.
Shutdown ==
    /\ Selecting /\ signal
    /\ pc' = "detach"
    /\ UNCHANGED <<feed, kernel, host, loaded, update, tick, tally, tracker, bounds, signal>>

\* Every probe is detached, and the programs go with the process.
Detach ==
    /\ pc = "detach" /\ pc' = "stopped"
    /\ attached' = {}
    /\ UNCHANGED <<feed, pids, starts, ring, loss, clock, calls, fired, made, lost, ran>>
    /\ UNCHANGED <<host, loaded, update, tick, tally, tracker, bounds, signal>>

-----------------------------------------------------------------------------
(* Around the daemon *)

Signal ==
    /\ ~signal /\ host.signalled /\ pc \in {"select", "collect", "flush"}
    /\ signal' = TRUE
    /\ UNCHANGED <<feed, kernel, host, pc, loaded, update, tick, tally, tracker, bounds>>

WatcherPublishes ==
    /\ published < host.publishes /\ published' = published + 1
    /\ pc \notin {"start", "stopped"}
    /\ \E s \in States : s # state /\ Publish(s)
    /\ UNCHANGED <<kernel, host, pc, loaded, update, tick, tally, tracker, ticks, signal>>

Kernel ==
    /\ pc \notin {"start", "stopped"}
    /\ KernelNext(host.busy) /\ fired' <= host.calls /\ clock' <= host.time
    /\ UNCHANGED <<feed, host, pc, loaded, update, tick, tally, tracker, bounds, signal>>

Init ==
    /\ FeedInit /\ KernelInit
    /\ host \in Hosts
    /\ pc = "start" /\ loaded = {} /\ update = NoUpdate
    /\ sid = NoSession.session /\ todo = {} /\ docs = <<>>
    /\ reported = [p \in ProbeNames |-> 0] /\ dropped = [p \in ProbeNames |-> 0]
    /\ warned = [at |-> NoTime, counted |-> [k \in LossKinds |-> 0]]
    /\ logged = [k \in LossKinds |-> 0]
    /\ ticks = 0 /\ published = 0 /\ signal = FALSE

Daemon == Load \/ Seed \/ UpdateStep \/ Connect \/ Collect \/ Queue \/ Flush \/ Detach
Loop == Tick \/ SessionChange \/ Shutdown

Next == Daemon \/ Loop \/ Signal \/ WatcherPublishes \/ Kernel

\* The daemon's own steps follow one another; tokio::select! picks among the
\* branches that are ready at random, so a signal that stays pending is not
\* passed over for ever.
Spec == Init /\ [][Next]_vars /\ WF_vars(Daemon) /\ SF_vars(Shutdown)

-----------------------------------------------------------------------------
(* Properties *)

\* The shape of the state: no ring buffer, map or channel holds more than its
\* size, and an update of the filter is in progress only where main waits for it.
TypeOK ==
    /\ pc \in {"start", "seed", "connect", "select", "collect", "flush", "detach", "stopped"}
    /\ \A p \in ProbeNames : Len(ring[p]) <= RingSize /\ made[p] >= lost[p]
    /\ \A m \in Maps : Cardinality(Started(m)) <= MapSize
    /\ pids \subseteq Threads /\ Cardinality(pids) <= MapSize
    /\ Len(channel) <= ChannelSize
    /\ update # NoUpdate => pc \in {"connect", "select"}
    /\ docs # <<>> => pc \in {"collect", "flush"}

\* Return and record_run, against changes of the filter, full maps, evictions and
\* full ring buffers: an event of a futex, file, fence, interrupt or gpu job
\* carries the latency of the very call that ended, never an earlier start.
LatencyTrue ==
    \A p \in {"futex", "vfs", "gpu_fence", "irq", "gpu_sched"} :
        \A i \in DOMAIN ring[p] : ring[p][i].latency = ring[p][i].real

\* Submit, collect and flush: an event that was built is at any moment in exactly
\* one place: lost at a full ring buffer, waiting in it, in a document of the
\* tick, reported to Elasticsearch, or given up with its document.
EachEventOnce ==
    \A p \in ProbeNames :
        made[p] = lost[p] + Len(ring[p]) + Count(docs, p) + reported[p] + dropped[p]

\* count_loss: a gpu job that ran and left no event is in one of the counters.
GpuJobsAccounted ==
    Cardinality(ran) <= made["gpu_sched"] - lost["gpu_sched"]
           + loss["key_read"] + loss["run_miss"] + loss["ringbuf_reserve"]

\* LossWarningTracker: the warnings add up to no more than what was lost.
LossesNamedOnce == \A k \in LossKinds : logged[k] <= loss[k]

\* update_pids, the seeding and the receiving loop, with the watcher publishing
\* at any moment in between: when the main loop has nothing left to receive, the
\* kernel filters on the threads of the state that is shared.
FilterFollowsState == Selecting /\ channel = <<>> => pids = state.tids

Sent(type, probe) == {d \in Range(docs) : d.type = type /\ d.probe = probe}

StatsOf(d) ==
    CASE d.probe = "irq" -> {<<d.hard, OfKind(d.events, "hard")>>, <<d.soft, OfKind(d.events, "soft")>>}
      [] d.probe = "vfs" -> {<<d.read, OfKind(d.events, "read")>>, <<d.write, OfKind(d.events, "write")>>}
      [] d.probe = "schedlatency" -> {<<d.stats, Switches(d.events)>>}
      [] d.probe \in {"bio", "gpu_sched", "futex", "gpu_fence"} -> {<<d.stats, d.events>>}
      [] OTHER -> {}

Longer(es, n) == {i \in DOMAIN es : es[i].latency >= n}

StatsTrue(s, es) ==
    /\ s.count = Len(es) /\ s.slow = Cardinality(Longer(es, Slow + 1))
    /\ es # <<>> => /\ Longer(es, s.max) # {} /\ Longer(es, s.max + 1) = {}
                   /\ Longer(es, s.min) = DOMAIN es /\ Longer(es, s.min + 1) # DOMAIN es
    /\ \A b \in DOMAIN Bounds :
          s.hist[b] = Cardinality(Longer(es, IF b = 1 THEN 0 ELSE Bounds[b - 1])
                                  \ (IF b = Len(Bounds) THEN {} ELSE Longer(es, Bounds[b])))

\* The flush functions and record_ns: count, extremes, slow calls and every
\* bucket of the histogram are those of the interval's events.  The buckets are
\* record_ns's own: from the bound before up to its bound, the first from 0, the last
\* without an end.  The comments describe other buckets: see BucketsDocumented.
SnapshotsTrue ==
    pc = "flush" => \A d \in Range(docs) : d.type = "metric" =>
        \A pair \in StatsOf(d) : StatsTrue(pair[1], pair[2])

\* What es_model.rs:427 says of LatencyHistogram.values, "Upper bound of each bucket in
\* microseconds": what a bucket counts took less than the bound published beside it.
\* The code does not keep this: the last bucket counts everything longer, and no run
\* asks for it.  As an invariant of MCEbpf_daemon it fails on the host LongWait.
BucketsDocumented ==
    pc = "flush" => \A d \in Range(docs) : d.type = "metric" =>
        \A pair \in StatsOf(d) : \A b \in DOMAIN Bounds :
            pair[1].hist[b] <= Cardinality(DOMAIN pair[2] \ Longer(pair[2], Bounds[b]))

\* What the thread documents of an interval say of its events.
Busiest(es, listed) ==
    LET switches(t) == Len(Switches(OfThread(es, t)))
    IN  /\ \A d \in listed : d.stats.count = switches(d.tid)
        /\ \A d, e \in listed : d.rank < e.rank => d.stats.count >= e.stats.count
        /\ \A t \in Threads \ {d.tid : d \in listed} :
              OfThread(es, t) # <<>> =>
                  Cardinality(listed) = TopThreads /\ \A d \in listed : switches(t) <= switches(d.tid)

\* SchedAggregator::flush: the thread documents of an interval are its busiest
\* threads in order, and no thread left out switched more often.
BusiestThreads ==
    pc = "flush" => \A m \in Sent("metric", "schedlatency") :
        Busiest(m.events, Sent("thread", "schedlatency"))

\* An event over the threshold, or a reclaim.
Over(probe, es) ==
    \E e \in Range(es) : IF probe = "mem" THEN e.kind = "reclaim"
                         ELSE e.kind # "migrate" /\ e.latency > Spike

\* correlate: a tick's stutter document exists exactly when two or more of its
\* probes saw an event over the threshold, or a reclaim.
StutterMeansTwo ==
    pc = "flush" =>
        LET spiked == {p \in {"schedlatency", "bio", "gpu_sched", "mem"} :
                          \E d \in Sent("metric", p) : Over(p, d.events)}
        IN  Sent("metric", "stutter_correlation") # {} <=> Cardinality(spiked) >= 2

\* The main loop, Elasticsearch answering or not: a signal stops the daemon.
SignalStops == signal ~> pc = "stopped"

\* The aggregators and correlate: what the documents of a tick say is true of the
\* events of its interval.
DocumentsTrue == SnapshotsTrue /\ BusiestThreads /\ StutterMeansTwo

\* What holds of the daemon at every moment: maps, buffers and channel within their
\* sizes, every event in one place, and every loss counted and named at most once.
EbpfInv == TypeOK /\ EachEventOnce /\ GpuJobsAccounted /\ LossesNamedOnce
=============================================================================
