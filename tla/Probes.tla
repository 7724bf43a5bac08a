------------------------------- MODULE Probes -------------------------------
(***************************************************************************)
(* The BPF programs of src/ebpf/rigsignal-ebpf-probes/src: one action per  *)
(* program, taken together with the kernel operation that triggers it.     *)
(* Most programs come in pairs: the first stores the time at which a call  *)
(* began in a hash map, the second takes it out and puts an event into a   *)
(* ring buffer.  Maps and ring buffers have a fixed size.                  *)
(*                                                                         *)
(* The kernel's own view is kept beside the programs': calls is what is    *)
(* really in progress, and every event carries the latency of the call it  *)
(* is about and the session that was active when it ended.                 *)
(***************************************************************************)
EXTENDS Feed, FiniteSets, SequencesExt

CONSTANTS
    Threads,    \* thread ids; session states name subsets of them
    Devices, Sectors, Cpus, Lines, Jobs,
    MapSize,    \* entries of a hash map, 512 to 4096 in the code
    RingSize,   \* events a ring buffer holds
    MaxCalls,   \* how many kernel operations a behaviour has
    MaxClock    \* how far the clock runs

ASSUME SizeAssumptions == MapSize \in Nat /\ RingSize \in Nat /\ MaxClock \in Nat

VARIABLES
    attached,   \* the BPF programs attached to the kernel
    pids,       \* GAME_PIDS
    starts,     \* the maps of start times, by map and key
    ring,       \* the ring buffers, by probe
    loss,       \* GPU_SCHED_LOSS
    clock,      \* bpf_ktime_get_ns
    calls,      \* kernel operations in progress, with their true start
    fired,      \* kernel operations begun so far
    made,       \* by probe, events built ...
    lost,       \* ... and those no ring buffer had room for
    ran         \* gpu jobs that ran while the programs watched

kernel == <<attached, pids, starts, ring, loss, clock, calls, fired, made, lost, ran>>

ProbeNames == {"schedlatency", "bio", "gpu_sched", "mem", "futex", "irq", "vfs",
               "gpu_fence", "gpu_submit"}
Maps == {"wakeup", "bio", "futex", "read", "write", "fence", "hard", "soft", "gpu"}
LossKinds == {"key_read", "queue_insert", "run_miss", "ringbuf_reserve"}

NoKey == [k \in {} |-> 0]
Without(f, k) == [x \in DOMAIN f \ {k} |-> f[x]]
Put(f, k, v) == [x \in DOMAIN f \cup {k} |-> IF x = k THEN v ELSE f[x]]

-----------------------------------------------------------------------------
(* What all programs share *)

Started(m) == DOMAIN starts[m]

\* HashMap::insert with flag 0: a key that is there is overwritten, a new one
\* needs room, and the error is ignored.
Insert(m, k) ==
    starts' = IF k \in Started(m) \/ Cardinality(Started(m)) < MapSize
              THEN [starts EXCEPT ![m] = Put(@, k, clock)]
              ELSE starts

\* Mutant: the buffer takes one event more than it has room for.
SubmitOver(p, e) ==
    /\ made' = [made EXCEPT ![p] = @ + 1]
    /\ \/ Len(ring[p]) <= RingSize
          /\ ring' = [ring EXCEPT ![p] = Append(@, e)] /\ UNCHANGED lost
       \/ Len(ring[p]) > RingSize
          /\ lost' = [lost EXCEPT ![p] = @ + 1] /\ UNCHANGED ring

\* RingBuf::reserve and submit.  A full buffer loses the event.
Submit(p, e) ==
    /\ made' = [made EXCEPT ![p] = @ + 1]
    /\ \/ Len(ring[p]) < RingSize
          /\ ring' = [ring EXCEPT ![p] = Append(@, e)] /\ UNCHANGED lost
       \/ Len(ring[p]) >= RingSize
          /\ lost' = [lost EXCEPT ![p] = @ + 1] /\ UNCHANGED ring

\* An operation begins, and ends, whether or not a program looks at it.
Begin(op) ==
    /\ op \notin DOMAIN calls /\ fired < MaxCalls
    /\ calls' = Put(calls, op, clock)
    /\ fired' = fired + 1
    /\ UNCHANGED <<attached, pids, ring, loss, clock, made, lost, ran>>

End(op) ==
    /\ op \in DOMAIN calls
    /\ calls' = Without(calls, op)
    /\ UNCHANGED <<attached, pids, clock, fired>>

\* Something that takes no time: no call begins or ends.
Happens ==
    /\ fired < MaxCalls
    /\ fired' = fired + 1
    /\ UNCHANGED <<attached, pids, loss, clock, calls, ran>>

Moment == Happens /\ UNCHANGED starts

Event(op, fields, latency) ==
    Put(Put(fields, "latency", latency), "real", clock - calls[op])

\* The first program of a pair: remember the time, when the filter lets it.
Entry(program, m, op, k, passes) ==
    /\ Begin(op)
    /\ IF program \in attached /\ passes THEN Insert(m, k) ELSE UNCHANGED starts

\* Mutant: the start time stays in the map.
ReturnKeeps(program, p, m, op, k, fields) ==
    /\ End(op)
    /\ UNCHANGED <<loss, ran, starts>>
    /\ IF program \in attached /\ k \in Started(m)
       THEN Submit(p, Event(op, fields, clock - starts[m][k]))
       ELSE UNCHANGED <<ring, made, lost>>

\* The second: no start time, no event; otherwise it is taken out first.
Return(program, p, m, op, k, fields) ==
    /\ End(op)
    /\ UNCHANGED <<loss, ran>>
    /\ IF program \in attached /\ k \in Started(m)
       THEN /\ starts' = [starts EXCEPT ![m] = Without(@, k)]
            /\ Submit(p, Event(op, fields, clock - starts[m][k]))
       ELSE UNCHANGED <<starts, ring, made, lost>>

-----------------------------------------------------------------------------
(* sched.rs *)

is_game_tid(t) == t \in pids

\* A thread may be woken again before it runs: the later time replaces the earlier.
sched_wakeup(t) ==
    /\ Happens
    /\ IF "sched_wakeup" \in attached /\ is_game_tid(t)
       THEN Insert("wakeup", t) ELSE UNCHANGED starts
    /\ UNCHANGED <<ring, made, lost>>

\* A game thread that is switched in gets an event even when no wake-up was seen, as
\* a thread that was only preempted has none.
sched_switch(t) ==
    LET seen == t \in Started("wakeup")
        wait == IF seen THEN clock - starts["wakeup"][t] ELSE 0
    IN  /\ Happens
        /\ IF "sched_switch" \in attached /\ is_game_tid(t)
           THEN /\ starts' = [starts EXCEPT !["wakeup"] = Without(@, t)]
                /\ Submit("schedlatency", [kind |-> "switch", tid |-> t, latency |-> wait])
           ELSE UNCHANGED <<starts, ring, made, lost>>

sched_migrate_task(t, from, to) ==
    /\ Moment
    /\ IF "sched_migrate_task" \in attached /\ is_game_tid(t)
       THEN Submit("schedlatency", [kind |-> "migrate", tid |-> t, prev |-> from,
                                    next |-> to])
       ELSE UNCHANGED <<ring, made, lost>>

(* bio.rs: the key is the sector, on whichever device *)

block_rq_issue(d, s) == Entry("block_rq_issue", "bio", <<"bio", d, s>>, s, TRUE)
block_rq_complete(d, s) ==
    Return("block_rq_complete", "bio", "bio", <<"bio", d, s>>, s, [kind |-> "bio", bytes |-> 1])

(* futex.rs, vfs.rs: filtered on the way in only *)

do_futex_entry(t) == Entry("do_futex_entry", "futex", <<"futex", t>>, t, t \in pids)
do_futex_return(t) ==
    Return("do_futex_return", "futex", "futex", <<"futex", t>>, t, [kind |-> "futex"])

vfs_read_entry(t) == Entry("vfs_read_entry", "read", <<"read", t>>, t, t \in pids)
vfs_read_return(t) ==
    Return("vfs_read_return", "vfs", "read", <<"read", t>>, t, [kind |-> "read"])

vfs_write_entry(t) == Entry("vfs_write_entry", "write", <<"write", t>>, t, t \in pids)
vfs_write_return(t) ==
    Return("vfs_write_return", "vfs", "write", <<"write", t>>, t, [kind |-> "write"])

(* gpu_fence.rs, irq.rs: no filter; a softirq is known by its cpu *)

dma_fence_default_wait_entry(t) ==
    Entry("dma_fence_default_wait_entry", "fence", <<"fence", t>>, t, TRUE)
dma_fence_default_wait_return(t) ==
    Return("dma_fence_default_wait_return", "gpu_fence", "fence", <<"fence", t>>, t,
           [kind |-> "fence"])

irq_handler_entry(c, n) ==
    Entry("irq_handler_entry", "hard", <<"hard", c, n>>, <<c, n>>, TRUE)
irq_handler_exit(c, n) ==
    Return("irq_handler_exit", "irq", "hard", <<"hard", c, n>>, <<c, n>>, [kind |-> "hard"])

softirq_entry(c) == Entry("softirq_entry", "soft", <<"soft", c>>, c, TRUE)
softirq_exit(c) == Return("softirq_exit", "irq", "soft", <<"soft", c>>, c, [kind |-> "soft"])

-----------------------------------------------------------------------------
(* gpu_sched.rs: every way to lose a job is counted *)

count_loss(kind) == loss' = [loss EXCEPT ![kind] = @ + 1]

\* LruHashMap::insert: a full map evicts an entry, or reports an error.
record_queue(j) ==
    \/ /\ j \in Started("gpu") \/ Cardinality(Started("gpu")) < MapSize
       /\ Insert("gpu", j) /\ UNCHANGED loss
    \/ /\ j \notin Started("gpu") /\ Cardinality(Started("gpu")) >= MapSize
       /\ \/ \E old \in Started("gpu") :
                starts' = [starts EXCEPT !["gpu"] = Put(Without(@, old), j, clock)]
             /\ UNCHANGED loss
          \/ UNCHANGED starts /\ count_loss("queue_insert")

\* Mutant: a ring buffer without room loses the job unnoticed.
record_run_silent(j) ==
    \/ /\ j \notin Started("gpu") /\ count_loss("run_miss")
       /\ UNCHANGED <<starts, ring, made, lost>>
    \/ /\ j \in Started("gpu")
       /\ starts' = [starts EXCEPT !["gpu"] = Without(@, j)]
       /\ Submit("gpu_sched", Event(<<"gpu", j>>, [kind |-> "gpu"], clock - starts["gpu"][j]))
       /\ UNCHANGED loss

record_run(j) ==
    \/ /\ j \notin Started("gpu") /\ count_loss("run_miss")
       /\ UNCHANGED <<starts, ring, made, lost>>
    \/ /\ j \in Started("gpu")
       /\ starts' = [starts EXCEPT !["gpu"] = Without(@, j)]
       /\ Submit("gpu_sched", Event(<<"gpu", j>>, [kind |-> "gpu"], clock - starts["gpu"][j]))
       /\ IF Len(ring["gpu_sched"]) < RingSize THEN UNCHANGED loss
          ELSE count_loss("ringbuf_reserve")

\* key_from_context: a field that cannot be read is counted too.
Unread == count_loss("key_read") /\ UNCHANGED <<starts, ring, made, lost>>

\* drm_sched_job_queue, and drm_sched_job of older kernels.  The two key fields
\* name a job once and for all, and count upwards.
drm_sched_job_queue(j) ==
    /\ <<"gpu", j>> \notin DOMAIN calls /\ j \notin ran /\ fired < MaxCalls
    /\ \A i \in Jobs : i < j => <<"gpu", i>> \in DOMAIN calls \/ i \in ran
    /\ calls' = Put(calls, <<"gpu", j>>, clock)
    /\ fired' = fired + 1
    /\ UNCHANGED <<attached, pids, ring, clock, made, lost, ran>>
    /\ \/ "gpu_queue" \in attached /\ (record_queue(j) \/ (count_loss("key_read") /\ UNCHANGED starts))
       \/ "gpu_queue" \notin attached /\ UNCHANGED <<starts, loss>>

\* drm_sched_job_run, and drm_run_job.
drm_sched_job_run(j) ==
    /\ End(<<"gpu", j>>)
    /\ \/ "gpu_run" \in attached /\ ran' = ran \cup {j} /\ (record_run(j) \/ Unread)
       \/ "gpu_run" \notin attached /\ UNCHANGED <<starts, ring, loss, made, lost, ran>>

-----------------------------------------------------------------------------
(* gpu_submit.rs, mem.rs: one program, one event *)

amdgpu_cs_ioctl_entry ==
    /\ Moment
    /\ IF "amdgpu_cs_ioctl_entry" \in attached
       THEN Submit("gpu_submit", [kind |-> "submit"])
       ELSE UNCHANGED <<ring, made, lost>>

page_fault_user(t, write) ==
    /\ Moment
    /\ IF "page_fault_user" \in attached /\ t \in pids
       THEN Submit("mem", [kind |-> "fault", write |-> write])
       ELSE UNCHANGED <<ring, made, lost>>

mm_vmscan_direct_reclaim_begin ==
    /\ Moment
    /\ IF "mm_vmscan_direct_reclaim_begin" \in attached
       THEN Submit("mem", [kind |-> "reclaim"])
       ELSE UNCHANGED <<ring, made, lost>>

Elapse ==
    /\ clock < MaxClock
    /\ clock' = clock + 1
    /\ UNCHANGED <<attached, pids, starts, ring, loss, calls, fired, made, lost, ran>>

KernelInit ==
    /\ attached = {} /\ pids = {} /\ clock = 0 /\ fired = 0 /\ ran = {}
    /\ starts = [m \in Maps |-> NoKey] /\ calls = NoKey
    /\ ring = [p \in ProbeNames |-> <<>>]
    /\ loss = [k \in LossKinds |-> 0]
    /\ made = [p \in ProbeNames |-> 0] /\ lost = [p \in ProbeNames |-> 0]

\* Which kernel operations happen is the instance's choice: busy names the
\* probes whose part of the kernel is active.
ThreadCalls(t, busy) ==
    \/ "schedlatency" \in busy /\ (sched_wakeup(t) \/ sched_switch(t))
    \/ "schedlatency" \in busy /\ \E a, b \in Cpus : a # b /\ sched_migrate_task(t, a, b)
    \/ "futex" \in busy /\ (do_futex_entry(t) \/ do_futex_return(t))
    \/ "vfs" \in busy /\ (vfs_read_entry(t) \/ vfs_read_return(t))
    \/ "vfs" \in busy /\ (vfs_write_entry(t) \/ vfs_write_return(t))
    \/ "gpu_fence" \in busy
       /\ (dma_fence_default_wait_entry(t) \/ dma_fence_default_wait_return(t))
    \/ "mem" \in busy /\ \E w \in BOOLEAN : page_fault_user(t, w)

DeviceCalls(busy) ==
    \/ "bio" \in busy /\ \E d \in Devices, s \in Sectors :
          block_rq_issue(d, s) \/ block_rq_complete(d, s)
    \/ "irq" \in busy /\ \E c \in Cpus :
          \/ softirq_entry(c) \/ softirq_exit(c)
          \/ \E n \in Lines : irq_handler_entry(c, n) \/ irq_handler_exit(c, n)
    \/ "gpu_sched" \in busy /\ \E j \in Jobs : drm_sched_job_queue(j) \/ drm_sched_job_run(j)
    \/ "gpu_submit" \in busy /\ amdgpu_cs_ioctl_entry
    \/ "mem" \in busy /\ mm_vmscan_direct_reclaim_begin

KernelNext(busy) == (\E t \in Threads : ThreadCalls(t, busy)) \/ DeviceCalls(busy) \/ Elapse
=============================================================================
