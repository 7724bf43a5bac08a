------------------------------- MODULE MCEbpf -------------------------------
(* Instances of Ebpf for TLC. *)
EXTENDS Ebpf

MCNoSession == [session |-> "none", tids |-> {}]
MCStates == {MCNoSession, [session |-> "s1", tids |-> {1}], [session |-> "s1", tids |-> {1, 2}]}
MCBounds == <<1, 2>>
MCCcx == [c \in {0, 1} |-> c]

Field(n) == [name |-> n, size |-> 8, offset |-> 8]
Renamed == [e \in {"drm_sched_job_queue", "drm_sched_job_run"} |->
               <<Field("fence_context"), Field("fence_seqno")>>]
Legacy == [e \in {"drm_sched_job", "drm_run_job"} |-> <<Field("entity"), Field("id")>>]
Narrow == [e \in {"drm_sched_job", "drm_run_job"} |->
              <<Field("entity"), [Field("id") EXCEPT !.size = 4]>>]

All == UNION {Range(ProgramsOf[p]) : p \in ProbeNames}

\* A machine on which the daemon can run these probes, and how much happens on it.
Machine(probes, c, p) ==
    [config |-> TRUE, root |-> FALSE, caps |-> {"bpf", "perfmon"}, btf |-> TRUE,
     object |-> TRUE, offers |-> probes, attaches |-> All, formats |-> Renamed,
     key |-> TRUE, ca |-> TRUE, baseline |-> FALSE, server |-> TRUE, busy |-> probes,
     calls |-> c, time |-> 1, publishes |-> p, signalled |-> FALSE]

Futex == Machine({"futex"}, 2, 2)
\* Time for a call longer than every bound of the histogram.
LongWait == [Futex EXCEPT !.time = 2, !.publishes = 1]
Gpu == Machine({"gpu_sched"}, 3, 1)
Submits == [Machine({"gpu_submit"}, 3, 2) EXCEPT !.signalled = TRUE]

Plain == {Machine({"schedlatency"}, 3, 1), Machine({"bio", "mem"}, 2, 1), Machine({"bio", "gpu_sched"}, 2, 1),
          Machine({"irq"}, 2, 1), Machine({"vfs"}, 2, 1), Machine({"gpu_fence"}, 3, 1),
          Futex, Gpu, Submits, LongWait}

\* Hosts on which something is missing.
Odd == {[Gpu EXCEPT !.formats = Legacy, !.calls = 2],
        [Submits EXCEPT !.offers = {"gpu_sched", "gpu_submit"}, !.formats = Narrow],
        [Futex EXCEPT !.offers = {"futex", "gpu_submit"}, !.attaches = @ \ {"do_futex_return"}],
        [Futex EXCEPT !.config = FALSE], [Futex EXCEPT !.caps = {"bpf"}],
        [Futex EXCEPT !.btf = FALSE], [Futex EXCEPT !.object = FALSE],
        [Futex EXCEPT !.offers = {}], [Futex EXCEPT !.key = FALSE], [Futex EXCEPT !.ca = FALSE],
        [Submits EXCEPT !.server = FALSE], [Submits EXCEPT !.baseline = TRUE, !.publishes = 1]}
MCHosts == Plain \cup Odd
=============================================================================
