---------------------------- MODULE StreamClient ----------------------------
(***************************************************************************)
(* The stream-client collector (src/src/collectors/linux/stream_client.rs): *)
(* it finds the newest process called streaming_client, adds up the engine *)
(* time of its DRM descriptors and reports how busy the engines were since *)
(* the previous tick.  Processes end, their PIDs are used again, and       *)
(* descriptors are opened, duplicated and closed between any two reads.    *)
(***************************************************************************)
EXTENDS Rates

CONSTANTS
    Pids, Fds,      \* numbers, as the kernel hands them out
    Contexts,       \* DRM contexts, by client id; none is given twice
    Engines,        \* by context, the engines its fdinfo lists: "dec", "enc", "gfx"
    Unnamed,        \* contexts whose fdinfo has no drm-client-id
    Ttl,            \* DISCOVERY_TTL, in ticks
    MaxFiles,       \* MAX_FDINFO_FILES
    MaxStarts       \* bound: processes started

ASSUME StreamAssumptions ==
    /\ IsFiniteSet(Fds) /\ Fds \subseteq Nat /\ Pids \subseteq Nat /\ MaxFiles \in Nat
    /\ None \notin Contexts /\ None \notin Nat

VARIABLES
    procs,      \* /proc: by PID, the process [start, client, fds], or None
    starts,     \* start times handed out
    busy,       \* engine time of each context, by engine
    opened,     \* contexts ever opened
    scanAge,    \* ticks since last_scan, or None
    selected,   \* the selected process, or None
    sampling,   \* what selected_process returned to the sample in progress
    baseline,   \* video_baseline and gfx_baseline
    client      \* the percentages of this tick's document

table == <<procs, starts, busy, opened>>
streamVars == <<table, scanAge, selected, sampling, baseline, client>>

Groups == [video |-> {"dec", "enc"}, gfx |-> {"gfx"}]
NoBaselines == [g \in DOMAIN Groups |-> None]

StreamInit ==
    /\ procs = [p \in Pids |-> None]
    /\ starts = 0
    /\ opened = {}
    /\ busy = [c \in Contexts |-> [e \in Engines[c] |-> 0]]
    /\ scanAge = None
    /\ selected = None
    /\ sampling = None
    /\ baseline = NoBaselines
    /\ client = NoBaselines

-----------------------------------------------------------------------------
(* Processes *)

table_only == UNCHANGED <<scanAge, selected, sampling, baseline, client>>

\* Client ids are handed out in order.
Fresh == {c \in Contexts \ opened : \A d \in Contexts : d < c => d \in opened}

\* A process starts under a free PID, a streaming client or another program.
StartProc(p, named, c) ==
    /\ procs[p] = None
    /\ starts < MaxStarts
    /\ c \in Fresh
    /\ starts' = starts + 1
    /\ procs' = [procs EXCEPT ![p] = [start |-> starts + 1, client |-> named,
                                     fds |-> [f \in Fds |-> IF f = Min(Fds) THEN c ELSE None]]]
    /\ opened' = opened \cup {c}
    /\ UNCHANGED busy /\ table_only

EndProc(p) ==
    /\ procs[p] # None
    /\ procs' = [procs EXCEPT ![p] = None]
    /\ UNCHANGED <<starts, busy, opened>> /\ table_only

\* The process closes a descriptor, opens a new context or duplicates one it has.
SetFd(p, f, c) ==
    /\ procs[p] # None
    /\ c # procs[p].fds[f]
    /\ c \in {None} \cup Range(procs[p].fds) \cup Fresh
    /\ procs' = [procs EXCEPT ![p].fds[f] = c]
    /\ opened' = opened \cup ({c} \ {None})
    /\ UNCHANGED <<starts, busy>> /\ table_only

Run(c, e) ==
    /\ \E p \in Pids : procs[p] # None /\ c \in Range(procs[p].fds)
    /\ busy' = [busy EXCEPT ![c][e] = @ + 1]
    /\ UNCHANGED <<procs, starts, opened>> /\ table_only

-----------------------------------------------------------------------------
(* Discovery *)

starttime(p) == IF procs[p] = None THEN None ELSE procs[p].start

\* The newest candidate among the PIDs read before the scan's time was up.
Newest(pids) ==
    LET found == {p \in pids : procs[p] # None /\ procs[p].client} IN
    IF found = {} THEN None
    ELSE LET p == CHOOSE p \in found : \A q \in found : procs[q].start <= procs[p].start IN
         [pid |-> p, start |-> procs[p].start]

Scanned == {{p \in Pids : p < n} : n \in Pids} \cup {Pids}

\* The selected PID must still be the process that was selected.
Gone == selected # None /\ starttime(selected.pid) # selected.start

\* A scan is due at once when the process is gone, else when the last is too old.
Due == Gone \/ scanAge = None \/ scanAge >= Ttl

SelectStream ==
    /\ \E pids \in IF Due THEN Scanned ELSE {{}} :
           LET found == IF Due THEN Newest(pids) ELSE selected IN
           /\ selected' = found
           /\ sampling' = found
           /\ scanAge' = IF Due THEN 0 ELSE scanAge
           /\ baseline' = IF Gone \/ found # selected THEN NoBaselines ELSE baseline
    /\ client' = NoBaselines
    /\ UNCHANGED table

-----------------------------------------------------------------------------
(* Sampling *)

\* The first files by number; one without engines is no DRM descriptor.
read_fdinfo(p) ==
    IF procs[p] = None THEN {}
    ELSE LET open == {f \in Fds : procs[p].fds[f] # None}
             first == {f \in open : Cardinality({g \in open : g <= f}) <= MaxFiles}
         IN  {f \in first : Engines[procs[p].fds[f]] # {}}

\* What tells two descriptors of one context from those of two.
identity(c) == IF c \in Unnamed THEN <<"engines", busy[c]>> ELSE <<"client", c>>

deduplicate(p, fds) ==
    {f \in fds : \A g \in fds :
        g < f => identity(procs[p].fds[g]) # identity(procs[p].fds[f])}

baseline_identity(p, f) ==
    LET c == procs[p].fds[f] IN IF c \in Unnamed THEN <<"fd", f>> ELSE <<"client", c>>

\* The units of engine time that the descriptors show: <<descriptor, engine>> and a number.
Units(context, engines, times) ==
    UNION {{x} \X (1..times[context[x[1]]][x[2]]) :
              x \in {y \in (DOMAIN context) \X engines : y[2] \in Engines[context[y[1]]]}}

AnyDescriptors(old, new) ==
    IF old = None \/ old.process # new.process \/ new.total < old.total \/ new.at = old.at
    THEN None
    ELSE [gain |-> new.total - old.total, elapsed |-> new.at - old.at]

\* The gain since the baseline, if it is of the same process and descriptors.
delta_percent(old, new) ==
    IF \/ old = None
       \/ old.process # new.process
       \/ old.identities # new.identities
       \/ new.total < old.total
       \/ new.at = old.at
    THEN None
    ELSE [gain |-> new.total - old.total, elapsed |-> new.at - old.at]

\* The document is sent even when it holds neither percentage.
SampleStream ==
    LET p == sampling.pid
        kept == IF sampling = None THEN {} ELSE deduplicate(p, read_fdinfo(p))
        context == [f \in kept |-> procs[p].fds[f]]
        Has(g) == \E f \in kept : Engines[context[f]] \cap Groups[g] # {}
        Now(g) == [process |-> sampling, identities |-> {baseline_identity(p, f) : f \in kept},
                   total |-> Cardinality(Units(context, Groups[g], busy)),
                   at |-> clock, was |-> busy]
    IN  /\ client' = [g \in DOMAIN Groups |-> IF Has(g) THEN delta_percent(baseline[g], Now(g)) ELSE None]
        /\ baseline' = [g \in DOMAIN Groups |-> IF Has(g) THEN Now(g) ELSE baseline[g]]
        /\ sampling' = None
        /\ UNCHANGED <<table, scanAge, selected>>

AgeScan == scanAge' = IF scanAge = None THEN None ELSE Min({scanAge + 1, Ttl})
=============================================================================
