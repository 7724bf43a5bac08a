--------------------------- MODULE SessionCounter ---------------------------
(***************************************************************************)
(* increment_counter_at: the per-game, per-day ordinal in a session label, *)
(* kept in session-counters.json (src/src/session.rs).                     *)
(*                                                                         *)
(* An agent opens the file, locks the inode it opened, reads the counters, *)
(* writes the new ones to <file>.tmp and renames that over the file.  One  *)
(* key of the file is modelled: an inode holds the ordinal of that key,    *)
(* and 0 stands for an empty or unreadable file, which counts as no key.   *)
(***************************************************************************)
EXTENDS Integers, FiniteSets

CONSTANTS
    Agents,      \* processes that share the state directory
    Inodes,      \* the inodes of the state directory's file system
    MaxStarts,   \* bound: game starts over all agents
    MaxCrashes,  \* bound: agents killed inside the call
    MaxFailed,   \* bound: file operations that fail
    NoInode      \* no inode

ASSUME SessionCounterAssumptions ==
    /\ MaxStarts \in Nat /\ MaxCrashes \in Nat /\ MaxFailed \in Nat
    /\ NoInode \notin Inodes /\ IsFiniteSet(Agents)

VARIABLES
    path, tmp,   \* the inodes under the file's name and under <file>.tmp
    content,     \* content[i]: the ordinal in inode i
    holder,      \* holder[i]: the agent whose flock is on inode i
    step, fd, out,  \* an agent's step, the inode it opened, the tmpfile it writes
    ordinal,     \* the ordinal an agent computed
    starts, crashes, failed,
    returned     \* history: the ordinals returned, with how often

disk == <<path, tmp, content>>
counterBounds == <<starts, crashes, failed>>
counterVars == <<disk, holder, step, fd, out, ordinal, counterBounds, returned>>

\* The inodes no name and no open file refers to.
Unused == Inodes \ ({path, tmp} \cup {fd[a] : a \in Agents} \cup {out[a] : a \in Agents})

\* The inodes as they are, with i reading v.
Holding(i, v) == [content EXCEPT ![i] = v]

Goes(a, next) == step' = [step EXCEPT ![a] = next]

-----------------------------------------------------------------------------
(* One call, step by step *)

\* The file is opened, and created empty if it does not exist.
Open(a) ==
    /\ step[a] = "idle" /\ starts < MaxStarts
    /\ starts' = starts + 1
    /\ \/ /\ path # NoInode
          /\ fd' = [fd EXCEPT ![a] = path]
          /\ UNCHANGED <<path, content>>
       \/ /\ path = NoInode
          /\ \E i \in Unused : /\ path' = i
                               /\ content' = Holding(i, 0)
                               /\ fd' = [fd EXCEPT ![a] = i]
    /\ Goes(a, "opened")
    /\ UNCHANGED <<tmp, holder, out, ordinal, crashes, failed, returned>>

\* lock_exclusive waits for the inode's lock.
Lock(a) ==
    /\ step[a] = "opened" /\ holder[fd[a]] = NoInode
    /\ holder' = [holder EXCEPT ![fd[a]] = a]
    /\ Goes(a, "locked")
    /\ UNCHANGED <<disk, fd, out, ordinal, counterBounds, returned>>

\* Mutant: the ordinal read is not incremented when the file has one.
ReadStale(a) ==
    /\ step[a] = "locked"
    /\ ordinal' = [ordinal EXCEPT ![a] = IF content[fd[a]] = 0 THEN 1 ELSE content[fd[a]]]
    /\ Goes(a, "read")
    /\ UNCHANGED <<disk, holder, fd, out, counterBounds, returned>>

\* Mutant: the ordinal is counted up twice.
ReadTwice(a) ==
    /\ step[a] = "locked"
    /\ ordinal' = [ordinal EXCEPT ![a] = content[fd[a]] + 2]
    /\ Goes(a, "read")
    /\ UNCHANGED <<disk, holder, fd, out, counterBounds, returned>>

\* The counters of the inode that was opened, incremented.
Read(a) ==
    /\ step[a] = "locked"
    /\ ordinal' = [ordinal EXCEPT ![a] = content[fd[a]] + 1]
    /\ Goes(a, "read")
    /\ UNCHANGED <<disk, holder, fd, out, counterBounds, returned>>

\* std::fs::write: the tmpfile is opened and truncated ...
OpenTmp(a) ==
    /\ step[a] = "read"
    /\ \/ /\ tmp # NoInode
          /\ out' = [out EXCEPT ![a] = tmp]
          /\ content' = Holding(tmp, 0)
          /\ UNCHANGED tmp
       \/ /\ tmp = NoInode
          /\ \E i \in Unused : /\ tmp' = i
                               /\ content' = Holding(i, 0)
                               /\ out' = [out EXCEPT ![a] = i]
    /\ Goes(a, "tmp")
    /\ UNCHANGED <<path, holder, fd, ordinal, counterBounds, returned>>

\* ... and written.
WriteTmp(a) ==
    /\ step[a] = "tmp"
    /\ content' = Holding(out[a], ordinal[a])
    /\ Goes(a, "written")
    /\ UNCHANGED <<path, tmp, holder, fd, out, ordinal, counterBounds, returned>>

\* Mutant: the tmpfile is not renamed.
RenameNothing(a) ==
    /\ step[a] = "written"
    /\ Goes(a, "renamed")
    /\ UNCHANGED <<disk, holder, fd, out, ordinal, counterBounds, returned>>

\* Whatever has the tmpfile's name replaces the file; a tmpfile that is gone is a
\* warning.
Rename(a) ==
    /\ step[a] = "written"
    /\ path' = IF tmp # NoInode THEN tmp ELSE path
    /\ tmp' = NoInode
    /\ Goes(a, "renamed")
    /\ UNCHANGED <<content, holder, fd, out, ordinal, counterBounds, returned>>

\* What the end of a call or of a process leaves: its files closed, its lock gone.
Released(a) ==
    /\ holder' = [i \in Inodes |-> IF holder[i] = a THEN NoInode ELSE holder[i]]
    /\ fd' = [fd EXCEPT ![a] = NoInode]
    /\ out' = [out EXCEPT ![a] = NoInode]
    /\ Goes(a, "idle")

\* The ordinal is returned.
Return(a) ==
    /\ step[a] = "renamed"
    /\ returned' = [returned EXCEPT ![ordinal[a]] = @ + 1]
    /\ Released(a)
    /\ UNCHANGED <<disk, ordinal, counterBounds>>

\* The file cannot be opened or locked: the session is number one.
GiveUp(a) ==
    /\ step[a] \in {"idle", "opened"} /\ failed < MaxFailed
    /\ step[a] = "idle" => starts < MaxStarts
    /\ failed' = failed + 1
    /\ starts' = IF step[a] = "idle" THEN starts + 1 ELSE starts
    /\ returned' = [returned EXCEPT ![1] = @ + 1]
    /\ Released(a)
    /\ UNCHANGED <<disk, ordinal, crashes>>

\* The tmpfile cannot be written, or not be renamed: the ordinal is returned all
\* the same.
SaveFails(a) ==
    /\ step[a] \in {"read", "tmp", "written"} /\ failed < MaxFailed
    /\ failed' = failed + 1
    /\ Goes(a, "renamed")
    /\ UNCHANGED <<disk, holder, fd, out, ordinal, starts, crashes, returned>>

\* The agent is killed and started again.
Crash(a) ==
    /\ step[a] # "idle" /\ crashes < MaxCrashes
    /\ crashes' = crashes + 1
    /\ Released(a)
    /\ UNCHANGED <<disk, ordinal, starts, failed, returned>>

CounterInit ==
    /\ path = NoInode /\ tmp = NoInode
    /\ content = [i \in Inodes |-> 0] /\ holder = [i \in Inodes |-> NoInode]
    /\ step = [a \in Agents |-> "idle"]
    /\ fd = [a \in Agents |-> NoInode] /\ out = [a \in Agents |-> NoInode]
    /\ ordinal = [a \in Agents |-> 0]
    /\ starts = 0 /\ crashes = 0 /\ failed = 0
    /\ returned = [k \in 1..MaxStarts |-> 0]

CounterNext ==
    \E a \in Agents :
        \/ Open(a) \/ Lock(a) \/ Read(a) \/ OpenTmp(a) \/ WriteTmp(a)
        \/ Rename(a) \/ Return(a) \/ GiveUp(a) \/ SaveFails(a) \/ Crash(a)

CounterSpec == CounterInit /\ [][CounterNext]_counterVars

-----------------------------------------------------------------------------
(* Properties *)

\* The shape of the file system and of the agents, and no ordinal above the number
\* of sessions started.
CounterTypeOK ==
    /\ path \in Inodes \cup {NoInode} /\ tmp \in Inodes \cup {NoInode}
    /\ content \in [Inodes -> 0..MaxStarts]
    /\ holder \in [Inodes -> Agents \cup {NoInode}]
    /\ step \in [Agents -> {"idle", "opened", "locked", "read", "tmp", "written", "renamed"}]
    /\ fd \in [Agents -> Inodes \cup {NoInode}] /\ out \in [Agents -> Inodes \cup {NoInode}]
    /\ ordinal \in [Agents -> 0..starts]
    /\ starts \in 0..MaxStarts /\ crashes \in 0..MaxCrashes
    /\ failed \in 0..MaxFailed
    /\ returned \in [1..MaxStarts -> Nat]

\* increment_session_counter: no two sessions of a game on one day get the same
\* ordinal, whenever the agents are killed, as long as no file operation fails.
OrdinalsUnique == failed = 0 => \A k \in 1..MaxStarts : returned[k] <= 1

\* The rename: the file's name leads to counters that include every ordinal
\* returned so far, and never to a half-written file.
FileCountsAll ==
    failed = 0 => \A k \in 1..MaxStarts : returned[k] > 0 => path # NoInode /\ content[path] >= k

\* What holds of the counter at every moment, kills included: the shape of the files,
\* no ordinal given twice, and a file that counts every ordinal given.
CounterInv == CounterTypeOK /\ OrdinalsUnique /\ FileCountsAll
=============================================================================
