------------------------------ MODULE EsHealth ------------------------------
(***************************************************************************)
(* EsDeliveryHealth: the tracker that decides when the agent tells the     *)
(* operator that Elasticsearch delivery fails or has recovered             *)
(* (src/src/main.rs).                                                      *)
(*                                                                         *)
(* Every bulk request runs in a detached task.  When it ends, the task     *)
(* reads the wall clock, records the outcome under the tracker's mutex and *)
(* prints the line that is due after the mutex is released.  The clock is  *)
(* CLOCK_REALTIME: it may step back.  An outage is abstracted to whether   *)
(* it was announced.                                                       *)
(***************************************************************************)
EXTENDS Integers, FiniteSets

CONSTANTS
    Tasks,      \* bulk requests in flight at once
    Repeat,     \* ES_UNREACHABLE_REPEAT_SECS
    MaxClock,   \* bound: the last second of the clock
    MaxSteps,   \* bound: how often the clock steps back
    Never       \* no failure line was emitted yet

ASSUME EsHealthAssumptions ==
    /\ Repeat \in Nat \ {0} /\ MaxClock \in Nat /\ MaxSteps \in Nat
    /\ Never \notin (0..MaxClock) \cup [at : 0..MaxClock, step : 0..MaxSteps]

VARIABLES
    clock, steps,   \* the wall clock, and how often it stepped back
    outage,         \* "none", "quiet" (never announced) or "announced"
    last_spoke,     \* last_spoke_unix
    task,           \* task[t]: what task t does next
    now,            \* now[t]: when task t read the clock, and after which step
    line,           \* the last marked line printed, which `rigsignal status` shows
    said,           \* history: the last failure line decided, and when
    recoveries,     \* history: recovery lines decided since then, 1 before any
    silent,         \* history: the seconds of failures since then without a line
    crossed         \* history: the last line was decided with another still unprinted

time == <<clock, steps>>
tracker == <<outage, last_spoke>>
decided == <<said, recoveries, silent, crossed>>
healthVars == <<time, tracker, task, now, line, decided>>

Second == [at : 0..MaxClock, step : 0..MaxSteps]

\* Mutant: a clock before 1970 is not clamped.
NowUnclamped == [at |-> clock, step |-> steps]

\* now_unix_secs: a clock before 1970 reads as zero.
Now == [at |-> IF clock < 0 THEN 0 ELSE clock, step |-> steps]

-----------------------------------------------------------------------------
(* The clock *)

Tick ==
    /\ clock < MaxClock
    /\ clock' = clock + 1
    /\ UNCHANGED <<steps, tracker, task, now, line, decided>>

StepBack ==
    /\ steps < MaxSteps
    /\ steps' = steps + 1
    /\ \E c \in -1..(clock - 1) : clock' = c
    /\ UNCHANGED <<tracker, task, now, line, decided>>

-----------------------------------------------------------------------------
(* The tracker *)

\* Mutant: the difference saturates at zero.
DueSaturating(t) == last_spoke = Never \/ t - last_spoke >= Repeat

\* Whether a failure at time t is worth a line.
Due(t) ==
    \/ last_spoke = Never
    \/ t < last_spoke
    \/ t - last_spoke >= Repeat

\* Mutant: the outage counts as announced before the rate limit is looked at.
RecordFailureAnnounces(t) ==
    /\ last_spoke' = IF Due(t.at) THEN t.at ELSE last_spoke
    /\ outage' = "announced"
    /\ said' = IF Due(t.at) THEN t ELSE said
    /\ recoveries' = IF Due(t.at) THEN 0 ELSE recoveries
    /\ silent' = IF Due(t.at) THEN {} ELSE silent \cup {t}

\* record_failure for a failure dated t.
RecordFailure(t) ==
    /\ last_spoke' = IF Due(t.at) THEN t.at ELSE last_spoke
    /\ outage' = IF Due(t.at) THEN "announced"
                 ELSE IF outage = "none" THEN "quiet" ELSE outage
    /\ said' = IF Due(t.at) THEN t ELSE said
    /\ recoveries' = IF Due(t.at) THEN 0 ELSE recoveries
    /\ silent' = IF Due(t.at) THEN {} ELSE silent \cup {t}

\* Mutant: the end of an outage forgets when a line was last emitted.
RecordSuccessForgets ==
    /\ outage' = "none"
    /\ last_spoke' = Never
    /\ recoveries' = IF outage = "announced" THEN recoveries + 1 ELSE recoveries
    /\ UNCHANGED <<said, silent>>

\* Mutant: the end of any outage is announced.
RecordSuccessLoud ==
    /\ outage' = "none"
    /\ recoveries' = IF outage # "none" THEN recoveries + 1 ELSE recoveries
    /\ UNCHANGED <<last_spoke, said, silent>>

\* record_success.
RecordSuccess ==
    /\ outage' = "none"
    /\ recoveries' = IF outage = "announced" THEN recoveries + 1 ELSE recoveries
    /\ UNCHANGED <<last_spoke, said, silent>>

-----------------------------------------------------------------------------
(* The tasks *)

\* A bulk request failed, or some of its documents were rejected: note_failure
\* reads the clock before it takes the lock.
Fails(t) ==
    /\ task[t] = "shipping"
    /\ task' = [task EXCEPT ![t] = "failed"]
    /\ now' = [now EXCEPT ![t] = Now]
    /\ UNCHANGED <<time, tracker, line, decided>>

\* Task t decides a line, or none if ~speaks, while others have yet to print.
Decides(t, speaks) ==
    crossed' = IF speaks THEN \E u \in Tasks \ {t} : task[u] \in {"failing", "recovered"}
               ELSE crossed

\* note_failure: the mutex is taken and released.
NoteFailure(t) ==
    /\ task[t] = "failed"
    /\ RecordFailure(now[t])
    /\ Decides(t, Due(now[t].at))
    /\ task' = [task EXCEPT ![t] = IF Due(now[t].at) THEN "failing" ELSE "shipping"]
    /\ UNCHANGED <<time, now, line>>

\* note_success: every document landed.
NoteSuccess(t) ==
    /\ task[t] = "shipping"
    /\ RecordSuccess
    /\ Decides(t, outage = "announced")
    /\ task' = [task EXCEPT ![t] = IF outage = "announced" THEN "recovered" ELSE "shipping"]
    /\ UNCHANGED <<time, now, line>>

\* The line is printed after the mutex was released.
Say(t) ==
    /\ task[t] \in {"failing", "recovered"}
    /\ line' = task[t]
    /\ task' = [task EXCEPT ![t] = "shipping"]
    /\ UNCHANGED <<time, tracker, now, decided>>

\* A failed preflight is attempt one of an outage and prints the line itself.
Preflight ==
    \/ /\ outage = "none" /\ last_spoke = Never /\ line = "none"
       /\ said = Never /\ recoveries = 1
    \/ /\ outage = "announced" /\ last_spoke = 0 /\ line = "failing"
       /\ said = Now /\ recoveries = 0

EsHealthInit ==
    /\ clock = 0 /\ steps = 0
    /\ Preflight
    /\ task = [t \in Tasks |-> "shipping"]
    /\ now = [t \in Tasks |-> Now]
    /\ silent = {} /\ crossed = FALSE

EsHealthNext ==
    \/ Tick
    \/ StepBack
    \/ \E t \in Tasks : Fails(t) \/ NoteFailure(t) \/ NoteSuccess(t) \/ Say(t)

EsHealthSpec == EsHealthInit /\ [][EsHealthNext]_healthVars

-----------------------------------------------------------------------------
(* Properties *)

\* The shape of the clock, the tracker and the tasks.
EsHealthTypeOK ==
    /\ clock \in -1..MaxClock /\ steps \in 0..MaxSteps
    /\ outage \in {"none", "quiet", "announced"}
    /\ last_spoke \in 0..MaxClock \cup {Never}
    /\ task \in [Tasks -> {"shipping", "failed", "failing", "recovered"}]
    /\ now \in [Tasks -> Second]
    /\ line \in {"none", "failing", "recovered"}
    /\ said \in Second \cup {Never}
    /\ recoveries \in Nat
    /\ silent \subseteq Second /\ crossed \in BOOLEAN

\* record_failure: two failures that are given a line are Repeat seconds apart,
\* across outages too, unless the clock stepped back in between or the second
\* failure's task read the clock before the first one's did.
RateLimited ==
    [][said' # said /\ said # Never /\ said.step = said'.step
            => said'.at - said.at >= Repeat \/ said'.at < said.at]_healthVars

\* The backward-clock guard: however far the clock steps back, the failures of at
\* most Repeat seconds go without a line before and after each step.
NeverSilenced == Cardinality(silent) <= Repeat * (steps + 1)

\* record_success: a recovery is announced once, and only for an outage that was
\* announced, so a failure line stays unanswered exactly while its outage lasts.
RecoveryAnswersFailure == recoveries = IF outage = "announced" THEN 0 ELSE 1

\* When every line was printed and an announced outage is in progress.
Settled == outage = "announced" /\ \A t \in Tasks : task[t] \in {"shipping", "failed"}

\* note_failure and note_success: then the operator's last line says that delivery
\* fails, unless it was decided while an earlier line was still unprinted.
LastLineTrue == Settled /\ ~crossed => line = "failing"

\* What holds of the tracker at every moment: the shape of its state, one recovery
\* line for each failure line, and a last line that is true once all are printed.
EsHealthInv == EsHealthTypeOK /\ RecoveryAnswersFailure /\ LastLineTrue
=============================================================================
