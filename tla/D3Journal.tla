----------------------------- MODULE D3Journal -----------------------------
(***************************************************************************)
(* The journal evidence of detector D3 (src/src/detectors/d3.rs): how the  *)
(* prior boot's two journal readings, the kernel excerpt and the end-tail, *)
(* are bounded, combined and searched for the amdgpu precursor.            *)
(*                                                                         *)
(* A journal is a sequence of lines.  A line is                            *)
(*   [t, zone, indent, kernel, bdf, says]                                  *)
(* with t the instant of its timestamp (NoStamp where none parses), zone   *)
(* the UTC offset it is written in, indent whether it starts with white    *)
(* space, kernel whether the transport is the kernel, bdf the device an    *)
(* amdgpu message names, and says what its text holds.                     *)
(***************************************************************************)
EXTENDS Contract, FiniteSets

CONSTANTS
    PrecursorWindow,  \* PRECURSOR_WINDOW_S
    Tolerance,        \* TIMING_REGRESSION_TOLERANCE_MS, in the same unit
    SmuMin, ResetMin, \* SMU_UNRESPONSIVE_MIN, RESET_ATTEMPT_MIN
    JournalLimit,     \* JOURNAL_LIMIT, in lines
    Grace             \* INVENTORY_WINDOW_GRACE_S

ASSUME D3JournalAssumptions ==
    /\ {PrecursorWindow, Tolerance, SmuMin, ResetMin, Grace} \subseteq Nat
    /\ JournalLimit \in Nat \ {0}

NoStamp == -1   \* no RFC 3339 timestamp

\* bounded_end and bounded_start: the last, or the first, whole lines.
bounded_end(j) == SubSeq(j, Len(j) - JournalLimit + 1, Len(j))
bounded_start(j) == SubSeq(j, 1, JournalLimit)
Bounded(j, keepStart) ==
    IF Len(j) <= JournalLimit THEN j
    ELSE IF keepStart THEN bounded_start(j) ELSE bounded_end(j)

-----------------------------------------------------------------------------
(* Records *)

\* The elements of a sequence that belong to S, in their order.
Among(s, S) ==
    LET kept[n \in 0..Len(s)] ==
            IF n = 0 THEN <<>>
            ELSE IF s[n] \in S THEN Append(kept[n - 1], s[n]) ELSE kept[n - 1]
    IN kept[Len(s)]

\* A set of positions of a journal, in order, and the last line before the i-th's successor.
InOrder(j, S) == Among([n \in 1..Len(j) |-> n], S)
EndOf(j, heads, i) == IF i < Len(heads) THEN heads[i + 1] - 1 ELSE Len(j)

\* A stamped line opens a record; an indented one continues the record
\* before it; any other line is dropped.
fold_journal_records(j) ==
    LET heads == InOrder(j, {n \in 1..Len(j) : j[n].t # NoStamp})
    IN [i \in 1..Len(heads) |->
          [t |-> j[heads[i]].t, zone |-> j[heads[i]].zone, kernel |-> j[heads[i]].kernel, bdf |-> j[heads[i]].bdf,
           says |-> {j[k].says : k \in {n \in heads[i]..EndOf(j, heads, i) : n = heads[i] \/ j[n].indent}}]]

\* A line that continues the record before it.
Continues(l) == l.t = NoStamp /\ l.indent

\* journal_records keeps the unstamped lines too, as records of their own.
journal_records(j) ==
    LET heads == InOrder(j, {n \in 1..Len(j) : n = 1 \/ ~Continues(j[n])})
    IN [i \in 1..Len(heads) |->
          [t |-> j[heads[i]].t, text |-> SubSeq(j, heads[i], EndOf(j, heads, i))]]

-----------------------------------------------------------------------------
(* The two readings combined *)

\* How often a record's text occurs in a sequence of records.
Times(text, recs) == Cardinality({i \in DOMAIN recs : recs[i].text = text})

\* Mutant: a tail record the kernel has at all is dropped.
NewTail(kernel, tail) == SelectSeq(tail, LAMBDA r : Times(r.text, kernel) = 0)

\* A tail record is kept from the occurrence on that the kernel lacks.
UniqueTail(kernel, tail) ==
    LET kept[n \in 0..Len(tail)] ==
            IF n = 0 THEN <<>>
            ELSE IF Times(tail[n].text, SubSeq(tail, 1, n)) > Times(tail[n].text, kernel)
            THEN Append(kept[n - 1], tail[n]) ELSE kept[n - 1]
    IN kept[Len(tail)]

\* Mutant: the tail before the kernel.
TailBefore(k, t) == FALSE

\* The kernel's head goes first, unless both heads are stamped and it is later.
TakeKernel(k, t) == k.t = NoStamp \/ t.t = NoStamp \/ k.t <= t.t

\* stable_merge_journal_records: a turn of its loop takes the next record of one of the
\* two; of the n records taken so far, m.taken are the kernel's.
MergeTurn(kernel, tail, n, m) ==
    LET k == m.taken + 1
        t == n - m.taken
    IN IF k <= Len(kernel) /\ (t > Len(tail) \/ TakeKernel(kernel[k], tail[t]))
       THEN [taken |-> k, merged |-> Append(m.merged, kernel[k])]
       ELSE [taken |-> m.taken, merged |-> Append(m.merged, tail[t])]

stable_merge(kernel, tail) ==
    LET after[n \in 0..(Len(kernel) + Len(tail))] ==
            IF n = 0 THEN [taken |-> 0, merged |-> <<>>]
            ELSE MergeTurn(kernel, tail, n, after[n - 1])
    IN after[Len(kernel) + Len(tail)].merged

\* The lines of the records, one after the other.
Lines(recs) ==
    LET lines[n \in 0..Len(recs)] == IF n = 0 THEN <<>> ELSE lines[n - 1] \o recs[n].text
    IN lines[Len(recs)]

\* Without a tail there is no prior evidence, whatever the kernel excerpt.
combine_prior(kernel, tail) ==
    IF tail = None THEN None
    ELSE IF kernel = None THEN tail
    ELSE LET k == journal_records(kernel)
         IN Lines(stable_merge(k, UniqueTail(k, journal_records(tail))))

-----------------------------------------------------------------------------
(* The precursor *)

\* How far a row's stamp is behind the one before it.
Back(rows, n) == IF n > 1 /\ rows[n - 1].t > rows[n].t THEN rows[n - 1].t - rows[n].t ELSE 0

\* The time stamps run backwards by more than the tolerance, in sum.
timestamps_regress(rows) ==
    LET sum[n \in 0..Len(rows)] == IF n = 0 THEN 0 ELSE sum[n - 1] + Back(rows, n)
    IN sum[Len(rows)] > Tolerance

journal_timestamps_non_monotonic(j) == timestamps_regress(fold_journal_records(j))

\* The readings were out of order before they were combined.
PriorTimingUnreliable(kernel, tail) ==
    \/ kernel # None /\ journal_timestamps_non_monotonic(kernel)
    \/ tail # None /\ journal_timestamps_non_monotonic(tail)

Says(row, what) == what \in row.says
Count(rows, what) == Cardinality({i \in DOMAIN rows : Says(rows[i], what)})

\* kernel_amdgpu_record: a kernel record whose message starts with the slot.
kernel_amdgpu_record(row, slot) == row.kernel /\ row.bdf = slot

\* A reset no recovery follows, or an SMU failure as the last word.
Terminal(scoped) ==
    \/ \E i \in DOMAIN scoped :
          /\ Says(scoped[i], "reset")
          /\ \A k \in (i + 1)..Len(scoped) : ~Says(scoped[k], "recovered")
    \/ scoped # <<>> /\ Says(scoped[Len(scoped)], "smu")

\* precursor: the compound condition over the tail's last PrecursorWindow.
precursor(tail, slot) ==
    LET rows == fold_journal_records(tail)
        earliest == rows[Len(rows)].t - PrecursorWindow
        window == Among(rows, {r \in ToSet(rows) : r.t >= earliest})
        scoped == Among(window, {r \in ToSet(rows) : kernel_amdgpu_record(r, slot)})
        regress == timestamps_regress(window)
        texts == {tail[i].says : i \in DOMAIN tail}
    IN IF rows = <<>>
       THEN [fires |-> FALSE, smu |-> 0, resets |-> 0, truncated |-> FALSE,
             unreliable |-> FALSE, suppressed |-> FALSE]
       ELSE [fires |-> /\ ~regress
                       /\ Count(scoped, "smu") >= SmuMin
                       /\ Count(scoped, "reset") >= ResetMin
                       /\ Terminal(scoped),
             smu |-> Count(scoped, "smu"), resets |-> Count(scoped, "reset"),
             truncated |-> "shutdown" \notin texts,
             unreliable |-> regress,
             suppressed |-> "suppressed" \in texts]

\* The devices that the lines of a journal report without link ("" where one names none).
LinksDown(j) == {j[i].bdf : i \in {k \in DOMAIN j : j[k].says = "linkdown"}}

\* naive_local: what a clock in the stamp's own zone showed.
WallClock(row) == row.t + row.zone

\* Mutant: only the first record is compared with the window.
FirstInWindow(j, window) ==
    LET rows == fold_journal_records(j)
    IN window # None /\ rows # <<>> /\ WallClock(rows[1]) >= window[1] - Grace

\* validate_journal_window: a supplied journal has stamps, and its first and
\* last lie within the boot's window and its grace, all read off the wall
\* clock: the window has lost its zone, a stamp is shown in its own.
InWindow(j, window) ==
    LET rows == fold_journal_records(j)
    IN /\ window # None /\ rows # <<>>
       /\ WallClock(rows[1]) >= window[1] - Grace
       /\ WallClock(rows[Len(rows)]) <= window[2] + Grace
=============================================================================
