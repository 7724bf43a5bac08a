------------------------------ MODULE Contract ------------------------------
(***************************************************************************)
(* The output contract of the detector commands (contract.rs) and the      *)
(* diagnosis-event envelope built from an outcome (diagnosis_event.rs).    *)
(*                                                                         *)
(* Texts are their lengths in characters, so an empty text is 0; a list of *)
(* texts is a sequence of lengths.  An outcome is a record with            *)
(*   kind: "diagnosis", "not_applicable" or "error" (no outcome at all),   *)
(*   finding: its in-process disposition, and the fields both validators   *)
(*   look at.                                                              *)
(***************************************************************************)
EXTENDS Integers, Sequences, SequencesExt

CONSTANTS
    MaxElements,      \* MAX_ARRAY_ELEMENTS
    MaxElementChars,  \* MAX_ARRAY_ELEMENT_CHARS
    MaxDisplayChars,  \* MAX_DISPLAY_CHARS
    MaxKeywordChars,  \* MAX_KEYWORD_CHARS
    MaxEventBytes,    \* MAX_DIAGNOSIS_EVENT_BYTES
    Schema,           \* DIAGNOSIS_SCHEMA_VERSION
    None              \* an Option's None

ASSUME ContractAssumptions ==
    /\ {MaxElements, MaxElementChars} \subseteq Nat \ {0}
    /\ {MaxDisplayChars, MaxKeywordChars, MaxEventBytes} \subseteq Nat

NoHost == -1   \* no --host was given

Error == [kind |-> "error", finding |-> FALSE]

\* NotApplicable::new: never a finding.
NotApplicable(evidence) ==
    [kind |-> "not_applicable", finding |-> FALSE, verdict |-> "not-applicable",
     plain |-> 1, evidence |-> evidence]

\* Diagnosis::validate, the confidence in hundredths.
Valid(d) ==
    /\ d.confidence \in 0..100
    /\ d.evidence # <<>>
    /\ d.plain > 0 /\ d.falsifier > 0 /\ d.basis > 0
    /\ d.scope # <<>> /\ d.alternative > 0
    /\ d.finding => d.fixes # <<>>

\* Diagnosis::build: a diagnosis that breaks the contract is no outcome.
Build(d) == IF Valid(d) THEN d ELSE Error

\* emit: the exit status tells the disposition, not the verdict's text.
ExitCode(outcome) ==
    IF outcome.kind = "error" THEN 2 ELSE IF outcome.finding THEN 1 ELSE 0

-----------------------------------------------------------------------------
(* The envelope *)

ArrayFits(a) ==
    /\ Len(a) <= MaxElements
    /\ \A i \in DOMAIN a : a[i] <= MaxElementChars

\* render_display: the elements numbered "1. ", "2. ", ... one to a line.
Digits(n) == IF n < 10 THEN 1 ELSE 2
DisplayChars(a) ==
    FoldLeft(LAMBDA sum, i : sum + Digits(i) + 2 + a[i], 0, [i \in DOMAIN a |-> i])
        + (IF a = <<>> THEN 0 ELSE Len(a) - 1)

KeywordFits(n) == n \in 1..MaxKeywordChars

\* The bytes of the canonical serialization: the texts, at least.
Chars(a) == FoldLeft(LAMBDA x, y : x + y, 0, a)
EventBytes(o) ==
    o.plain + 2 * Chars(o.evidence)
      + (IF o.kind = "diagnosis"
         THEN 2 * Chars(o.fixes) + Chars(o.scope) + Chars(o.missing)
              + o.basis + o.falsifier + o.alternative
         ELSE 0)

\* validate_context: ids and names that are present and fit.
ContextValid(ctx) ==
    /\ ctx.detector # "" /\ ctx.rule # ""
    /\ ctx.uuid7 /\ KeywordFits(ctx.host) /\ ctx.stamped

\* try_from_outcome: the reasons an outcome becomes no event, or the event.
Refused(why) == [accepted |-> FALSE, why |-> why, finding |-> FALSE]

DiagnosisRefusal(o, ctx) ==
    IF o.detector # ctx.detector \/ o.rule # ctx.rule THEN "contract"
    ELSE IF o.confidence \notin 0..100 THEN "confidence"
    ELSE IF o.evidence = <<>> \/ o.plain = 0 THEN "empty"
    ELSE IF ~(ArrayFits(o.evidence) /\ ArrayFits(o.fixes)
              /\ ArrayFits(o.scope) /\ ArrayFits(o.missing)) THEN "limit"
    ELSE IF o.basis = 0 \/ o.falsifier = 0 \/ o.scope = <<>> \/ o.alternative = 0 THEN "empty"
    ELSE IF o.finding /\ o.fixes = <<>> THEN "empty"
    ELSE IF DisplayChars(o.evidence) > MaxDisplayChars
            \/ DisplayChars(o.fixes) > MaxDisplayChars THEN "limit"
    ELSE IF ~KeywordFits(IF o.host = NoHost THEN ctx.host ELSE o.host) THEN "host"
    ELSE "none"

NotApplicableRefusal(o) ==
    IF o.evidence = <<>> \/ o.plain = 0 THEN "empty"
    ELSE IF ~ArrayFits(o.evidence) \/ DisplayChars(o.evidence) > MaxDisplayChars THEN "limit"
    ELSE "none"

\* As a release build does it: in a debug build a debug_assert_eq! panics on a
\* "not applicable" that is called a finding, which is what the fixture command
\* calls every outcome it reads.
try_from_outcome(o, ctx) ==
    LET why == IF o.kind = "diagnosis" THEN DiagnosisRefusal(o, ctx)
               ELSE NotApplicableRefusal(o)
    IN IF ~ContextValid(ctx) THEN Refused("context")
       ELSE IF why # "none" THEN Refused(why)
       ELSE IF EventBytes(o) > MaxEventBytes THEN Refused("bytes")
       ELSE [accepted |-> TRUE, why |-> "none", finding |-> o.kind = "diagnosis" /\ o.finding]
=============================================================================
