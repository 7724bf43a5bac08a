--------------------------------- MODULE D6 ---------------------------------
(***************************************************************************)
(* Detector D6 (src/src/detectors/d6.rs): Gamescope mode overrides against *)
(* the modes of the connected display.                                     *)
(*                                                                         *)
(* modes.cfg is a sequence of lines, each blank, oversized, unparsable, or *)
(* an override [key, res, hz]; a resolution is a pair.  The DRM state is   *)
(*   [connectors, control, notes]                                          *)
(* with connectors a sequence of [name, card, edp, connected, edid, modes, *)
(* active], and control what gamescopectl reports: the connector's name,   *)
(* the display's name and the list of its refresh rates.                   *)
(***************************************************************************)
EXTENDS Contract, FiniteSets

\* modes.cfg, parsed: a line that is no override is evidence; a file with
\* nothing but such lines is an error, an empty one holds no override.
parse_modes_cfg(cfg) ==
    LET entries == {i \in DOMAIN cfg : cfg[i].kind = "override"}
        ignored == {i \in DOMAIN cfg : cfg[i].kind \notin {"override", "blank"}}
    IN [ok |-> entries # {} \/ ignored = {},
        entries |-> entries,
        notes |-> IF entries \cup ignored = {} THEN 1 ELSE Cardinality(ignored)]

-----------------------------------------------------------------------------
(* One override against its connector *)

Usable(c) == c.connected /\ c.edid /\ ~c.edp           \* is_connected_external
mode_set(c) == {c.modes[i] : i \in DOMAIN c.modes} \ {None}   \* None: unparsable
preferred(c) == IF c.modes = <<>> THEN None ELSE c.modes[1]

orientation_normalize(r) == IF r[1] >= r[2] THEN r ELSE <<r[2], r[1]>>

internal_native(state) ==
    {orientation_normalize(preferred(state.connectors[i])) :
        i \in {k \in DOMAIN state.connectors :
                  state.connectors[k].edp /\ preferred(state.connectors[k]) # None}}

\* find_gamescope_connector: the first of the name gamescopectl gives, for an
\* override of the display it names.
FindConnector(state, o) ==
    LET named == {i \in DOMAIN state.connectors :
                     state.connectors[i].name = state.control.connector}
    IN IF o.key # state.control.display \/ named = {} THEN None
       ELSE state.connectors[CHOOSE i \in named : \A k \in named : i <= k]

Mapped(state, o) == LET c == FindConnector(state, o) IN c # None /\ Usable(c)

\* invalid_mode: the pinned or the active mode is not one of the display's.
invalid_mode(o, c) ==
    \/ o.res \notin mode_set(c)
    \/ c.active # None /\ c.active \notin mode_set(c)

\* Less than half of the preferred area, and another shape (by over 1/20).
BadShape(res, pref) ==
    /\ 2 * res[1] * res[2] < pref[1] * pref[2]
    /\ LET cross == res[1] * pref[2] - pref[1] * res[2]
       IN 20 * (IF cross < 0 THEN -cross ELSE cross) > res[2] * pref[2]

\* degraded_mode: how many of its branches the pinned mode takes.
Branches(o, c, state) ==
    IF preferred(c) = None THEN 0
    ELSE (IF orientation_normalize(o.res) \in internal_native(state) THEN 1 ELSE 0)
         + (IF BadShape(o.res, preferred(c)) THEN 1 ELSE 0)

\* Lines of text, as their lengths: 1 stands for a length that fits.
Texts(n) == [i \in 1..n |-> 1]

\* The line that gives the refresh rates, none of which is the pinned one, is as long
\* as their list.
RatesLine(o, rates) ==
    IF rates # <<>> /\ o.hz \notin ToSet(rates) THEN <<1 + Len(rates)>> ELSE <<>>

\* The evidence lines a degraded override adds.
DegradedEvidence(o, c, state) ==
    Texts(2 + Branches(o, c, state) + (IF c.active # None THEN 1 ELSE 0))
       \o RatesLine(o, state.control.rates)

-----------------------------------------------------------------------------
(* The diagnosis *)

diagnosis(finding, verdict, confidence, evidence) ==
    Build([kind |-> "diagnosis", verdict |-> verdict, finding |-> finding,
           confidence |-> confidence, detector |-> "D6", rule |-> "d6.2", host |-> NoHost,
           evidence |-> evidence, fixes |-> Texts(IF finding THEN 2 ELSE 0),
           scope |-> <<1>>, missing |-> <<>>,
           plain |-> 1, basis |-> 1, falsifier |-> 1, alternative |-> 1])

no_override_outcome(notes) == diagnosis(FALSE, "ok", 70, Texts(notes))

NoBest == [verdict |-> "none", confidence |-> 0, evidence |-> <<>>]

\* Mutant: the last mapped override decides.
JudgeLast(state, acc, o) ==
    IF ~Mapped(state, o) THEN acc
    ELSE LET c == FindConnector(state, o)
         IN [acc EXCEPT !.mapped = @ + 1, !.fine = 1,
                !.best = IF invalid_mode(o, c)
                         THEN [verdict |-> "mode-override-invalid", confidence |-> 90, evidence |-> Texts(2)]
                         ELSE NoBest]

\* The loop over the overrides: the evidence so far, how many mapped, and
\* the finding to report.  The first invalid mode is kept unless a finding
\* came before it; a degraded one replaces a less confident finding.
Judge(state, acc, o) ==
    IF ~Mapped(state, o) THEN [acc EXCEPT !.notes = @ + 1]
    ELSE LET c == FindConnector(state, o)
             degraded == Branches(o, c, state)
             confidence == IF degraded >= 2 THEN 90 ELSE 85
             seen == [acc EXCEPT !.mapped = @ + 1]
         IN IF invalid_mode(o, c)
            THEN IF acc.best # NoBest THEN seen
                 ELSE [seen EXCEPT !.best = [verdict |-> "mode-override-invalid",
                                             confidence |-> 90, evidence |-> Texts(2)]]
            ELSE IF degraded > 0
            THEN IF confidence <= acc.best.confidence THEN seen
                 ELSE [seen EXCEPT !.best =
                          [verdict |-> "mode-override-degraded", confidence |-> confidence,
                           evidence |-> DegradedEvidence(o, c, state)]]
            ELSE [seen EXCEPT !.fine = @ + 1]

\* What the loop has when it is past the first n lines of modes.cfg.
Judged(cfg, state) ==
    LET p == parse_modes_cfg(cfg)
        start == [notes |-> p.notes + state.notes, mapped |-> 0, best |-> NoBest, fine |-> 0]
        past[n \in 0..Len(cfg)] ==
            IF n = 0 THEN start
            ELSE IF n \in p.entries THEN Judge(state, past[n - 1], cfg[n])
            ELSE past[n - 1]
    IN past

diagnose_inputs(cfg, state) ==
    LET p == parse_modes_cfg(cfg)
        end == Judged(cfg, state)[Len(cfg)]
    IN IF ~p.ok THEN Error
       ELSE IF p.entries = {} THEN no_override_outcome(p.notes)
       ELSE IF end.mapped = 0 THEN NotApplicable(Texts(end.notes))
       ELSE IF end.best # NoBest
       THEN diagnosis(TRUE, end.best.verdict, end.best.confidence,
                      Texts(end.notes) \o end.best.evidence)
       ELSE diagnosis(FALSE, "ok", 75, Texts(end.notes + end.fine))

-----------------------------------------------------------------------------
(* Live collection *)

\* What sysfs gives of a connector: the selected one must have its EDID, the
\* others may lack it.
Selected(c, ctl) == c.name = ctl.connector /\ c.connected
SysfsFails(c, ctl) == Selected(c, ctl) /\ (~c.edid \/ ~c.readable)

\* The connectors of sysfs with what gamescopectl says.
Controlled(drm, ctl) ==
    [connectors |-> drm.connectors, control |-> ctl, notes |-> drm.notes]

\* live_outcome, given how gamescopectl ended: a missing program or session
\* is no finding, a failed, silent or incomplete one is an error, and so are
\* two connectors of that name.
live_outcome(ctl, cfg, drm) ==
    LET usable == {i \in DOMAIN drm.connectors :
                      drm.connectors[i].name = ctl.connector /\ Usable(drm.connectors[i])}
    IN IF ctl.ended \in {"not_found", "no_session"} THEN NotApplicable(<<1>>)
       ELSE IF ctl.ended # "ok" THEN Error
       ELSE IF \E i \in DOMAIN drm.connectors : SysfsFails(drm.connectors[i], ctl) THEN Error
       ELSE IF usable = {} THEN NotApplicable(<<1>>)
       ELSE IF Cardinality(usable) > 1 THEN Error
       ELSE diagnose_inputs(cfg, Controlled(drm, ctl))

\* run_cli: both files, or neither.
run_cli(hasCfg, hasDrm, ctl, cfg, drm) ==
    CASE hasCfg /\ hasDrm -> diagnose_inputs(cfg, drm)
      [] ~hasCfg /\ ~hasDrm -> live_outcome(ctl, cfg, drm)
      [] OTHER -> Error
=============================================================================
