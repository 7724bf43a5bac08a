------------------------------- MODULE MCCli -------------------------------
\* The command lines, journals, displays and tiers of the runs of Cli.
EXTENDS Cli

\* --- diagnose display ---
Line(kind) == [kind |-> kind, key |-> "", res |-> <<0, 0>>, hz |-> 0]
Pin(key, res, hz) == [kind |-> "override", key |-> key, res |-> res, hz |-> hz]
Panel == [name |-> "eDP-1", card |-> 0, edp |-> TRUE, connected |-> TRUE, edid |-> TRUE,
          readable |-> TRUE, modes |-> <<<<8, 12>>>>, active |-> None]
External(modes, active, edid) ==
    [name |-> "HDMI-1", card |-> 0, edp |-> FALSE, connected |-> TRUE, edid |-> edid,
     readable |-> TRUE, modes |-> modes, active |-> active]
CfgLines == {Line("blank"), Line("junk"), Pin("TV", <<12, 8>>, 60), Pin("TV", <<30, 20>>, 60),
             Pin("TV", <<9, 9>>, 30), Pin("Other", <<30, 20>>, 60)}
Cfgs == UNION {[1..n -> CfgLines] : n \in 0..2}
          \cup {<<Pin("TV", <<30, 20>>, 60)>> \o [i \in 1..n |-> Line("junk")] \o <<Pin("TV", <<12, 8>>, 60)>> :
                   n \in 2..4}
Modes == {<<>>, <<<<30, 20>>, <<12, 8>>>>, <<<<30, 20>>, None>>, <<<<30, 20>>, <<9, 9>>, <<12, 8>>>>}
Externals == {External(m, a, e) : m \in Modes, a \in {None, <<30, 20>>, <<1, 1>>}, e \in BOOLEAN}
Controls == [ended : {"ok", "not_found", "no_session", "failed"}, connector : {"HDMI-1"},
             display : {"TV"}, rates : {<<>>, <<60>>, <<50>>, <<30, 50>>}]
Control == [ended |-> "ok", connector |-> "HDMI-1", display |-> "TV", rates |-> <<60>>]
Drm(cs) == [connectors |-> cs, control |-> Control, notes |-> 0]
Divergent(d) == [d EXCEPT !.control.rates = <<30, 50>>]
Drms == UNION {{Drm(<<e>>), Drm(<<Panel, e>>)} : e \in Externals}
          \cup {Drm(<<e, e>>) : e \in Externals}
          \cup {Divergent(Drm(<<Panel, e>>)) : e \in Externals}
DisplayCalls ==
    {[cmd |-> "display", hasCfg |-> TRUE, hasDrm |-> TRUE, ctl |-> Control, cfg |-> c, drm |-> d] :
        c \in Cfgs, d \in Drms}
    \cup {[cmd |-> "display", hasCfg |-> f, hasDrm |-> FALSE, ctl |-> l, cfg |-> c, drm |-> d] :
        f \in BOOLEAN, l \in Controls, d \in Drms,
        c \in {<<>>, <<Pin("TV", <<12, 8>>, 60)>>, <<Pin("TV", <<30, 20>>, 60)>>}}

\* --- diagnose gpu-boot ---
Gpu == [bdf |-> "gpu", id |-> "dgpu", bridge |-> FALSE, up |-> "bridge"]
Bridge == [bdf |-> "bridge", id |-> "br", bridge |-> TRUE, up |-> None]
Row(d) == [ok |-> TRUE, dev |-> d]
Snapshots == {[boot |-> "b1", rows |-> r] :
                 r \in {<<Row(Bridge), Row(Gpu)>>, <<Row(Bridge)>>, <<Row(Gpu)>>, <<>>,
                        <<Row(Bridge), Row(Bridge)>>, <<Row(Bridge), [ok |-> FALSE, dev |-> Gpu]>>}}
                \cup {[boot |-> b, rows |-> <<Row(Bridge), Row(Gpu)>>] : b \in {"bad", "b0"}}
Baseline == [slot |-> "gpu", id |-> "dgpu", up |-> "bridge", learned |-> "b0"]
States == {Empty, [baseline |-> Baseline, pending |-> None], [baseline |-> Baseline, pending |-> "b0"],
           [baseline |-> None, pending |-> "b0"]}
Span(boot, from, to) == [boot |-> boot, from |-> from, to |-> to, fromZone |-> 0, toZone |-> 0]
Inventories == {None, <<Span("b1", 6, 8)>>,
                <<Span("b0", 1, 4), Span("b1", 6, 8)>>}

Entry(t, indent, kernel, says) ==
    [t |-> t, zone |-> 0, indent |-> indent, kernel |-> kernel, bdf |-> "gpu", says |-> says]
JournalLines ==
    {Entry(t, FALSE, TRUE, s) : t \in {2, 7}, s \in {"smu", "reset"}}
    \cup {Entry(4, FALSE, TRUE, s) : s \in {"smu", "recovered"}}
    \cup {Entry(t, FALSE, FALSE, "other") : t \in {NoStamp, 3, 5}}
    \cup {Entry(NoStamp, TRUE, TRUE, "smu")}
Journals == UNION {[1..n -> JournalLines] : n \in 1..3}
              \cup {<<a, b, c, d>> : a \in JournalLines, b \in {Entry(2, FALSE, TRUE, "smu")},
                                     c \in JournalLines, d \in JournalLines}
KernelOf(j) == LET k == SelectSeq(j, LAMBDA l : l.kernel) IN IF k = <<>> THEN None ELSE k
GpuCall(pci, state, list, current, journal, keep) ==
    [cmd |-> "gpu-boot", offline |-> TRUE, learn |-> FALSE, reset |-> FALSE, slot |-> None,
     pci |-> pci, state |-> state, bootId |-> "b1", list |-> list, current |-> current,
     whole |-> journal, kernel |-> KernelOf(journal),
     tail |-> IF keep = 0 THEN None
              ELSE SubSeq(journal, Len(journal) - keep + 1, Len(journal))]
Healthy == [boot |-> "b1", rows |-> <<Row(Bridge), Row(Gpu)>>]
Fault == <<Entry(2, FALSE, TRUE, "smu"), Entry(3, FALSE, TRUE, "smu"), Entry(4, FALSE, TRUE, "reset")>>
Off(bdf) == [t |-> 7, zone |-> 0, indent |-> FALSE, kernel |-> TRUE, bdf |-> bdf, says |-> "linkdown"]
Currents == {None, <<>>, <<Off("bridge")>>, <<Off("")>>, <<Off("other")>>,
             <<Entry(7, FALSE, TRUE, "other")>>, <<Entry(3, FALSE, TRUE, "other")>>}
Known == [baseline |-> Baseline, pending |-> None]
Boots == <<Span("b0", 1, 4), Span("b1", 6, 8)>>
\* A fault logged d later, and in other zones; an inventory across a change of the clock.
Logged(d, zones) == [n \in DOMAIN Fault |-> [Fault[n] EXCEPT !.t = @ + d, !.zone = zones[n]]]
Changed(from, to) == <<[Boots[1] EXCEPT !.fromZone = from, !.toZone = to], Boots[2]>>
GpuCalls ==
    {GpuCall(Healthy, Known, Boots, None, p[1], p[2]) :
        p \in {q \in Journals \X (0..4) : q[2] <= Len(q[1]) /\ (q[2] = 0 => Len(q[1]) < 3)}}
    \cup {[GpuCall(p, s, l, None, Fault, 2) EXCEPT !.learn = f = "learn", !.reset = f = "reset",
                                                  !.slot = IF f = "learn" THEN "gpu" ELSE None,
                                                  !.bootId = b, !.offline = (f # "live")] :
        p \in Snapshots, s \in States, l \in Inventories,
        f \in {"diagnose", "learn", "reset", "live"}, b \in {None, "b1", "bad"}}
    \cup {GpuCall(Healthy, Known, Changed(f, t), None, Logged(d, z), 2) :
              f \in {0, 1}, t \in {0, 1}, d \in {0, 3, 5}, z \in [1..3 -> {0, 1, -5}]}
    \cup {GpuCall(p, s, l, c, Fault, 2) : p \in Snapshots, s \in States, l \in Inventories, c \in Currents}

\* --- handshake check: one group of tiers varied at a time ---
NoPair == [uuid |-> None, pending |-> None]
Good == [config |-> "good", policy |-> None, endpoint |-> <<None, None, "url">>,
         generation |-> <<"g1", None, None>>, flag |-> NoPair, env |-> NoPair,
         file |-> [uuid |-> "c1", pending |-> None],
         ca |-> <<None, None, None>>, credFile |-> <<None, None>>, credValues |-> "key"]
Pairs == {NoPair, [uuid |-> "c1", pending |-> None], [uuid |-> "bad", pending |-> None],
          [uuid |-> None, pending |-> "yes"], [uuid |-> None, pending |-> "no"],
          [uuid |-> "c2", pending |-> "yes"]}
Tier == {None, "good", "bad"}
MCInputs ==
    {[Good EXCEPT !.flag = f, !.env = e, !.file = c, !.policy = p] :
        f \in Pairs, e \in {NoPair, [uuid |-> "c2", pending |-> None], [uuid |-> None, pending |-> "yes"]},
        c \in Pairs, p \in {None, "c1", "pending"}}
    \cup {[Good EXCEPT !.endpoint = e, !.ca = a] : e \in [1..3 -> Tier], a \in {<<None>>, <<"bad">>}}
    \cup {[Good EXCEPT !.generation = g, !.config = c] : g \in [1..3 -> Tier], c \in {"good", "bad"}}
    \cup {[Good EXCEPT !.credFile = f, !.credValues = v, !.policy = p] :
             f \in [1..2 -> Tier], v \in Tier, p \in {None, "bad"}}
MCVersionLists == {<<>>, <<1>>, <<2, 1>>, <<1, 0>>, <<1, 2, 3>>, <<2>>}

MCCalls == DisplayCalls \cup GpuCalls \cup {[cmd |-> "handshake"]}
MCContexts == {[detector |-> d[1], rule |-> d[2], uuid7 |-> u, host |-> 1, stamped |-> TRUE] :
                  d \in {<<"D3", "d3.1">>, <<"D6", "d6.2">>}, u \in BOOLEAN}
=============================================================================
