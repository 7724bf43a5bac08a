---------------------------- MODULE MCCollectors ----------------------------
(* Instances of Collectors for TLC. *)
EXTENDS Collectors

MCCores == <<"cpu0", "cpu1">>
MCDisks == <<"loop0", "sda">>
MCInterfaces == <<"lo", "eth0", "wlan0">>
MCVirtual == {"loop0", "lo"}
MCEngines == <<{"dec", "gfx"}, {"enc"}, {"gfx"}>>
MCPipes == <<"new", "old">>

Fifo(there, opens, writer) == [there |-> there, opens |-> opens, writer |-> writer, lines |-> <<>>]

Quiet ==
    [clock |-> 0, moves |-> 0, procs |-> 0, writes |-> 0, rows |-> 0, games |-> 0,
     faults |-> {}, stops |-> FALSE, link |-> None,
     fifos |-> [s \in Sessions |-> Fifo(FALSE, TRUE, FALSE)]]

\* Sources that count and go, and files that fail; processes and their descriptors.
Counters ==
    {[Quiet EXCEPT !.clock = 2, !.moves = 2],
     [Quiet EXCEPT !.clock = 2, !.moves = 1, !.faults = {"files"}],
     [Quiet EXCEPT !.clock = 2, !.procs = 4]}

\* Gamescope and MangoHud under games that come and go.
OneFifo == [Quiet.fifos EXCEPT !["new"] = Fifo(TRUE, TRUE, TRUE)]
TwoFifos == [Quiet.fifos EXCEPT !["new"] = Fifo(TRUE, TRUE, FALSE), !["old"] = Fifo(TRUE, TRUE, TRUE)]
Plays ==
    {[Quiet EXCEPT !.fifos = OneFifo, !.writes = 2, !.games = 3],
     [Quiet EXCEPT !.fifos = OneFifo, !.writes = 2, !.games = 1, !.stops = TRUE, !.faults = {"fifos"}],
     [Quiet EXCEPT !.fifos = TwoFifos, !.link = "old", !.writes = 2, !.games = 1],
     [Quiet EXCEPT !.fifos = [OneFifo EXCEPT !["new"].opens = FALSE], !.rows = 1, !.games = 1, !.stops = TRUE],
     [Quiet EXCEPT !.fifos = OneFifo, !.rows = 2, !.writes = 1, !.games = 1],
     [Quiet EXCEPT !.rows = 4, !.games = 1, !.faults = {"logs"}]}

MCWorkloads == Counters \cup Plays

\* Two FIFOs no one writes to while a game is played, and then the lower one's writer.
TwoStale == {[Quiet EXCEPT !.fifos = [TwoFifos EXCEPT !["old"].writer = FALSE], !.writes = 2, !.games = 1]}
=============================================================================
