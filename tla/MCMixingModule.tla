---------------------------- MODULE MCMixingModule ----------------------------
EXTENDS MixingModule

Run(r)         == [type |-> "run", key |-> <<r, 0, 0>>, entry |-> -1]
Lumi(r, l)     == [type |-> "lumi", key |-> <<r, l, 0>>, entry |-> -1]
Event(r, l, e, n) == [type |-> "event", key |-> <<r, l, e>>, entry |-> n]

File(entries) == [found |-> TRUE, opens |-> TRUE, fallback |-> FALSE, entries |-> entries]

\* Two blocks, the second one first in the tree; a block without events.
F1 == File(<<Run(1), Lumi(1, 1), Event(1, 1, 1, 1), Event(1, 1, 2, 2), Lumi(1, 2), Event(1, 2, 3, 0)>>)
F2 == File(<<Run(1), Lumi(1, 1), Event(1, 1, 4, 0), Lumi(1, 3)>>)
F3 == File(<<Run(2), Lumi(2, 1)>>)
Fallback == [F2 EXCEPT !.opens = FALSE, !.fallback = TRUE]
Bad  == [F2 EXCEPT !.opens = FALSE]
Lost == [F2 EXCEPT !.found = FALSE]

PlayedSource(files, sequential, sameLumiBlock, skip, bunches, played) ==
  [files |-> files, sequential |-> sequential, sameLumiBlock |-> sameLumiBlock, skip |-> skip,
   skipBadFiles |-> TRUE, bunches |-> bunches, playback |-> played]

Source(files, sequential, sameLumiBlock, skip, bunches) ==
  PlayedSource(files, sequential, sameLumiBlock, skip, bunches, bunches)

Objects == {[label |-> "tracks", type |-> "SimTrack", frame |-> FALSE, input |-> "g4SimHits"], [label |-> "vertices", type |-> "SimVertex", frame |-> TRUE, input |-> "g4SimHits"],
            [label |-> "hits", type |-> "PSimHit", frame |-> TRUE, input |-> "g4SimHitsCTPPSPixelHits"],
            [label |-> "generator", type |-> "HepMCProduct", frame |-> TRUE, input |-> "generatorSmeared"]}

Writable == {o \in Objects : o.type # "HepMCProduct"}

\* The generated events under the label CFWriter puts, under both, and none.
Unsmeared == Writable \cup {[label |-> "unsmeared", type |-> "HepMCProduct", frame |-> TRUE, input |-> "generator"]}

All == {"tracks", "vertices", "hits", "generator", "unsmeared"}
Wide   == [first |-> -1, last |-> 1]
Narrow == [first |-> 0, last |-> 0]

Signals(lumi) == <<[id |-> <<1, lumi, 7>>, products |-> All, bunches |-> Narrow],
                   [id |-> <<1, 1, 8>>, products |-> {"tracks"}, bunches |-> Wide]>>

Job(sources, format, signals) == [sources |-> sources, objects |-> Objects, signals |-> signals, format |-> format, writer |-> FALSE]

Writing(objects) ==
  [Job(<<Source(<<F1>>, TRUE, FALSE, 0, {0})>>, "new", SubSeq(Signals(1), 1, 1)) EXCEPT !.writer = TRUE, !.objects = objects]

MCJobs ==
  { Writing(Objects), Writing(Unsmeared), Writing(Objects \cup Unsmeared), Writing(Writable),
    Job(<<Source(<<F1, F2>>, FALSE, FALSE, 0, -1 .. 1), Source(<<F2, F3, F1>>, TRUE, FALSE, 1, {0})>>, "new", Signals(1)),
    Job(<<Source(<<F1, F2, F3>>, TRUE, TRUE, 1, -1 .. 1), Source(<<F2, F1>>, FALSE, TRUE, 0, {-1, 0})>>, "new", Signals(2)),
    Job(<<Source(<<F1>>, TRUE, FALSE, 5, -1 .. 1), Source(<<Fallback, F1>>, FALSE, FALSE, 0, {1})>>, "old", Signals(1)),
    Job(<<Source(<<F3, F1>>, FALSE, TRUE, 0, -1 .. 1), PlayedSource(<<F1>>, TRUE, FALSE, 0, {-1, 0}, {0})>>, "new", Signals(3)),
    Job(<<PlayedSource(<<F1>>, TRUE, FALSE, 0, -1 .. 1, {1}), Source(<<F1>>, TRUE, FALSE, 0, {0})>>, "new", Signals(3)),
    Job(<<Source(<<F2, F1>>, FALSE, TRUE, 0, -1 .. 1)>>, "old", Signals(3)),
    Job(<<Source(<<Bad, F1, Lost>>, FALSE, FALSE, 0, -1 .. 1)>>, "old", Signals(1)),
    Job(<<Source(<<F1>>, TRUE, FALSE, 0, {}), Source(<<F2, F1>>, TRUE, TRUE, 0, {0})>>, "old", Signals(1)) }

=============================================================================
