------------------------------- MODULE MCRootFile -------------------------------
(* The events of a file (scene "trees") and its metadata (scene "opening").    *)
EXTENDS RootFile, RootFileMetaData

VARIABLE scene

Ev(phid, run, lumi, event) == [phid |-> phid, run |-> run, lumi |-> lumi, event |-> event]
Run(phid, run)  == [phid |-> phid, run |-> run]
Lumi(run, lumi) == [run |-> run, lumi |-> lumi]

\* Stored indexes.
RunEntryOf(o, entry, run) ==
  [orderRun |-> o, orderLumi |-> -1, entry |-> entry, phid |-> 0, run |-> run, lumi |-> 0, first |-> -1, end |-> -1]
LumiEntryOf(o, l, entry, run, lumi, first, end) ==
  [orderRun |-> o, orderLumi |-> l, entry |-> entry, phid |-> 0, run |-> run, lumi |-> lumi, first |-> first, end |-> end]

Cached == [autoFlush |-> 1, learning |-> 2, caching |-> TRUE]

Base(evts, runs, lumis) ==
  [events |-> evts, runs |-> runs, lumis |-> lumis, old |-> TRUE, index |-> <<>>, sort |-> FALSE, check |-> FALSE,
   before |-> {}, skip |-> {}, maxEvents |-> -1, maxLumis |-> -1, setRun |-> 0, tree |-> Cached, bad |-> {}]

\* Two runs with the same lumi number, an empty run before and an empty lumi
\* between them; a lumi that comes back; a run with two histories.
TwoRuns   == Base(<<Ev(0, 2, 1, 5), Ev(0, 2, 1, 3), Ev(0, 3, 1, 1)>>, <<Run(0, 3), Run(0, 2), Run(0, 1)>>,
                  <<Lumi(3, 1), Lumi(2, 2), Lumi(2, 1), Lumi(1, 4), Lumi(2, 1)>>)
ComesBack == Base(<<Ev(0, 1, 1, 1), Ev(0, 1, 2, 2), Ev(0, 1, 1, 3)>>, <<Run(0, 1)>>, <<Lumi(1, 1), Lumi(1, 2)>>)
Histories == Base(<<Ev(1, 1, 1, 1), Ev(0, 1, 1, 2), Ev(0, 4, 1, 2)>>, <<Run(1, 1), Run(0, 1), Run(0, 4)>>, <<Lumi(1, 1), Lumi(4, 1)>>)
NoTrees   == Base(<<Ev(0, 1, 1, 2), Ev(0, 1, 1, 1)>>, <<>>, <<>>)
Orphan    == Base(<<Ev(0, 1, 1, 1)>>, <<Run(0, 1)>>, <<Lumi(1, 1), Lumi(2, 1)>>)
RunMissing == Base(<<Ev(0, 1, 1, 1), Ev(0, 2, 1, 1)>>, <<Run(0, 1)>>, <<Lumi(1, 1), Lumi(2, 1)>>)

Current == [Base(<<Ev(0, 1, 1, 1), Ev(0, 1, 1, 2), Ev(0, 1, 2, 3)>>, <<Run(0, 1)>>, <<Lumi(1, 1), Lumi(1, 2)>>) EXCEPT
             !.old = FALSE,
             !.index = <<RunEntryOf(0, 0, 1), LumiEntryOf(0, 0, 0, 1, 1, 0, 2), LumiEntryOf(0, 1, 1, 1, 2, 2, 3)>>]
Unsorted == [Current EXCEPT !.events = <<Ev(0, 1, 1, 2), Ev(0, 1, 1, 1), Ev(0, 1, 2, 3)>>]
Repeated == [Current EXCEPT !.events = <<Ev(0, 1, 1, 1), Ev(0, 1, 1, 1), Ev(0, 1, 2, 3)>>]

SomeJobs ==
  {TwoRuns, [TwoRuns EXCEPT !.sort = TRUE], ComesBack, [ComesBack EXCEPT !.sort = TRUE], Histories, NoTrees,
   [NoTrees EXCEPT !.sort = TRUE], Orphan, RunMissing,
   [Current EXCEPT !.tree.learning = 1, !.bad = {<<"p", 1>>}], [Current EXCEPT !.tree.caching = FALSE],
   [Current EXCEPT !.tree.autoFlush = 0, !.maxEvents = 3, !.maxLumis = 2],
   [Current EXCEPT !.tree.autoFlush = 2, !.check = TRUE], [Current EXCEPT !.maxEvents = 2, !.tree.autoFlush = 2], [Current EXCEPT !.maxLumis = 1],
   [Current EXCEPT !.setRun = 7], [Current EXCEPT !.before = {<<1, 1, 2>>}, !.check = TRUE],
   [Current EXCEPT !.skip = {<<1, 1, 2>>}],
   [Unsorted EXCEPT !.sort = TRUE], Unsorted, [Repeated EXCEPT !.check = TRUE], [Repeated EXCEPT !.sort = TRUE], [Current EXCEPT !.sort = TRUE],
   Base(<<>>, <<Run(0, 1)>>, <<Lumi(1, 1)>>), [Current EXCEPT !.setRun = 1],
   [TwoRuns EXCEPT !.runs = <<Run(0, 3), Run(0, 2)>>, !.lumis = <<>>, !.setRun = 1]}

-------------------------------------------------------------------------------
\* Generations of the format (FileFormatVersion).
Oldest   == {"eventHistoryBranch"}
PerEvent == {"perEventProductIDs", "eventHistoryTree", "runsAndLumis"}
Split    == PerEvent \cup {"splitProductIDs"}
Tracked  == Split \cup {"triggerPathsTracked", "parameterSetsTree", "processHistorySameWithinRun"}
NoTree   == (Tracked \ {"eventHistoryTree"}) \cup {"noMetaDataTrees"}
Stored   == NoTree \cup {"storedProductProvenanceUsed"}
Thinned  == Stored \cup {"hasThinnedAssociations"}

\* What a file of a format has.
Has0(format) ==
  {"MetaData", "Events", IF "parameterSetsTree" \in format THEN "ParameterSets" ELSE "ParameterSetMap"}
    \cup {t \in {"EventHistory"} : "eventHistoryTree" \in format}
    \cup {t \in {"BranchIDLists"} : "splitProductIDs" \in format}
    \cup {t \in {"ThinnedAssociations"} : "hasThinnedAssociations" \in format}
    \cup {t \in {"Parentages"} : "eventHistoryBranch" \notin format}

Process(name, pset, release) == [process |-> name, pset |-> pset, release |-> release]
SIM == <<Process("SIM", "ps1", 1), Process("RECO", "ps2", 1)>>
RAW == <<Process("HLT", "ps1", 1), Process("RECO", "ps2", 2)>>

Product(id, process, type) ==
  [id |-> id, branch |-> id, newBranch |-> id, process |-> process, type |-> type, thinned |-> FALSE, mergeable |-> FALSE]

\* Digis, hits made of them, tracks of the hits, a thinned collection of tracks
\* with its association, a summary of the run.
SomeProducts ==
  <<Product("tracks", "RECO", "Event"), Product("hits", "RECO", "Event"), Product("digis", "SIM", "Event"),
    Product("thin", "RECO", "Event"), Product("thinner", "RECO", "Event"),
    [Product("assoc", "RECO", "Event") EXCEPT !.thinned = TRUE], [Product("assoc2", "RECO", "Event") EXCEPT !.thinned = TRUE],
    [Product("summary", "RECO", "Run") EXCEPT !.mergeable = TRUE]>>
AllIds == {SomeProducts[i].id : i \in DOMAIN SomeProducts}

Good(format) ==
  [type |-> "Primary", selected |-> AllIds, dropDescendants |-> TRUE, bypassVersionCheck |-> FALSE,
   format |-> format, has |-> Has0(format), psets |-> {"ps1", "ps2"},
   convert |-> IF "triggerPathsTracked" \in format THEN <<>> ELSE [x \in {"ps1"} |-> "new1"],
   histories |-> {SIM, RAW}, products |-> SomeProducts, branches |-> AllIds,
   children |-> {<<"digis", "hits">>, <<"hits", "tracks">>, <<"tracks", "thin">>, <<"tracks", "assoc">>, <<"thin", "thinner">>, <<"thin", "assoc2">>},
   associations |-> {[id |-> "assoc", parent |-> "tracks", thinned |-> "thin"], [id |-> "assoc2", parent |-> "thin", thinned |-> "thinner"]},
   lists |-> <<[process |-> "SIM", ids |-> <<"digis">>], [process |-> "RECO", ids |-> <<"hits", "tracks">>]>>,
   parents |-> <<{}, {"digis"}, {"hits"}>>,
   parentages |-> <<[id |-> {}, parents |-> {}], [id |-> {"digis"}, parents |-> {"digis"}], [id |-> {"hits"}, parents |-> {"hits"}]>>,
   events |-> <<[key |-> 7, history |-> SIM, indexes |-> {1, 2}, stored |-> {<<"digis", 0>>, <<"hits", 1>>}],
                [key |-> 3, history |-> RAW, indexes |-> {2}, stored |-> {<<"hits", 1>>, <<"tracks", 2>>}]>>,
   runHistory |-> SIM, lumi |-> 0, fault |-> ""]

Bad(o, fault) == [o EXCEPT !.fault = fault]
Without(o, what, fault) == Bad([o EXCEPT !.has = @ \ {what}], fault)

SomeOpenings ==
  {Good(f) : f \in {Oldest, PerEvent, Split, Tracked, NoTree, Stored, Thinned}} \cup
  {[Good(Thinned) EXCEPT !.type = t, !.selected = AllIds \ d, !.dropDescendants = b] :
     t \in {"Primary", "SecondaryFile", "SecondarySource"}, b \in BOOLEAN,
     d \in {{"hits"}, {"thin"}, {"thin", "thinner"}, {"assoc", "summary"}}} \cup
  {[Good(f) EXCEPT !.type = "SecondarySource"] : f \in {PerEvent, Split}} \cup
  {Without(Good(Stored), "MetaData", "FileReadError"), Without(Good(Stored), "ParameterSets", "FileReadError"),
   Without(Good(PerEvent), "ParameterSetMap", "assert"), Without(Good(Tracked), "EventHistory", "EventCorruption"),
   Without(Good(Split), "BranchIDLists", "EventCorruption"), Without(Good(Thinned), "ThinnedAssociations", "EventCorruption"),
   Without(Good(NoTree), "Events", "EventCorruption"), Without(Good(Stored), "Parentages", "FileReadError"),
   Bad([Good(Stored) EXCEPT !.has = @ \cup {"ParameterSetMap"}], "assert"),
   Bad([Good(PerEvent) EXCEPT !.parentages[2].id = {"hits"}], "EventCorruption"),
   Bad([Good(PerEvent) EXCEPT !.histories = {}], "assert"),
   Bad([Good(Stored) EXCEPT !.parentages = SubSeq(@, 1, 2)], "LogicError"),
   Bad([Good(Stored) EXCEPT !.histories = {<<Process("SIM", "ps1", 9)>>}], "FormatIncompatibility"),
   Bad([Good(Stored) EXCEPT !.products[1].newBranch = "localTracks"], "UnimplementedFeature"),
   [Good(PerEvent) EXCEPT !.products[1].newBranch = "localTracks", !.selected = AllIds \ {"tracks"}],
   [Good(Oldest) EXCEPT !.branches = AllIds \ {"assoc"}],
   [Good(Stored) EXCEPT !.histories = @ \cup {<<Process("SIM", "ps1", 9)>>}, !.bypassVersionCheck = TRUE]}

-------------------------------------------------------------------------------
AllInit ==
  /\ scene \in {"trees", "opening"}
  /\ Init /\ MetaInit
  /\ scene = "trees" => opening = Good(Stored)
  /\ scene = "opening" => job = NoTrees

AllNext ==
  \/ scene = "trees" /\ Next /\ UNCHANGED <<scene, metaVars>>
  \/ scene = "opening" /\ MetaNext /\ UNCHANGED <<scene, vars>>

AllSpec == AllInit /\ [][AllNext]_<<scene, vars, metaVars>>

\* A file means to its readers what its writer meant: its index is that of its
\* trees, and its metadata is understood whatever the generation of the format.
FilesAreReadAsWritten == IndexCoversTheTrees /\ MetaDataIsRead
===============================================================================
