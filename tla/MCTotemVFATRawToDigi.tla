------------------------ MODULE MCTotemVFATRawToDigi ---------------------------
EXTENDS RawToDigiJob, TotemDAQTrigger

VARIABLE scene

\* A checksum that depends on the place of every word.
Checksum(words) == Bits(SumSet({i * 4096 + Number(words[i]) : i \in 1 .. 11}) % 65536)

\* Nodes of the XML files.
Node(type, id, children) == [type |-> type, id |-> <<id>>, hwID |-> <<>>, attributes |-> <<>>, full |-> FALSE, children |-> children]
Arms(a, s, p, planes) == Node("arm", a, <<Node("station", s, <<Node("pot", p, planes)>>)>>)
Chip(type, id, p, hwID) ==
  [Node(type, id, <<>>) EXCEPT !.attributes = [FEDId |-> p[1], GOHId |-> p[2], IdxInFiber |-> p[3]], !.hwID = <<hwID>>]
OldChip(type, id, p, hwID) ==
  [Chip(type, id, p, hwID) EXCEPT !.attributes = [SubSystemId |-> p[1] \div 128, TOTFEDId |-> (p[1] \div 4) % 32, OptoRxId |-> p[1] % 4,
                                                  GOHId |-> p[2], IdxInFiber |-> p[3]]]
Roc(id, p) == [Node("roc", id, <<>>) EXCEPT !.attributes = [FEDId |-> p[1], FMC |-> p[2], FEDChannel |-> p[3], ROCinChannel |-> p[4]]]
Masked(type, id, full, parts) ==
  [Node(type, id, [i \in DOMAIN parts |-> [type |-> IF type = "roc" THEN "pixel" ELSE "channel", masks |-> parts[i]]]) EXCEPT !.full = full]

\* Five chips of two planes of strips, one position twice, one masked in part, one
\* fully; later, two of them are swapped.
Strips(h1, h2) ==
  <<Arms(0, 0, 1, <<Node("rp_plane", 3, <<Chip("chip", 0, <<21, 0, 0>>, 9), Node("trigger_vfat", 0, <<>>), Chip("chip", 0, <<21, 0, 0>>, 4096 + h1),
                                          OldChip("chip", 1, <<21, 0, 1>>, h2), Chip("chip", 2, <<21, 1, 0>>, 102)>>)>>),
    Arms(1, 2, 4, <<Node("rp_plane", 9, <<OldChip("chip", 0, <<22, 0, 0>>, 103), Chip("chip", 1, <<22, 0, 1>>, 104)>>)>>)>>
StripMask ==
  <<Arms(0, 0, 1, <<Node("rp_plane", 3, <<Masked("chip", 1, TRUE, <<>>), Masked("chip", 1, FALSE, <<<<3>>, <<127>>>>)>>)>>),
    Arms(1, 2, 4, <<Node("rp_plane", 9, <<Masked("chip", 1, TRUE, <<>>)>>)>>)>>

\* The same positions on channels of diamonds; a strip chip in the file is not theirs.
Diamonds ==
  <<Arms(0, 1, 6, <<Node("rp_plane_diamond", 3, <<Chip("diamond_channel", 0, <<21, 0, 0>>, 4096 + 100), Chip("diamond_channel", 11, <<21, 0, 1>>, 101)>>),
                    Node("rp_plane_diamond", 0, <<Chip("diamond_channel", 3, <<21, 1, 0>>, 102)>>)>>),
    Arms(1, 1, 6, <<Node("rp_plane_diamond", 1, <<Chip("diamond_channel", 10, <<22, 0, 0>>, 103), Chip("diamond_channel", 1, <<22, 0, 1>>, 104)>>)>>)>>
DiamondMask == <<Arms(0, 1, 6, <<Node("rp_plane_diamond", 3, <<Masked("diamond_channel", 0, TRUE, <<>>)>>)>>)>>

\* The unpacker looks for <<FED, 0, 2, 1>>, which the first file does not have of one FED.
Pixels(roc, other) ==
  <<Arms(1, 2, 3, <<Node("rpix_plane", 5, <<Roc(4, <<1462, 1, 6, 0>>), Roc(roc, <<1462, 0, 2, 1>>)>>),
                    Node("rpix_plane", 0, <<Roc(3, <<1463, other, 2, 1>>)>>)>>)>>
PixelMask(roc) == <<Arms(1, 2, 3, <<Node("rpix_plane", 5, <<Masked("roc", roc, FALSE, <<<<79, 51>>, <<0, 7>>>>), Masked("roc", 1, TRUE, <<>>)>>)>>)>>

Broken(fault) ==
  CASE fault = "tag" -> <<Node("table", 0, <<>>)>>
    [] fault = "place" -> <<Arms(0, 0, 1, <<Chip("chip", 0, <<21, 0, 0>>, 1)>>)>>
    [] fault = "plane" -> <<Arms(0, 0, 1, <<Node("rp_plane", 10, <<>>)>>)>>
    [] fault = "id" -> <<[Node("arm", 0, <<>>) EXCEPT !.id = <<>>]>>
    [] fault = "hwID" -> <<Arms(0, 0, 1, <<Node("rp_plane", 3, <<[Chip("chip", 0, <<21, 0, 0>>, 1) EXCEPT !.hwID = <<>>]>>)>>)>>
    [] fault = "position" -> <<Arms(0, 0, 1, <<Node("rp_plane", 3, <<[Chip("chip", 0, <<21, 0, 0>>, 1) EXCEPT !.attributes = [OptoRxId |-> 1, GOHId |-> 0, IdxInFiber |-> 0]]>>)>>)>>
    [] fault = "pot" -> <<Arms(0, 0, 7, <<Node("rp_plane", 3, <<Chip("chip", 0, <<21, 0, 0>>, 1)>>)>>)>>
Faults == {"tag", "place", "plane", "id", "hwID", "position", "pot"}

SomeFiles ==
  [f \in {"strips", "strips later", "strip mask", "diamonds", "diamond mask", "pixels", "pixels later", "pixel mask", "pixel mask later",
          "bad mask"} \cup Faults |->
     CASE f = "strips" -> Strips(100, 101) [] f = "strips later" -> Strips(101, 100) [] f = "strip mask" -> StripMask
       [] f = "diamonds" -> Diamonds [] f = "diamond mask" -> DiamondMask
       [] f = "pixels" -> Pixels(1, 1) [] f = "pixels later" -> Pixels(2, 0) [] f = "pixel mask" -> PixelMask(0) [] f = "pixel mask later" -> PixelMask(2)
       [] f = "bad mask" -> <<Arms(0, 0, 1, <<Node("rp_plane", 3, <<Masked("chip", 1, TRUE, <<<<>>>>)>>)>>)>>
       [] OTHER -> Broken(f)]
MalformedFiles == Faults \cup {"bad mask"}

Period(first, last, mapping, mask) == [first |-> first, last |-> last, mappingFileNames |-> mapping, maskFileNames |-> mask]
Source(subSystem, times, periods) == [subSystem |-> subSystem, times |-> times, configuration |-> periods]

\* Run 1 with two luminosity blocks and run 2; two of the times are events.
Times == <<EventID(1, 0, 0), EventID(1, 1, 0), EventID(1, 1, 5), EventID(1, 2, 0), EventID(2, 0, 0), EventID(2, 1, 7)>>
FirstPeriod == Period(EventID(1, 0, 1), EventID(1, 2, 99), <<"strips">>, <<"strip mask">>)
SomeSources ==
  {Source("TrackingStrip", Times, <<FirstPeriod, Period(EventID(2, 0, 0), EventID(9, 0, 0), <<"strips", "strips later">>, <<"strip mask">>)>>),
   \* A gap between the blocks, and blocks that overlap.
   Source("TrackingStrip", Times, <<Period(EventID(2, 0, 1), EventID(9, 0, 0), <<"strips later">>, <<>>), FirstPeriod>>),
   Source("TimingDiamond", Times, <<Period(EventID(1, 0, 1), EventID(9, 0, 0), <<"diamonds">>, <<"diamond mask">>)>>),
   Source("TrackingPixel", Times, <<Period(EventID(1, 0, 1), EventID(1, 1, 5), <<"pixels">>, <<"pixel mask">>),
                                    Period(EventID(1, 1, 2), EventID(9, 0, 0), <<"pixels", "pixels later">>, <<"pixel mask later">>)>>)} \cup
  {Source("TrackingStrip", <<EventID(1, 0, 0)>>, <<Period(EventID(1, 0, 1), EventID(9, 0, 0), <<"strips", f>>, <<>>)>>) : f \in Faults} \cup
  {Source("TrackingStrip", <<EventID(1, 0, 0)>>, <<Period(EventID(1, 0, 1), EventID(9, 0, 0), <<"strips">>, <<"bad mask">>)>>)}

\* Clusters <<position, size>>; size 0 is a full chip, 208 a number of clusters.
Cluster(goh, fiber, ec, id, clusters, hits) ==
  [kind |-> "cluster", goh |-> goh, fiber |-> fiber, bc |-> 7, ec |-> ec, id |-> id, hits |-> hits,
   clusters |-> clusters, crc |-> TRUE, errors |-> 0, size |-> 0]
Raw(goh, fiber, ec, id, hits) == [Cluster(goh, fiber, ec, id, <<>>, hits) EXCEPT !.kind = "raw"]
Padding == [Raw(0, 0, 0, 0, {}) EXCEPT !.kind = "padding"]
Unknown == [Raw(0, 0, 0, 0, {}) EXCEPT !.kind = "unknown"]

Parallel(optoRx, items) == [short |-> FALSE, structured |-> TRUE, FOV |-> 2, optoRx |-> optoRx, items |-> items, blocks |-> <<>>]
SerialFED(optoRx, blocks) == [Parallel(optoRx, <<>>) EXCEPT !.FOV = 1, !.blocks = blocks]
GOHBlock(goh, fibers) == [active |-> TRUE, structured |-> TRUE, goh |-> goh, fibers |-> fibers]

A == Cluster(0, 0, 25, 100, <<<<3, 2>>, <<17, 1>>>>, {2, 3, 17})
B == Raw(0, 1, 25, 101, {3, 64, 85, 127})
C == Cluster(1, 0, 25, 102, <<<<127, 0>>, <<5, 208>>, <<130, 1>>>>, 0 .. 127)
D == Raw(0, 0, 25, 103, {64, 68, 80, 95})
F == Raw(0, 1, 25, 104, {0, 66, 67})

Full == 21 :> Parallel(21, <<A, Padding, B, Unknown, C>>) @@ 22 :> Parallel(22, <<D, F>>)

SomeEvents ==
  {Full,
   \* A chip twice, one not in the mapping, a number of words that is wrong.
   21 :> Parallel(21, <<[B EXCEPT !.size = 1], A, [A EXCEPT !.hits = {1}, !.clusters = <<<<1, 1>>>>], Raw(4, 4, 25, 1, {5}), C>>)
     @@ 22 :> SerialFED(22, <<GOHBlock(0, 0 :> D @@ 1 :> F), [GOHBlock(3, 0 :> D) EXCEPT !.active = FALSE]>>),
   \* Wrong ids, checksums and error flags; words that are absent.
   21 :> Parallel(21, <<[A EXCEPT !.id = 7], [B EXCEPT !.crc = FALSE], [C EXCEPT !.errors = 2]>>)
     @@ 22 :> Parallel(22, <<D, [Cluster(0, 1, -1, -1, <<<<9, 1>>>>, {9}) EXCEPT !.bc = -1]>>),
   \* Counters out of step, a wrong footprint, buffers that are not processed.
   21 :> Parallel(21, <<[A EXCEPT !.ec = 8], [B EXCEPT !.bc = 6], C>>)
     @@ 22 :> SerialFED(22, <<GOHBlock(0, 0 :> D @@ 1 :> [F EXCEPT !.bc = 4103])>>),
   21 :> [Parallel(21, <<A>>) EXCEPT !.short = TRUE] @@ 22 :> [Parallel(22, <<D>>) EXCEPT !.structured = FALSE],
   22 :> [Parallel(22, <<D>>) EXCEPT !.FOV = 3]}

Config(subSystem, verbosity, test) ==
  [subSystem |-> subSystem, fedIds |-> <<21, 22>>, verbosity |-> verbosity,
   testFootprint |-> test, testCRC |-> test, testID |-> test,
   testECMostFrequent |-> test, testBCMostFrequent |-> test, minimum |-> 2, fraction |-> 60]

\* With verbosity 0, the default, errors of the checksum are not acted upon; the
\* other tests are.
SomeJobs ==
  {Config(s, 1, test) : s \in {"TrackingStrip", "TimingDiamond"}, test \in {1, 2}} \cup
  {Config("TimingDiamond", 0, 2), [Config("TrackingStrip", 0, 2) EXCEPT !.minimum = 10, !.fedIds = <<22, 20, 21>>],
   [Config("TrackingStrip", 2, 2) EXCEPT !.testCRC = 0]}
-------------------------------------------------------------------------------
(* Trigger: whole and broken frames; boards in step, out of step and listed    *)
(* twice.                                                                      *)
FirstCounters ==
  [type |-> 9, event_num |-> 65537, bunch_num |-> 3563, src_id |-> 577, orbit_num |-> 70000, revision_num |-> 130, run_num |-> 9998,
   trigger_num |-> 131073, inhibited_triggers_num |-> 4, input_status_bits |-> 1073741825]
SecondCounters == [FirstCounters EXCEPT !.event_num = 65538, !.orbit_num = 12, !.trigger_num = 131074]
Lone(sent, bytes, other) == [sent |-> sent, bytes |-> bytes, other |-> other]
Board(id, bx) == [id |-> id, bx |-> bx]
SomeTriggers ==
  {[bunchCrossing |-> 100, lone |-> l, feds |-> feds] :
     l \in {Lone(FirstCounters, 192, {}), Lone(SecondCounters, 197, {17, 40}), Lone(SecondCounters, 184, {}), Lone(FirstCounters, 16, {}),
            Lone(FirstCounters, 0, {})},
     feds \in {<<Board(578, 100), Board(580, 100), Board(579, 101)>>, <<Board(579, 98), <<>>, Board(578, 100), Board(579, 98)>>, <<>>}}

-------------------------------------------------------------------------------
AllInit ==
  /\ scene \in {"job", "trigger"}
  /\ JobInit /\ TriggerInit
  /\ scene = "trigger" => config = CHOOSE c \in SomeJobs : c.subSystem = "TimingDiamond"
  /\ scene = "trigger" => source = CHOOSE s \in SomeSources : s.subSystem = "TimingDiamond"
  /\ scene = "job" => inputs = {"fedInfo", "triggerCounters"}

AllNext ==
  \/ scene = "job" /\ JobNext /\ UNCHANGED <<scene, triggerVars>>
  \/ scene = "trigger" /\ TriggerNext /\ UNCHANGED <<scene, jobVars>>

AllSpec == AllInit /\ [][AllNext]_<<scene, jobVars, triggerVars>>

\* What was sent is found in the products: the frames of an event in its digis,
\* the counters of the trigger and the clocks of the boards in their plots.
EventIsUnpacked == DigisAreTheHits /\ TriggerIsShown
===============================================================================
