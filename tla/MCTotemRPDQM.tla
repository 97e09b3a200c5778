---------------------------- MODULE MCTotemRPDQM ------------------------------
(* The strip detectors for TLC.  Each behaviour plays one scene: events of a   *)
(* horizontal pot of station 210 and a top pot of station 220, with three U    *)
(* and three V planes each; or the alignment of a pot with two strip sensors   *)
(* and, in one of the geometries, a pot with a pixel wafer.                    *)
EXTENDS TotemRPDQM, TotemRPGeometry

VARIABLE scene

Near210 == [arm |-> 0, station |-> 0, rp |-> 2]
Top220 == [arm |-> 0, station |-> 2, rp |-> 4]
TwoPots == {Near210, Top220}
SixPlanes == 0 .. 5

\* V planes at -2, 0, 2 and U planes at -1, 1, 3; the second geometry moves two planes by one strip and a half.
Z == [q \in SixPlanes |-> q - 2]
Centres == [iov \in {1, 2} |-> [d \in TwoPots \X SixPlanes |-> IF iov = 2 /\ d[2] \in {0, 3} THEN 3 ELSE 0]]

\* The second pot may have patterns of two planes.
TwoPlanesSuffice == [p \in {"U", "V"} |-> 2]
Settings == [n \in {24} |-> [planes |-> TwoPlanesSuffice, threshold |-> TwoPlanesSuffice]]

Digis(f) == [d \in TwoPots \X SixPlanes |-> f[d[1]][d[2]]]
Of(u, v) == [q \in SixPlanes |-> IF q % 2 = 1 THEN u[(q + 1) \div 2] ELSE v[(q + 2) \div 2]]
Quiet == [d \in TwoPots \X SixPlanes |-> {}]
Noisy == [d \in TwoPots \X SixPlanes |->
           IF d[2] = 0 THEN {"missing", "corruption"} ELSE IF d[1] = Top220 THEN {"clusters"} ELSE {}]
EventsOf(iovs, nears, tops, statuses) ==
  {[iov |-> i, digi |-> Digis((Near210 :> n) @@ (Top220 :> t)), status |-> s] :
     i \in iovs, n \in nears, t \in tops, s \in statuses}

Nothing == <<{}, {}, {}>>
Track == <<{320}, {320}, {320}>>
Slanted == <<{320}, {322, 323}, {325}>>
Parallel == <<{320, 340}, {320, 340}, {320, 340}>>
Dirty == <<{320}, {318, 320, 322, 324}, {320}>>
Scattered == <<{320}, {320}, {360}>>
\* More clusters in a plane, and a larger cluster, than their plots have bins for, next to the largest numbers they show.
Crowded == <<{320} \cup {330, 340, 350, 360, 370}, {320}, {300, 310, 320, 330, 340}>>
Wide == <<318 .. 322, 317 .. 322, {320}>>

\* U planes of the first pot: any three of these with a track in the V planes, or of fewer with anything there.
Strips == {S \in SUBSET {318, 320, 322, 323, 340} : Cardinality(S) <= 2} \cup {{320, 322, 340}}
FewStrips == {{}, {318}, {320}, {322, 323}, {320, 340}}
Varied == {Of(<<a, b, c>>, Track) : a, b, c \in Strips} \cup {Of(<<a, b, c>>, v) : a, b, c \in FewStrips, v \in {Slanted, Parallel, Dirty}}
          \cup {Of(u, v) : u \in {Track, Crowded, Wide}, v \in {Crowded, Wide}}
Tops == {Of(u, v) : u \in {Track, Scattered}, v \in {Nothing, Track, Scattered}}
FewNears == {Of(Track, Track), Of(Slanted, Slanted), Of(Parallel, Track)}
First == EventsOf({1}, Varied, {Of(Nothing, Nothing)}, {Quiet}) \cup EventsOf({1, 2}, FewNears, Tops, {Noisy})
Second == EventsOf({1, 2}, FewNears, {Of(Track, Track)}, {Quiet})
Third == EventsOf({1, 2}, {Of(Slanted, Slanted)}, {Of(Track, Track)}, {Quiet})
ThreeEvents == <<First, Second, Third>>

-------------------------------------------------------------------------------
(* Alignment: times in half seconds, of 8 seconds.                             *)

At(x, y, rot) == [x |-> x, y |-> y, rot |-> rot]
Part(name, ns) == [name |-> name, ns |-> ns]
World == Part("CTPPS", 0)
Primary(n) == Part("RP_box_primary_vacuum", n)
Secondary(n) == Part("RP_box_secondary_vacuum", n)
Strip == Part("RP_Silicon_Detector", 0)
Module == Part("PixelModule", 0)
Edge(from, to, copyNo, place) == [from |-> from, to |-> to, copyNo |-> copyNo, place |-> place]

StripPot ==
  {Edge(World, Primary(24), 24, At(10, 0, 1)), Edge(Primary(24), Secondary(24), 1, At(0, 2, 0)),
   Edge(Secondary(24), Strip, 0, At(1, 0, 2)), Edge(Secondary(24), Strip, 1, At(-1, 1, 3))}
PixelPot ==
  {Edge(World, Primary(103), 103, At(-10, 3, 2)), Edge(Primary(103), Secondary(103), 1, At(0, 1, 0)),
   Edge(Secondary(103), Module, 1, At(2, 0, 1)), Edge(Module, Part("RPixWafer", 0), 1, At(0, 1, 0))}

Tag(name, id, x, y, rot) == [name |-> name, id |-> <<id>>, correction |-> At(x, y, rot)]
Interval(first, last, children) == [name |-> "TimeInterval", first |-> <<first>>, last |-> <<last>>, children |-> children]
PotAndSensor == <<Tag("rp", 24, 1, 2, 1), Tag("det", 240, 3, 0, 0), Tag("det", 240, 0, 1, 3)>>
Whole == <<Tag("det", 241, 0, 5, 2), Tag("rp", 103, 0, 4, 1)>>

Chained == <<Interval(2, 4, PotAndSensor), Interval(6, 8, <<Tag("rp", 24, 5, 0, 0)>>), Interval(2, 4, Whole)>>
Overlapping == <<Interval(4, 6, <<Tag("rp", 24, 0, 7, 2)>>), Interval(12, 16, PotAndSensor)>>
Incomplete == <<[name |-> "TimeInterval", first |-> <<2>>, last |-> <<>>, children |-> <<>>]>>
Mixed == Overlapping \o Whole

Setup(measured, real, misaligned, type, view) ==
  [idealCV |-> view, files |-> [Measured |-> measured, Real |-> real, Misaligned |-> misaligned], geometryType |-> type]
MCSetups ==
  {Setup(<<Chained, Overlapping, Whole>>, <<Overlapping>>, <<>>, "Real", StripPot),
   Setup(<<Whole>>, <<PotAndSensor, Chained>>, <<Chained>>, "Measured", StripPot \cup PixelPot),
   Setup(<<Overlapping>>, <<>>, <<Whole, Overlapping>>, "Misaligned", StripPot),
   Setup(<<Mixed>>, <<>>, <<>>, "Real", StripPot), Setup(<<>>, <<Incomplete>>, <<>>, "Real", StripPot),
   Setup(<<<<Tag("det", 2240, 0, 0, 0)>>>>, <<>>, <<>>, "Real", StripPot)}

-------------------------------------------------------------------------------
AllInit == /\ scene \in {"events", "alignment"}
           /\ Init /\ GeometryAlignmentInit
           /\ scene = "events" => setup = CHOOSE s \in MCSetups : TRUE

AllNext ==
  \/ scene = "events" /\ Next /\ UNCHANGED <<scene, alignmentVars, geometryVars>>
  \/ scene = "alignment" /\ GeometryNext /\ UNCHANGED <<scene, vars>>

AllSpec == AllInit /\ [][AllNext]_<<scene, vars, alignmentVars, geometryVars>>
===============================================================================
