----------------------------- MODULE TotemRPGeometry --------------------------
(***************************************************************************)
(* Geometry/VeryForwardGeometryBuilder: the measured, real and misaligned   *)
(* geometries of the Roman pots.  TotemRPGeometryESModule builds the        *)
(* measured compact view out of the ideal one, expands it to a tree of      *)
(* DetGeomDesc and copies that tree for the real and misaligned geometries, *)
(* with their alignments; TotemRPGeometry finds sensors and pots in a tree. *)
(* Products are made when they are asked for and forgotten with the record  *)
(* they depend on.  GeometryInfoModule prints each new geometry.            *)
(* A place is a rotation about the beam by right angles and a translation   *)
(* across it; z, solids and materials, which no correction here changes,    *)
(* are left out.                                                            *)
(***************************************************************************)
EXTENDS RPAlignments

CONSTANTS RootPart, \* the logical part at the root of compact views; a part is [name, ns]
          Depth    \* the greatest number of edges from the root

\* Jobs have the edges of the ideal compact view, [from, to, copyNo, place], and the
\* geometry that GeometryInfoModule prints.
IdealCV == setup.idealCV
ASSUME IdealViewAssumption ==
  /\ Depth \in Nat
  /\ \A s \in AlignmentSetups : s.geometryType \in AlignmentRecords /\ \A e \in s.idealCV :
       e.copyNo \in Nat /\ e.place \in [x : Int, y : Int, rot : 0 .. 3]

VARIABLES gd,       \* DetGeomDesc of each record: a set of nodes, or <<>>
          geometry, \* TotemRPGeometry of each record, or <<>>
          printed,  \* what GeometryInfoModule printed last, or <<>>
          watched,  \* the intervals of the record it last printed
          infoFailed \* GeometryInfoModule has thrown

geometryVars == <<gd, geometry, printed, watched, infoFailed>>

-----------------------------------------------------------------------------
(* Places as matrices: rotation first, then translation.                     *)

Rotated(rot, x, y) ==
  CASE rot = 0 -> [x |-> x, y |-> y] [] rot = 1 -> [x |-> -y, y |-> x]
    [] rot = 2 -> [x |-> -x, y |-> -y] [] rot = 3 -> [x |-> y, y |-> -x]
Shifted(v, p) == [x |-> v.x + p.x, y |-> v.y + p.y, rot |-> p.rot]
Identity == [x |-> 0, y |-> 0, rot |-> 0]

\* B * A: first A, then B.
Times(b, a) == Shifted(Rotated(b.rot, a.x, a.y), [b EXCEPT !.rot = (@ + a.rot) % 4])
Inverted(a) == Shifted(Rotated((4 - a.rot) % 4, -a.x, -a.y), [Identity EXCEPT !.rot = (4 - a.rot) % 4])

\* applyCorrectionToTransform, DetGeomDesc::ApplyAlignment: the translation is not rotated.
Corrected(c, p) == Shifted([x |-> c.x, y |-> c.y], [p EXCEPT !.rot = (c.rot + @) % 4])

-----------------------------------------------------------------------------
(* DDExpandedView: the paths of a compact view.                              *)

Extended(cv, paths) == {Append(p, e) : p \in paths, e \in cv}
Connected(p) ==
  /\ p[1].from = RootPart
  /\ Len(p) > 1 => p[Len(p)].from = p[Len(p) - 1].to
PathsOf(cv) ==
  UNION Range(FoldLeft(LAMBDA levels, n : Append(levels, {p \in Extended(cv, levels[n]) : Connected(p)}),
                       <<{<<>>}>>, [n \in 1 .. Depth |-> n]))

GlobalOf(path) == FoldLeft(LAMBDA place, e : Times(place, e.place), Identity, path)

\* getGlobalTransform: of the first place of a part; pots and their vacuums have one.
GlobalTransform(part, cv) ==
  LET EndsIn(path) == IF path = <<>> THEN part = RootPart ELSE path[Len(path)].to = part
  IN GlobalOf(CHOOSE p \in PathsOf(cv) : EndsIn(p))

-----------------------------------------------------------------------------
(* MeasuredGeometryProducer.                                                 *)

IsRPBox(part) == part.name = "RP_box_primary_vacuum"
IsDetector(part) == part.name = "RP_Silicon_Detector"

\* The namespace of a box ends in the decimal number of its pot.
RPIdFromNamespace(part, plane) ==
  StripId(part.ns \div 100, Digit(part.ns, 10), Digit(part.ns, 1), plane, 0)

\* applyCorrection: the place relative to the measured parent that gives the corrected global one.
ApplyCorrection(e, correction, parentCV) ==
  [e EXCEPT !.place = Times(Inverted(GlobalTransform(e.from, parentCV)),
                            Corrected(correction, Times(GlobalTransform(e.from, IdealCV), @)))]

EverythingButDetectors(alignments) ==
  {IF IsRPBox(e.to) THEN ApplyCorrection(e, GetRPCorrection(alignments, RPIdFromNamespace(e.to, 0)), IdealCV) ELSE e :
     e \in {e \in IdealCV : ~IsDetector(e.to)}}

\* Variant with a fault: detectors are placed relative to the ideal parent.
DetectorsInIdealParents(alignments, cv) ==
  {ApplyCorrection(e, GetFullSensorCorrection(alignments, RPIdFromNamespace(e.from, e.copyNo)), IdealCV) :
     e \in {e \in IdealCV : IsDetector(e.to)}}

PositionedDetectors(alignments, cv) ==
  {ApplyCorrection(e, GetFullSensorCorrection(alignments, RPIdFromNamespace(e.from, e.copyNo)), cv) :
     e \in {e \in IdealCV : IsDetector(e.to)}}

MeasuredCV(alignments) ==
  UNION {cv \cup PositionedDetectors(alignments, cv) : cv \in {EverythingButDetectors(alignments)}}

-----------------------------------------------------------------------------
(* DDDTotemRPContruction: the tree of a compact view.                        *)

GeographicalId(path) ==
  LET CopyNumber(fromEnd) == path[Len(path) - fromEnd].copyNo
      PixelAt(n, plane) == PixelId(n \div 100, (n % 100) \div 10, n % 10, plane)
      \* The pot is in the decimal digits of a copy number.
      StripAt(n, plane) == StripId(n \div 100, (n % 100) \div 10, n % 10, plane, 0)
  IN
  CASE IsDetector(path[Len(path)].to) -> StripAt(CopyNumber(2), CopyNumber(0))
    [] path[Len(path)].to.name = "RPixWafer" -> PixelAt(CopyNumber(3), CopyNumber(1) - 1)
    [] IsRPBox(path[Len(path)].to) ->
         StripId(Digit(CopyNumber(0), 100), Digit(CopyNumber(0), 10), Digit(CopyNumber(0), 1), 0, 0)
    [] OTHER -> 0

IsSensor(name) == name \in {"RP_Silicon_Detector", "RPixWafer"}
Construct3D(cv) ==
  {[name |-> p[Len(p)].to.name, id |-> GeographicalId(p), place |-> GlobalOf(p)] : p \in PathsOf(cv) \ {<<>>}}

\* ApplyAlignments: a copy of the tree, sensors and boxes where the alignments put them.
ApplyAlignments(nodes, alignments) ==
  {[n EXCEPT !.place =
      IF IsSensor(n.name) THEN Corrected(GetFullSensorCorrection(alignments, n.id), @)
      ELSE IF n.name = "RP_box_primary_vacuum" THEN Corrected(GetRPCorrection(alignments, n.id), @) ELSE @] :
     n \in nodes}

-----------------------------------------------------------------------------
(* TotemRPGeometry: maps from identifiers to nodes, and the detectors of pots. *)

MapOf(nodes) == [id \in {n.id : n \in nodes} |-> (CHOOSE n \in nodes : n.id = id).place]
Build(nodes) ==
  [theMap |-> MapOf({n \in nodes : IsSensor(n.name)}),
   theRomanPotMap |-> MapOf({n \in nodes : n.name = "RP_box_primary_vacuum"})]

\* BuildSets.
DetsInRP(g, rp) == {id \in DOMAIN g.theMap : GetRPId(id) = rp}

LocalToGlobal(g, id, x, y) == Times(g.theMap[id], [x |-> x, y |-> y, rot |-> 0])
GlobalToLocal(g, id, x, y) == Times(Inverted(g.theMap[id]), [x |-> x, y |-> y, rot |-> 0])
GetReadoutDirection(g, id) == Rotated(g.theMap[id].rot, 0, 1)

-----------------------------------------------------------------------------
(* GeometryInfoModule::PrintGeometry: pots, sensors, and the mean over the    *)
(* sensors of a pot, all of which must be strips.                            *)

MeanRPData(g, rp) ==
  [N |-> Cardinality(DetsInRP(g, rp)),
   N_u |-> Cardinality({id \in DetsInRP(g, rp) : PlaneOf(id) % 2 = 1}),
   Sx |-> MapThenSumSet(LAMBDA id : g.theMap[id].x, DetsInRP(g, rp)),
   Sy |-> MapThenSumSet(LAMBDA id : g.theMap[id].y, DetsInRP(g, rp))]
PrintGeometry(g) ==
  [rps |-> g.theRomanPotMap,
   sensors |-> [id \in DOMAIN g.theMap |-> [place |-> g.theMap[id], readout |-> GetReadoutDirection(g, id)]],
   means |-> [rp \in {GetRPId(id) : id \in DOMAIN g.theMap} |-> MeanRPData(g, rp)]]

-----------------------------------------------------------------------------
GeometryInit ==
  /\ gd = [r \in AlignmentRecords |-> <<>>] /\ geometry = [r \in AlignmentRecords |-> <<>>]
  /\ printed = <<>> /\ watched = <<>> /\ infoFailed = FALSE

IntervalsOf(r) == <<valid["Measured"], valid[r]>>

NewInterval(r) ==
  \* The geometry records that depend on an alignment record, and their intervals.
  LET Dependents == IF r = "Measured" THEN AlignmentRecords ELSE {r}
  IN
  /\ SetIntervalFor(r)
  /\ gd' = [s \in AlignmentRecords |-> IF s \in Dependents THEN <<>> ELSE gd[s]]
  /\ geometry' = [s \in AlignmentRecords |-> IF s \in Dependents THEN <<>> ELSE geometry[s]]
  /\ UNCHANGED <<printed, watched, infoFailed>>

AllValid == \A r \in AlignmentRecords : IsValid(r)

\* The chain of producers behind TotemRPGeometry of a record; trees in a set of their own.
MeasuredGD == IF gd["Measured"] # <<>> THEN gd["Measured"] ELSE <<Construct3D(MeasuredCV(ac["Measured"]))>>
ProduceTG(r) ==
  /\ AllValid /\ geometry[r] = <<>>
  /\ \E m \in {MeasuredGD} :
       gd' = [gd EXCEPT !["Measured"] = m, ![r] = IF r = "Measured" THEN m ELSE <<ApplyAlignments(m[1], ac[r])>>]
  /\ geometry' = [geometry EXCEPT ![r] = <<Build(gd'[r][1])>>]
  /\ UNCHANGED <<alignmentVars, printed, watched, infoFailed>>

\* The module looks at its record in every event, and prints if the watcher saw it change.
Inform ==
  LET OfStrips(g) == \A id \in DOMAIN g.theMap : IsStripId(id)
  IN
  /\ AllValid /\ ~infoFailed /\ watched # IntervalsOf(setup.geometryType)
  /\ geometry[setup.geometryType] # <<>>
  /\ IF OfStrips(geometry[setup.geometryType][1])
     THEN printed' = <<PrintGeometry(geometry[setup.geometryType][1])>> /\ UNCHANGED infoFailed
     ELSE infoFailed' = TRUE /\ UNCHANGED printed
  /\ watched' = IntervalsOf(setup.geometryType)
  /\ UNCHANGED <<alignmentVars, gd, geometry>>

\* The next event begins when the module has looked at this one.
Informed == infoFailed \/ now = <<>> \/ watched = IntervalsOf(setup.geometryType)

GeometryAlignmentInit == AlignmentInit /\ GeometryInit
GeometryNext ==
  \/ Construct /\ UNCHANGED geometryVars
  \/ \E t \in SyncTimes : Informed /\ Synchronize(t) /\ UNCHANGED geometryVars
  \/ \E r \in AlignmentRecords : NewInterval(r)
  \/ \E r \in AlignmentRecords : ProduceTG(r)
  \/ Inform

-----------------------------------------------------------------------------
(* Where things should be.                                                   *)

Ideal == Build(Construct3D(IdealCV))

\* A sensor, box or wafer after the corrections of the measured geometry and of the record.
ShouldBe(r, place, measured, correction) ==
  IF r = "Measured" THEN Corrected(measured, place) ELSE Corrected(correction, Corrected(measured, place))
Moved(id) ==
  CHOOSE p \in {Times(Times(geometry["Measured"][1].theRomanPotMap[rp], Inverted(Ideal.theRomanPotMap[rp])), Ideal.theMap[id]) :
                  rp \in {rp \in DOMAIN Ideal.theRomanPotMap : ArmOf(rp) = ArmOf(id) /\ StationOf(rp) = StationOf(id) /\ RPOf(rp) = RPOf(id)}} : TRUE


Right(id, r, place) ==
  IF SubdetId(id) = sdTrackingStrip
  THEN place = ShouldBe(r, Ideal.theMap[id], GetFullSensorCorrection(ac["Measured"], id), GetFullSensorCorrection(ac[r], id))
  ELSE geometry["Measured"] # <<>> => place = Moved(id)

\* Every geometry the module has produced has all sensors and pots of the ideal one;
\* strips and boxes are where the sums of the corrections valid at the time of the
\* event put them from their ideal places, the pot's own movement counted once; pixel
\* wafers go rigidly with their measured box; local coordinates have one way there and
\* back.  What GeometryInfoModule printed last is the geometry of the event it has seen,
\* with the mean over all detectors of a pot.
GeometryFollowsAlignment ==
  AllValid =>
    /\ \A r \in AlignmentRecords : \A i \in DOMAIN geometry[r] :
         LET g == geometry[r][i] IN
         /\ DOMAIN g.theMap = DOMAIN Ideal.theMap /\ DOMAIN g.theRomanPotMap = DOMAIN Ideal.theRomanPotMap
         /\ \A rp \in DOMAIN g.theRomanPotMap :
              g.theRomanPotMap[rp] = ShouldBe(r, Ideal.theRomanPotMap[rp], GetRPCorrection(ac["Measured"], rp), GetRPCorrection(ac[r], rp))
         /\ \A id \in DOMAIN g.theMap :
              /\ Right(id, r, g.theMap[id])
              /\ \E p \in {LocalToGlobal(g, id, 1, 2)} : GlobalToLocal(g, id, p.x, p.y).x = 1 /\ GlobalToLocal(g, id, p.x, p.y).y = 2
    /\ Informed /\ ~infoFailed =>
         \A i \in DOMAIN printed : \A id \in DOMAIN printed[i].sensors :
           /\ Right(id, setup.geometryType, printed[i].sensors[id].place)
           /\ printed[i].means[GetRPId(id)].N = Cardinality({d \in DOMAIN Ideal.theMap : RPOf(d) = RPOf(id) /\ StationOf(d) = StationOf(id) /\ ArmOf(d) = ArmOf(id)})
===============================================================================
