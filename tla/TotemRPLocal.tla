---------------------------- MODULE TotemRPLocal ------------------------------
(* The local reconstruction of the strip detectors of the Roman pots: clusters *)
(* of strips, a hit for each cluster, straight lines among the hits of the U   *)
(* and of the V planes of a pot (FastLineRecognition), and a track where one   *)
(* pattern of each projection is to be combined.  The modules live as long as  *)
(* the job, keep geometry data of the planes they have met, and must forget    *)
(* them when the geometry changes.  Lengths are in half strips, z in units     *)
(* that make the planes integers; the readout directions of U and V planes are *)
(* taken orthogonal, so that the fit falls into one for each projection.       *)
EXTENDS Integers, SequencesExt

-------------------------------------------------------------------------------
(* The optimised Hough transform of FastLineRecognition: every pair of points  *)
(* of a projection at different z gives a line, lines are grouped by slope and *)
(* intercept, and the points of the heaviest group form a pattern.  Positions  *)
(* are integers, in half strips; slopes and intercepts are AScale times their  *)
(* value, which keeps them integers.  A mean is kept as a sum and a count, so  *)
(* that every comparison is exact where the code compares doubles.  All hits   *)
(* have the nominal sigma of RecHitProducer: a point weighs 1, a line 2.       *)

CONSTANTS AScale,        \* a multiple of the distances in z between two planes
          clusterSize_a, \* full widths of a group, AScale times
          clusterSize_b
ASSUME LineParametersAssumption == AScale \in Nat \ {0} /\ clusterSize_a \in Nat /\ clusterSize_b \in Nat

(* A point is [det, pos, h, z]: the detector and the position of its hit, and  *)
(* the global position at z.  Points come in the order of their detectors,     *)
(* which is that of z.                                                         *)

\* Cluster::add.
AddTo(c, l) == [Sa |-> c.Sa + l.a, Sb |-> c.Sb + l.b, S1 |-> c.S1 + 1, contents |-> c.contents \cup l.points]

Within(x, S, n, width) == 2 * (x * n - S) < width * n /\ 2 * (S - x * n) < width * n
Near(c, l) == Within(l.a, c.Sa, c.S1, clusterSize_a) /\ Within(l.b, c.Sb, c.S1, clusterSize_b)

\* A line goes to the first cluster whose mean is near it, or starts one.
AddLine(clusters, l) ==
  LET NewCluster == [Sa |-> l.a, Sb |-> l.b, S1 |-> 1, contents |-> l.points]
      near == {k \in DOMAIN clusters : Near(clusters[k], l)}
  IN  IF near = {} THEN Append(clusters, NewCluster)
      ELSE [clusters EXCEPT ![Min(near)] = AddTo(@, l)]

Indices(first, last) == [k \in 1 .. last - first + 1 |-> first + k - 1]
AddLinesFrom(points, i, clusters) ==
  LET Line(p1, p2) ==
        LET a == (AScale \div (p2.z - p1.z)) * (p2.h - p1.h)
        IN  [a |-> a, b |-> AScale * p1.h - p1.z * a, points |-> {p1, p2}]
  IN
  FoldLeft(LAMBDA cs, j : IF points[i].z = points[j].z THEN cs ELSE AddLine(cs, Line(points[i], points[j])),
           clusters, Indices(i + 1, Len(points)))
LineClusters(points) ==
  FoldLeft(LAMBDA cs, i : AddLinesFrom(points, i, cs), <<>>, Indices(1, Len(points)))

Weight(c) == Cardinality(c.contents)

\* What getOneLine returns: no cluster or one.
OneLine(clusters, threshold) ==
  \* The first of the heaviest clusters.
  LET Heaviest ==
        Min({k \in DOMAIN clusters : \A l \in DOMAIN clusters : Weight(clusters[l]) <= Weight(clusters[k])})
  IN
  IF clusters = <<>> THEN {}
  ELSE {c \in {clusters[Heaviest]} : Weight(c) >= threshold}

\* Variant with a fault: the points of a recognised line stay usable.
KeepPoints(state, threshold) ==
  [points |-> state.points, lines |-> state.lines \cup OneLine(LineClusters(state.points), threshold)]

\* One turn of the loop of getPatterns: the points of a recognised line are not usable again.
Recognize(state, threshold) ==
  LET found == OneLine(LineClusters(state.points), threshold)
      used == UNION {c.contents : c \in found}
  IN  [points |-> SelectSeq(state.points, LAMBDA p : p \notin used), lines |-> state.lines \cup found]

\* Every line takes points, so there are at most as many turns as points.
GetPatterns(points, threshold) ==
  FoldLeft(LAMBDA state, i : Recognize(state, threshold), [points |-> points, lines |-> {}], Indices(1, Len(points)))
-------------------------------------------------------------------------------

CONSTANTS Pots,         \* Roman pots, [arm, station, rp]
          Planes,       \* numbers of their planes
          IOVs,         \* versions of VeryForwardRealGeometryRecord
          PlaneZ,       \* z of each plane with respect to its pot
          Shift,        \* in each version, the centre of each plane along its readout direction
          Events,       \* for each event of the job, what it may be: [iov, digi, status]
          minPlanesPerProjectionToSearch, minPlanesPerProjectionToFit,
          maxHitsPerPlaneToSearch,
          threshold0,   \* the parameter threshold
          max_a_toFit,  \* AScale times
          exceptionalSettings, \* decimal id of a pot to [planes, threshold] of each projection
          NotPut        \* a product, an event or geometry data that are not there

Detectors == Pots \X Planes
Projections == {"U", "V"}

\* TotemRPDetId: strips of odd planes measure U; the decimal number of a pot and back.
Projection(plane) == IF plane % 2 = 1 THEN "U" ELSE "V"
RPDecimalId(pot) == pot.rp + pot.station * 10 + pot.arm * 100

Statuses == SUBSET {"missing", "progress", "corruption", "clusters"}
ASSUME PotsAssumption == Pots \subseteq [arm : {0, 1}, station : 0 .. 2, rp : 0 .. 6]
ASSUME PlanesAssumption ==
  /\ Planes \subseteq 0 .. 9 /\ PlaneZ \in [Planes -> Int]
  /\ \A p, q \in Planes : p < q =>
       PlaneZ[p] < PlaneZ[q] /\ (Projection(p) = Projection(q) => AScale % (PlaneZ[q] - PlaneZ[p]) = 0)
ASSUME GeometryAssumption == NotPut \notin IOVs /\ Shift \in [IOVs -> [Detectors -> Int]]
ASSUME RPEventsAssumption ==
  \A n \in DOMAIN Events : \A e \in Events[n] :
    /\ e.iov \in IOVs /\ e.digi \in [Detectors -> SUBSET (0 .. 511)]
    /\ e.status \in [Detectors -> Statuses]
ASSUME SettingsAssumption ==
  /\ minPlanesPerProjectionToSearch \in Nat \ {0}
  /\ {minPlanesPerProjectionToFit, maxHitsPerPlaneToSearch, threshold0, max_a_toFit} \subseteq Nat
  /\ \A n \in DOMAIN exceptionalSettings :
       exceptionalSettings[n] \in [planes : [Projections -> Nat], threshold : [Projections -> Nat]]

VARIABLES nEvents,              \* events begun
          event,                \* the event: its version of the geometry, digis and statuses
          clusters, hits, patterns, tracks, \* its products
          lrcgn,                \* line recognition of the pattern finder: [watched, geometryMap]
          fitter                \* algorithm of the track fitter: [watched, det_data_map_]

products == <<clusters, hits, patterns, tracks>>
localVars == <<nEvents, event, products, lrcgn, fitter>>

NoGeometry == [d \in Detectors |-> NotPut]
LocalInit ==
  /\ nEvents = 0 /\ event = NotPut
  /\ clusters = NotPut /\ hits = NotPut /\ patterns = NotPut /\ tracks = NotPut
  /\ lrcgn = [watched |-> NotPut, geometryMap |-> NoGeometry]
  /\ fitter = [watched |-> NotPut, det_data_map_ |-> NoGeometry]

\* The framework begins an event with the digis and statuses of the raw data.
BeginEvent ==
  /\ event = NotPut /\ nEvents < Len(Events)
  /\ nEvents' = nEvents + 1 /\ event' \in Events[nEvents']
  /\ UNCHANGED <<products, lrcgn, fitter>>

-------------------------------------------------------------------------------
(* TotemRPClusterProducer and TotemRPRecHitProducer.                           *)

\* The order of a std::set or a std::map of numbers.
InOrder(S) == [i \in 1 .. Cardinality(S) |-> CHOOSE x \in S : Cardinality({y \in S : y < x}) = i - 1]

NextStrip(cs, strip) ==
  IF cs # <<>> /\ strip = Last(cs).str_end + 1
  THEN [cs EXCEPT ![Len(cs)].str_end = strip]
  ELSE Append(cs, [str_beg |-> strip, str_end |-> strip])
BuildClusters(strips) == FoldLeft(NextStrip, <<>>, InOrder(strips))

ClusterProducer ==
  /\ event # NotPut /\ clusters = NotPut
  /\ clusters' = [d \in Detectors |-> BuildClusters(event.digi[d])]
  /\ UNCHANGED <<nEvents, event, hits, patterns, tracks, lrcgn, fitter>>

RecHitProducer ==
  \* Strips are counted against the readout direction; a whole number stands for the constant term.
  LET HitPosition(c) == 511 - (c.str_beg + c.str_end)
  IN
  /\ clusters # NotPut /\ hits = NotPut
  /\ hits' = [d \in Detectors |-> [i \in DOMAIN clusters[d] |-> HitPosition(clusters[d][i])]]
  /\ UNCHANGED <<nEvents, event, clusters, patterns, tracks, lrcgn, fitter>>

-------------------------------------------------------------------------------
(* TotemRPUVPatternFinder.                                                     *)

\* Variant with a fault: the geometry is taken once.
WatchedOnce(alg) == alg.watched # NotPut

\* geometryWatcher.check, and the geometry data of the detectors that are met.
Watched(alg) == alg.watched = event.iov
MapFrom(map, dets) == [d \in Detectors |-> IF d \in dets /\ map[d] = NotPut THEN Shift[event.iov][d] ELSE map[d]]

DetectorsWithHits(pot, proj) == {d \in {pot} \X Planes : Projection(d[2]) = proj /\ hits[d] # <<>>}
IsSearched(pot) ==
  LET CleanPlanes(proj) ==
        {d \in DetectorsWithHits(pot, proj) : Len(hits[d]) <= maxHitsPerPlaneToSearch}
  IN \A proj \in Projections : Cardinality(CleanPlanes(proj)) >= minPlanesPerProjectionToSearch

PlanesRequired(pot, proj) ==
  IF RPDecimalId(pot) \in DOMAIN exceptionalSettings THEN exceptionalSettings[RPDecimalId(pot)].planes[proj]
  ELSE minPlanesPerProjectionToFit
Threshold(pot, proj) ==
  IF RPDecimalId(pot) \in DOMAIN exceptionalSettings THEN exceptionalSettings[RPDecimalId(pot)].threshold[proj]
  ELSE threshold0

Points(pot, proj, map) ==
  \* The hits of a projection in the global system, dirty planes included.
  LET PointsOf(d) ==
        [i \in DOMAIN hits[d] |-> [det |-> d, pos |-> hits[d][i], h |-> hits[d][i] + map[d], z |-> PlaneZ[d[2]]]]
  IN
  FoldLeft(LAMBDA ps, plane : ps \o PointsOf(<<pot, plane>>), <<>>,
           InOrder({d[2] : d \in DetectorsWithHits(pot, proj)}))

PatternsIn(pot, proj, map) ==
  LET IsFittable(c, required) ==
        /\ Cardinality({p.det : p \in c.contents}) >= required
        /\ -max_a_toFit * c.S1 <= c.Sa /\ c.Sa <= max_a_toFit * c.S1
  IN
  {[proj |-> proj, hits |-> {<<p.det, p.pos>> : p \in c.contents},
    fittable |-> IsFittable(c, PlanesRequired(pot, proj))] :
     c \in GetPatterns(Points(pot, proj, map), Threshold(pot, proj)).lines}

FindPatterns(searched, map) ==
  LET RecognizeAndSelect(pot, shifts) == UNION {PatternsIn(pot, proj, shifts) : proj \in Projections}
      RPOfDecimalId(n) == [arm |-> n \div 100, station |-> (n \div 10) % 10, rp |-> n % 10]
  IN
  /\ lrcgn' = [watched |-> event.iov,
               geometryMap |-> MapFrom(map, {d \in Detectors : d[1] \in searched /\ hits[d] # <<>>})]
  /\ patterns' = [n \in {RPDecimalId(pot) : pot \in searched} |->
                   RecognizeAndSelect(RPOfDecimalId(n), lrcgn'.geometryMap)]
UVPatternFinder ==
  /\ hits # NotPut /\ patterns = NotPut
  /\ FindPatterns({pot \in Pots : IsSearched(pot)},
                  IF Watched(lrcgn) THEN lrcgn.geometryMap ELSE NoGeometry)
  /\ UNCHANGED <<nEvents, event, clusters, hits, tracks, fitter>>

-------------------------------------------------------------------------------
(* TotemRPLocalTrackFitter.                                                    *)

PatternsOf(n, proj) == {p \in patterns[n] : p.proj = proj}
\* Exactly one pattern of each projection, fittable or not, and both fittable.
IsUnique(n) == \A proj \in Projections : Cardinality(PatternsOf(n, proj)) = 1
\* Variant with a fault: unfittable patterns are combined too.
CombinedAnyway(n) == IsUnique(n)

IsCombined(n) == IsUnique(n) /\ \A p \in patterns[n] : p.fittable

(* The straight line of least squares: values and slope at z0, both times den. *)
Fit(S, map) ==
  LET Z(x) == PlaneZ[x[1][2]]
      H(x) == x[2] + map[x[1]]
      n == Cardinality(S)
      Sz == MapThenSumSet(Z, S)
      Szz == MapThenSumSet(LAMBDA x : Z(x) * Z(x), S)
      Sh == MapThenSumSet(H, S)
      Szh == MapThenSumSet(LAMBDA x : Z(x) * H(x), S)
  IN  [x0 |-> Szz * Sh - Sz * Szh, tx |-> n * Szh - Sz * Sh, den |-> n * Szz - Sz * Sz]

\* fitTrack needs five hits and a matrix that can be inverted; a track that failed is put all the same.
FitTrack(S, fits) ==
  IF Cardinality(S) >= 5 /\ \A proj \in Projections : fits[proj].den # 0
  THEN [valid |-> TRUE, hits |-> S, fit |-> fits]
  ELSE [valid |-> FALSE, hits |-> {}, fit |-> NotPut]

FitTracks(combined, map) ==
  LET Fits(S, shifts) == [proj \in Projections |-> Fit({x \in S : Projection(x[1][2]) = proj}, shifts)]
      CombinedHits(n) == UNION {p.hits : p \in patterns[n]}
  IN
  /\ fitter' = [watched |-> event.iov,
                det_data_map_ |-> MapFrom(map, {x[1] : x \in UNION {CombinedHits(n) : n \in combined}})]
  /\ tracks' = [n \in combined |-> FitTrack(CombinedHits(n), Fits(CombinedHits(n), fitter'.det_data_map_))]
LocalTrackFitter ==
  /\ patterns # NotPut /\ tracks = NotPut
  /\ FitTracks({n \in DOMAIN patterns : IsCombined(n)},
               IF Watched(fitter) THEN fitter.det_data_map_ ELSE NoGeometry)
  /\ UNCHANGED <<nEvents, event, clusters, hits, patterns, lrcgn>>
===============================================================================
