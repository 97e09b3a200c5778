----------------------------- MODULE TotemRPDQM -------------------------------
(* The monitoring of the strip detectors on top of their reconstruction:       *)
(* TotemRPDQMSource looks at the products of every event and fills plots of    *)
(* arms, pots and planes; at the end of a luminosity block TotemRPDQMHarvester *)
(* makes the plots of the efficiency out of them.  Plots of positions of       *)
(* tracks and of the bunch crossing are left out; of the others the model has  *)
(* what the event fills in, and for the efficiency what the job has filled in, *)
(* in one bin.                                                                 *)
EXTENDS TotemRPLocal, CTPPSDetId

\* The pots that have plots; any other one would fill plots that do not exist.
ASSUME BookedAssumption == Pots \subseteq [arm : {0, 1}, station : {0, 2}, rp : 0 .. 5]

VARIABLES plots,              \* what the event filled into the plots
          efficiencyNum, efficiencyDen, \* the plots of each plane
          activity2D,         \* the plot of each pot: of a plane, the clusters in the hot spot, and all
          lumi,               \* whether a luminosity block is "open" or "ended"
          efficiency,         \* the harvester's plot of each plane, <<num, den>> or Empty
          rp_efficiency,      \* the harvester's plots of each pot, a row for each plane
          hit_ratio

dqmVars == <<plots, efficiencyNum, efficiencyDen, activity2D>>
harvested == <<efficiency, rp_efficiency, hit_ratio>>
vars == <<localVars, dqmVars, lumi, harvested>>

Empty == <<0, 0>>
Init ==
  /\ LocalInit
  /\ plots = NotPut /\ lumi = "ended"
  /\ efficiencyNum = [d \in Detectors |-> 0] /\ efficiencyDen = [d \in Detectors |-> 0]
  /\ efficiency = [d \in Detectors |-> NotPut] /\ rp_efficiency = [p \in Pots |-> NotPut]
  /\ activity2D = [d \in Detectors |-> Empty] /\ hit_ratio = [p \in Pots |-> NotPut]

-------------------------------------------------------------------------------
(* TotemRPDQMSource::analyze.                                                  *)

TracksOf(pot) == {n \in DOMAIN tracks : n = RPDecimalId(pot) /\ tracks[n].valid}
PotsWithTrack == {pot \in Pots : TracksOf(pot) # {}}

\* Planes with a hit, or with a cluster according to the status of their chips.
ActivePlanes(pot, proj) ==
  {q \in Planes : Projection(q) = proj /\ (hits[<<pot, q>>] # <<>> \/ "clusters" \in event.status[<<pot, q>>])}
NumberOfActive(pot, proj) == Cardinality(ActivePlanes(pot, proj))

FittableIn(pot, proj) ==
  LET FittablePatterns(n) == Cardinality({p \in PatternsOf(n, proj) : p.fittable})
  IN IF RPDecimalId(pot) \in DOMAIN patterns THEN FittablePatterns(RPDecimalId(pot)) ELSE 0

\* A cluster: its size, and its centre in half strips.
NumberOfStrips(c) == c.str_end - c.str_beg + 1
CenterStripPosition(c) == c.str_beg + c.str_end

\* The event category: 0 empty, 1 insufficient, 2 single track, 3 several tracks, 4 shower.
Category(planesU, planesV, patternsU, patternsV) ==
  IF patternsU = 1 /\ patternsV = 1 THEN 2
  ELSE IF planesU = 0 /\ planesV = 0 THEN 0
  ELSE IF patternsU + patternsV > 1 THEN 3
  ELSE IF planesU + planesV < 6 THEN 1 ELSE 4
CategoryOf(pot) ==
  Category(NumberOfActive(pot, "U"), NumberOfActive(pot, "V"), FittableIn(pot, "U"), FittableIn(pot, "V"))

\* Variant with a fault: does not tell the projections apart.
HitsOfTrack(pot, proj) == Cardinality(tracks[RPDecimalId(pot)].hits)

HitsInFit(pot, proj) == Cardinality({x \in tracks[RPDecimalId(pot)].hits : Projection(x[1][2]) = proj})

\* Kinds of pots, and the number of a pot in the plots of correlations of an arm and of the horizontal pots of station 210.
IsHorizontal(pot) == pot.rp \in {2, 3}
Kinds == [top |-> {0, 4}, hor |-> {2, 3}, bot |-> {1, 5}]
IndexInArm(pot) == (pot.station \div 2) * 7 + pot.rp

TrackPairs(arm) == {pq \in PotsWithTrack \X PotsWithTrack : pq[1].arm = arm /\ pq[2].arm = arm}

(* The track is looked up at its own z0, where it was fitted, in every plane.  *)
\* A hit matches within two strips.
Matches(d, pos, fit) ==
  LET local == fit.x0 - fit.den * Shift[event.iov][d]
  IN  local - fit.den * pos < 4 * fit.den /\ fit.den * pos - local < 4 * fit.den
HasMatchingHit(d) ==
  \E i \in DOMAIN hits[d] :
    Matches(d, hits[d][i], tracks[RPDecimalId(d[1])].fit[Projection(d[2])])
Traversed == {d \in Detectors : d[1] \in PotsWithTrack}

Matched(d) == IF d \in Traversed /\ HasMatchingHit(d) THEN 1 ELSE 0

\* What the event fills into the plots of the system, of an arm, a pot and a plane.
GlobalPlots ==
  LET Horizontals == {pot \in PotsWithTrack : pot.station = 0 /\ IsHorizontal(pot)}
      IndexHorizontal(pot) == pot.arm * 2 + pot.rp - 2
  IN [h_trackCorr_hor |-> {<<IndexHorizontal(p), IndexHorizontal(q)>> : p, q \in Horizontals}]
ArmPlots(arm) ==
  LET IndexPairs(pairs) == {<<IndexInArm(pq[1]), IndexInArm(pq[2])>> : pq \in pairs}
      Overlaps == {pq \in TrackPairs(arm) : IsHorizontal(pq[1]) # IsHorizontal(pq[2])}
      NumRPWithTrack(kind) == Cardinality({pot \in PotsWithTrack : pot.arm = arm /\ pot.rp \in Kinds[kind]})
  IN
  [h_numRPWithTrack |-> [kind \in DOMAIN Kinds |-> NumRPWithTrack(kind)],
   h_trackCorr |-> IndexPairs(TrackPairs(arm)), h_trackCorr_overlap |-> IndexPairs(Overlaps)]
PotPlots(pot) ==
  [activity |-> [proj \in Projections |-> NumberOfActive(pot, proj)],
   activity_per_bx |-> NumberOfActive(pot, "U") + NumberOfActive(pot, "V") >= 6,
   hit_plane_hist |-> UNION {{<<q, CenterStripPosition(c)>> : c \in Range(clusters[<<pot, q>>])} : q \in Planes},
   patterns |-> [proj \in Projections |-> FittableIn(pot, proj)],
   event_category |-> CategoryOf(pot),
   h_planes_fit |-> [proj \in Projections |-> {HitsInFit(pot, proj) : n \in TracksOf(pot)}]]
\* A plane without digis fills no multiplicity: 0 stands for that, too.
PlanePlots(d) ==
  [digi_profile |-> event.digi[d],
   cluster_profile |-> [i \in DOMAIN clusters[d] |-> CenterStripPosition(clusters[d][i])],
   hit_multiplicity |-> Len(clusters[d]),
   cluster_size |-> [i \in DOMAIN clusters[d] |-> NumberOfStrips(clusters[d][i])],
   vfat_problem |-> event.status[d] \cap {"missing", "progress", "corruption"}]

\* The bins of the plots; what is filled in outside of them is not shown.
GlobalBins == [h_trackCorr_hor |-> 0 .. 3]
ArmBins == [h_numRPWithTrack |-> 0 .. 4, h_trackCorr |-> 0 .. 12]
PotBins ==
  [activity |-> 0 .. 10, hit_plane_hist |-> (0 .. 9) \X (0 .. 1023), patterns |-> 0 .. 10,
   h_planes_fit |-> 0 .. 5, event_category |-> 0 .. 4]
PlaneBins ==
  [digi_profile |-> 0 .. 511, cluster_profile |-> 0 .. 1023, hit_multiplicity |-> 0 .. 5, cluster_size |-> 1 .. 5]

Analyze ==
  LET IsHot(bin) == 2 * 320 < 32 * bin + 15 /\ 32 * bin + 15 < 2 * 440
      ClustersIn(d) ==
        LET \* The bins of 16 strips that are called the hot spot: their centres are between 320 and 440.
            ActivityBin(c) == (CenterStripPosition(c) + 1) \div 32
        IN <<Cardinality({i \in DOMAIN clusters[d] : IsHot(ActivityBin(clusters[d][i]))}), Len(clusters[d])>>
  IN
  /\ tracks # NotPut /\ plots = NotPut
  /\ plots' = [global |-> GlobalPlots, arm |-> [arm \in {0, 1} |-> ArmPlots(arm)],
               pot |-> [pot \in Pots |-> PotPlots(pot)], plane |-> [d \in Detectors |-> PlanePlots(d)]]
  /\ efficiencyDen' = [d \in Detectors |-> efficiencyDen[d] + (IF d \in Traversed THEN 1 ELSE 0)]
  /\ efficiencyNum' = [d \in Detectors |-> efficiencyNum[d] + Matched(d)]
  /\ activity2D' = [d \in Detectors |-> <<activity2D[d][1] + ClustersIn(d)[1], activity2D[d][2] + ClustersIn(d)[2]>>]
  /\ UNCHANGED <<localVars, lumi, harvested>>

-------------------------------------------------------------------------------
(* TotemRPDQMHarvester::dqmEndLuminosityBlock.                                 *)

Ratio(num, den) == IF den > 0 THEN <<num, den>> ELSE Empty
MakePlaneEfficiency(state, d) ==
  LET AddRow(rp) ==
        IF efficiencyDen[d] > 0 THEN [rp EXCEPT ![d[2]] = Ratio(efficiencyNum[d], efficiencyDen[d])] ELSE rp
      \* The plot of the pot is booked at its first plane, or reset at the first of this block.
      RowsBefore(rp, initialized) == IF rp = NotPut \/ ~initialized THEN [q \in Planes |-> Empty] ELSE rp
  IN [rp |-> AddRow(RowsBefore(state.rp, state.rpPlotInitialized)), rpPlotInitialized |-> TRUE]
MakePotEfficiency(pot) ==
  FoldLeft(LAMBDA state, q : MakePlaneEfficiency(state, <<pot, q>>),
           [rp |-> rp_efficiency[pot], rpPlotInitialized |-> FALSE], InOrder(Planes)).rp

EndLuminosityBlock ==
  \* MakeHitNumberRatios: the part of the clusters of each plane that is in the hot spot.
  LET MakeHitNumberRatios(pot) == [q \in Planes |-> Ratio(activity2D[<<pot, q>>][1], activity2D[<<pot, q>>][2])]
  IN
  /\ event = NotPut /\ lumi = "open"
  /\ lumi' = "ended"
  /\ efficiency' = [d \in Detectors |-> Ratio(efficiencyNum[d], efficiencyDen[d])]
  /\ rp_efficiency' = [pot \in Pots |-> MakePotEfficiency(pot)]
  /\ hit_ratio' = [pot \in Pots |-> MakeHitNumberRatios(pot)]
  /\ UNCHANGED <<localVars, dqmVars>>

-------------------------------------------------------------------------------
\* The framework: an event opens a luminosity block if none is, and is forgotten when all have seen it.
Read == BeginEvent /\ lumi' = "open" /\ UNCHANGED <<dqmVars, harvested>>
ClearEvent ==
  /\ plots # NotPut
  /\ event' = NotPut /\ plots' = NotPut
  /\ clusters' = NotPut /\ hits' = NotPut /\ patterns' = NotPut /\ tracks' = NotPut
  /\ UNCHANGED <<nEvents, lrcgn, fitter, efficiencyNum, efficiencyDen, activity2D, lumi, harvested>>
Produce(producer) == producer /\ UNCHANGED <<dqmVars, lumi, harvested>>

Next ==
  \/ Read
  \/ Produce(ClusterProducer)
  \/ Produce(RecHitProducer)
  \/ Produce(UVPatternFinder)
  \/ Produce(LocalTrackFitter)
  \/ Analyze
  \/ ClearEvent
  \/ EndLuminosityBlock

Spec == Init /\ [][Next]_vars

-------------------------------------------------------------------------------
(* Properties.                                                                 *)

(* Where a hit really is in this event, whatever the modules remember.         *)
Place(x) == [z |-> PlaneZ[x[1][2]], h |-> x[2] + Shift[event.iov][x[1]]]
IsStraight(S) ==
  /\ \A x, y \in S : x[1] = y[1] => x = y
  /\ \A x, y, w \in S :
       (Place(y).h - Place(x).h) * (Place(w).z - Place(x).z) = (Place(w).h - Place(x).h) * (Place(y).z - Place(x).z)
HitsOf(pot, proj) ==
  UNION {{<<d, hits[d][i]>> : i \in DOMAIN hits[d]} : d \in DetectorsWithHits(pot, proj)}
InPatterns(pot, proj) == UNION {p.hits : p \in PatternsOf(RPDecimalId(pot), proj)}

PatternsAreLines(pot, proj) ==
  /\ \A p, q \in PatternsOf(RPDecimalId(pot), proj) : p.hits \cap q.hits # {} => p = q
  /\ \A p \in PatternsOf(RPDecimalId(pot), proj) :
       /\ p.hits \subseteq HitsOf(pot, proj)
       /\ Cardinality(p.hits) >= Threshold(pot, proj)
       /\ \E x, y \in p.hits : x[1] # y[1]
NoLineIsLeft(pot, proj) ==
  \A S \in SUBSET (HitsOf(pot, proj) \ InPatterns(pot, proj)) :
    Cardinality(S) >= Threshold(pot, proj) /\ Cardinality(S) >= 2 => ~IsStraight(S)

\* UVPatternFinder, in every pot that is searched: no hit is in two patterns, a
\* pattern has the hits that the threshold asks for, in more than one plane, and no
\* straight line of as many hits is overlooked, whatever the geometry was before.
LinesAreFound ==
  patterns # NotPut =>
    \A pot \in Pots, proj \in Projections :
      RPDecimalId(pot) \in DOMAIN patterns => PatternsAreLines(pot, proj) /\ NoLineIsLeft(pot, proj)

\* LocalTrackFitter: a valid track has the hits of the only two patterns of its pot,
\* enough planes of each projection, and where they are straight it goes through them.
TracksFollowTheirHits ==
  tracks # NotPut =>
    \A pot \in PotsWithTrack, proj \in Projections :
      LET t == tracks[RPDecimalId(pot)]
          S == {x \in t.hits : Projection(x[1][2]) = proj}
          f == t.fit[proj]
      IN  /\ S = InPatterns(pot, proj)
          /\ Cardinality({x[1] : x \in S}) >= PlanesRequired(pot, proj)
          /\ IsStraight(S) => \A x \in S : f.x0 + f.tx * Place(x).z = f.den * Place(x).h

\* Whatever geometry finder and fitter met before: the lines of an event are found,
\* and its tracks are theirs.
TracksAreTheirHits == LinesAreFound /\ TracksFollowTheirHits

\* "planes contributing to fit" counts the hits of the fit, which are as many as its
\* planes only if no plane contributes twice: it is never less than the planes that a
\* fit takes, nor more than the clusters that those planes show.
PlanesInFit(pot, proj) == {x[1] : x \in {y \in tracks[RPDecimalId(pot)].hits : Projection(y[1][2]) = proj}}
FitPlots(pot, proj) ==
  LET planes == PlanesInFit(pot, proj)
      multiplicity == MapThenSumSet(LAMBDA d : plots.plane[d].hit_multiplicity, planes)
  IN \A n \in plots.pot[pot].h_planes_fit[proj] :
       /\ PlanesRequired(pot, proj) <= Cardinality(planes) /\ Cardinality(planes) <= n /\ n <= multiplicity
       /\ planes \subseteq {<<pot, q>> : q \in ActivePlanes(pot, proj)}

\* TotemRPDQMSource: a pot with a track is in the category of one track and its fit is
\* plotted from both projections; every track counts in one kind of pot of its arm and
\* is correlated with itself; pots of one arm do not share a bin of the correlation.
TrackPlots ==
  /\ \A pot \in PotsWithTrack :
       /\ plots.pot[pot].event_category = 2
       /\ \A proj \in Projections : FitPlots(pot, proj) /\ plots.pot[pot].h_planes_fit[proj] # {}
       /\ <<IndexInArm(pot), IndexInArm(pot)>> \in plots.arm[pot.arm].h_trackCorr
  /\ \A arm \in {0, 1} :
       LET n == plots.arm[arm].h_numRPWithTrack
           here == {pot \in PotsWithTrack : pot.arm = arm}
       IN  /\ n.top + n.hor + n.bot = Cardinality(here)
           /\ Cardinality(plots.arm[arm].h_trackCorr) = Cardinality(here \X here)

\* The plots of a plane count the same strips: the sizes of its clusters add up to its
\* digis, and there is one cluster, one hit and one entry of the profile for each; a pot
\* shows them all.
PlanePlotsAgree ==
  \A d \in Detectors :
    LET p == plots.plane[d]
    IN  /\ FoldLeft(LAMBDA n, size : n + size, 0, p.cluster_size) = Cardinality(p.digi_profile)
        /\ p.hit_multiplicity = Len(hits[d]) /\ p.hit_multiplicity = Cardinality(Range(p.cluster_profile))
        /\ {x[2] : x \in {y \in plots.pot[d[1]].hit_plane_hist : y[1] = d[2]}} = Range(p.cluster_profile)

\* What the layout of the detector bounds is always in the bins that were booked for it:
\* numbers of pots, planes and strips, and the event category.
LayoutIsShown ==
  /\ \A x \in plots.global.h_trackCorr_hor : Range(x) \subseteq GlobalBins.h_trackCorr_hor
  /\ \A arm \in {0, 1} :
       /\ Range(plots.arm[arm].h_numRPWithTrack) \subseteq ArmBins.h_numRPWithTrack
       /\ \A x \in plots.arm[arm].h_trackCorr : Range(x) \subseteq ArmBins.h_trackCorr
  /\ \A pot \in Pots :
       /\ plots.pot[pot].activity["U"] + plots.pot[pot].activity["V"] \in PotBins.activity
       /\ plots.pot[pot].hit_plane_hist \subseteq PotBins.hit_plane_hist
       /\ plots.pot[pot].event_category \in PotBins.event_category
  /\ \A d \in Detectors :
       /\ plots.plane[d].digi_profile \subseteq PlaneBins.digi_profile
       /\ Range(plots.plane[d].cluster_profile) \subseteq PlaneBins.cluster_profile

\* Four plots have no bins for a busy event, and lose exactly these: the multiplicity of
\* a plane with more than five groups of adjacent strips, the size of a cluster of more
\* than five, and, only then, the hits of a fit to which a plane contributes twice and
\* patterns of more hits than eleven times the threshold.
BusyEventsOverflow ==
  /\ \A d \in Detectors :
       LET strips == event.digi[d]
       IN  /\ plots.plane[d].hit_multiplicity \in PlaneBins.hit_multiplicity
                <=> Cardinality({s \in strips : s - 1 \notin strips}) <= 5
           /\ Range(plots.plane[d].cluster_size) \subseteq PlaneBins.cluster_size
                <=> ~\E s \in strips : s .. s + 5 \subseteq strips
  /\ \A pot \in Pots, proj \in Projections :
       /\ plots.pot[pot].h_planes_fit[proj] \subseteq PotBins.h_planes_fit
            \/ \E d \in PlanesInFit(pot, proj) : plots.plane[d].hit_multiplicity > 1
       /\ plots.pot[pot].patterns[proj] \in PotBins.patterns
            \/ Cardinality(HitsOf(pot, proj)) >= 11 * Threshold(pot, proj)

FillsAreShown == LayoutIsShown /\ BusyEventsOverflow

EventPlots == plots # NotPut => TrackPlots /\ PlanePlotsAgree /\ FillsAreShown

\* TotemRPDQMHarvester: at the end of a luminosity block the plot of a pot has, for
\* every plane, the efficiency that the plot of the plane has, over the same tracks, and
\* counts as many of its clusters at least as matched a track.
HarvestedPlots ==
  \A pot \in Pots :
    lumi = "ended" /\ rp_efficiency[pot] # NotPut =>
      \A q, r \in Planes :
        /\ rp_efficiency[pot][q] = efficiency[<<pot, q>>]
        /\ rp_efficiency[pot][q][2] = rp_efficiency[pot][r][2]
        /\ rp_efficiency[pot][q][1] <= rp_efficiency[pot][q][2]
        /\ rp_efficiency[pot][q][1] <= hit_ratio[pot][q][2]
        /\ hit_ratio[pot][q][1] <= hit_ratio[pot][q][2]

\* No two arms, stations, pots or planes that are booked for share a folder, in which the
\* harvester looks for their plots.
FoldersDiffer ==
  \* The folders of the store: bookHistograms books one for each arm, station, pot and plane.
  LET BookedIds(pots, planes) ==
        {StripId(arm, st, rp, pl, 0) : arm \in {0, 1}, st \in {0, 2}, rp \in pots, pl \in planes}
      pots == BookedIds(0 .. 5, {0})  planes == BookedIds(0 .. 5, 0 .. 9)
  IN  /\ Cardinality({ArmPath(id) : id \in pots}) = 2 /\ Cardinality({StationPath(id) : id \in pots}) = 4
      /\ Cardinality({RPPath(id) : id \in pots}) = Cardinality(pots)
      /\ Cardinality({PlanePath(id) : id \in planes}) = Cardinality(planes)

\* The plots of an event and those of a luminosity block agree with the tracks.
PlotsShowTheTracks == EventPlots /\ HarvestedPlots /\ (nEvents = 0 => FoldersDiffer)
===============================================================================
