----------------------- MODULE RPixHitChargeConverter -------------------------
(* SimCTPPS/CTPPSPixelDigiProducer: the charges one simulated hit leaves in    *)
(* the pixels of a sensor.  RPixLinearChargeDivider cuts its path into pieces, *)
(* RPixLinearChargeCollectionDrifter makes a cloud of each, and                *)
(* RPixLinearInduceCharge gives each cloud to the pixel it is in, sharing with *)
(* the nearest neighbour.  The converter lives as long as the digitizer of its *)
(* detector.  Charges count millionths of the unit of energy.                  *)
EXTENDS CTPPSPixelIndices, FiniteSetsExt

-------------------------------------------------------------------------------
(* Geometry/VeryForwardGeometry: which pixel lies where in a sensor.  Between  *)
(* readout chips pixels are twice as wide, at the rim they reach into the dead *)
(* edge.  One table leads from a position to its pixel, the other back; both   *)
(* are written out by hand.  Lengths are micrometres from the centre of the    *)
(* sensor, on no border of two pixels.                                         *)

PitchSimX == 100
PitchSimY == 150
SimXWidth == 16600
SimYWidth == 24400
DeadEdgeWidth == 200

\* Where the nth pixel from the edge would begin if all were of one size.
AtX(n) == DeadEdgeWidth + n * PitchSimX
AtY(n) == DeadEdgeWidth + n * PitchSimY

\* Variant with a fault: the chips adjoin without wide pixels.
UniformRow(x) ==
  LET n == (x + SimXWidth \div 2 - DeadEdgeWidth) \div PitchSimX
  IN IF n > 159 THEN 0 ELSE IF n < 0 THEN 159 ELSE 159 - n

\* Rows are counted against x.
Row(x) ==
  LET u == x + SimXWidth \div 2
  IN 159 - CASE u <= AtX(1)   -> 0
             [] u \in AtX(1) + 1 .. AtX(79)   -> ((u - AtX(1)) \div PitchSimX) + 1
             [] u \in AtX(79) + 1 .. AtX(81)  -> 79
             [] u \in AtX(81) + 1 .. AtX(83)  -> 80
             [] u \in AtX(83) + 1 .. AtX(162) -> ((u - AtX(1)) \div PitchSimX) - 1
             [] u > AtX(162)  -> 159

Col(y) ==
  LET u == y + SimYWidth \div 2
  IN CASE u <= AtY(1)   -> 0
       [] u \in AtY(1) + 1 .. AtY(51)    -> ((u - AtY(1)) \div PitchSimY) + 1
       [] u \in AtY(51) + 1 .. AtY(53)   -> 51
       [] u \in AtY(53) + 1 .. AtY(55)   -> 52
       [] u \in AtY(55) + 1 .. AtY(105)  -> ((u - AtY(1)) \div PitchSimY) - 1
       [] u \in AtY(105) + 1 .. AtY(107) -> 103
       [] u \in AtY(107) + 1 .. AtY(109) -> 104
       [] u \in AtY(109) + 1 .. AtY(159) -> ((u - AtY(1)) \div PitchSimY) - 3
       [] u > AtY(159)  -> 155

\* PixelRange, first the rows: borders counted from the end of the first pixel.
RangeX(row) ==
  LET r == 159 - row
      range == CASE r = 0          -> <<0, AtX(1)>>
                 [] r \in 1 .. 78   -> <<AtX(r), AtX(r + 1)>>
                 [] r = 79          -> <<AtX(r), AtX(r + 2)>>
                 [] r = 80          -> <<AtX(r + 1), AtX(r + 3)>>
                 [] r \in 81 .. 158 -> <<AtX(r + 2), AtX(r + 3)>>
                 [] r = 159         -> <<AtX(r + 2), AtX(r + 5)>>
  IN [i \in 1 .. 2 |-> range[i] - SimXWidth \div 2]

RangeY(col) ==
  LET range == CASE col = 0            -> <<0, AtY(1)>>
                 [] col \in 1 .. 50    -> <<AtY(col), AtY(col + 1)>>
                 [] col = 51           -> <<AtY(col), AtY(col + 2)>>
                 [] col = 52           -> <<AtY(col + 1), AtY(col + 3)>>
                 [] col \in 53 .. 102  -> <<AtY(col + 2), AtY(col + 3)>>
                 [] col = 103          -> <<AtY(col + 2), AtY(col + 4)>>
                 [] col = 104          -> <<AtY(col + 3), AtY(col + 5)>>
                 [] col \in 105 .. 154 -> <<AtY(col + 4), AtY(col + 5)>>
                 [] col = 155          -> <<AtY(col + 4), AtY(col + 5) + 200>>
  IN [i \in 1 .. 2 |-> range[i] - SimYWidth \div 2]

PixelIndex(row, col) == col * 160 + row
Index2RowCol(index)  == [row |-> index % 160, col |-> index \div 160]

\* GetPixelsInvolved: the one pixel around the position.
PixelInvolved(x, y) == [row |-> Row(x), col |-> Col(y)]

-------------------------------------------------------------------------------

CONSTANTS PSimHits,        \* hits: [entry, exit: <<x, y, z>>, eLoss]
          ChargeDivisions, \* RPixChargeDivisions
          LandauFluctuations,
          Coupling,        \* RPixCoupling, percent of the charge a pixel does not keep; 0: nothing is shared
          ActiveEdge,      \* RPixActiveEdgePosition
          Percents,        \* efficiencies at the edge, and parts the charge map keeps
          MaxSimHits       \* bound: hits of the detector

VARIABLES simHits,   \* hits processed
          simHit,    \* the last one
          chargeMap, \* thePixelChargeMap
          analyzer   \* CTPPSPixelDigiAnalyzer: events analysed, counters, entries of the plots, their file

NoMap == [i \in {} |-> 0]

\* The analyzer's constructor books the plots in a file, beginJob clears the counters.
AnalyzerInit ==
  analyzer = [events |-> 0, found |-> 0, cumulative |-> <<0, 0, 0>>,
              allHits |-> 0, oneHit |-> 0, oneHit2 |-> 0, file |-> "open"]

ConverterInit == simHits = 0 /\ simHit = <<>> /\ chargeMap = NoMap /\ AnalyzerInit

SumOver(f, S) == MapThenSumSet(LAMBDA i : f[i], S)

-------------------------------------------------------------------------------
(* RPixLinearChargeDivider.                                                    *)

Abs(n) == IF n < 0 THEN -n ELSE n

\* Paths longer than a sensor can be are not divided.
TooLong(hit) == hit.exit[3] - hit.entry[3] > 10000 \/ \E i \in 1 .. 2 : hit.exit[i] - hit.entry[i] > 200000

Segments(hit) == IF TooLong(hit) THEN {} ELSE 1 .. ChargeDivisions

\* The middle of each segment.
Position(hit, k, i) == hit.entry[i] + (((2 * k - 1) * (hit.exit[i] - hit.entry[i])) \div (2 * ChargeDivisions))

\* Even parts, or fluctuating ones, which are rescaled to the energy of the hit.
Energies(hit) ==
  IF LandauFluctuations
  THEN {e \in [Segments(hit) -> 0 .. hit.eLoss] : Segments(hit) # {} => SumOver(e, Segments(hit)) = hit.eLoss}
  ELSE {[k \in Segments(hit) |-> hit.eLoss \div ChargeDivisions]}

-------------------------------------------------------------------------------
(* RPixLinearInduceCharge.                                                     *)

\* Drift: charges go straight to the plane of the pixels.
Cloud(hit, k) == [x |-> Position(hit, k, 1), y |-> Position(hit, k, 2)]

Clouds(hit) ==
  LET InSensor(x, y) ==
        /\ x + SimXWidth \div 2 \in 0 .. SimXWidth
        /\ y + SimYWidth \div 2 \in 0 .. SimYWidth
  IN {k \in Segments(hit) : InSensor(Cloud(hit, k).x, Cloud(hit, k).y)}
PixelOf(hit, k) == PixelInvolved(Cloud(hit, k).x, Cloud(hit, k).y)

\* Deeper inside than the active edge, which is smeared, nothing is lost.
InActive(hit, k) ==
  /\ Abs(Cloud(hit, k).x) <= (SimXWidth \div 2) - 2 * ActiveEdge
  /\ Abs(Cloud(hit, k).y) <= (SimYWidth \div 2) - 2 * ActiveEdge

Neighbours(p) == {q \in [row : p.row - 1 .. p.row + 1, col : p.col - 1 .. p.col + 1] :
                    q # p /\ q.row \in 0 .. 159 /\ q.col \in 0 .. 155}

\* Twice the distance to the centre of a pixel, squared.
Distance(c, q) ==
  LET dx == 2 * c.x - RangeX(q.row)[1] - RangeX(q.row)[2]
      dy == 2 * c.y - RangeY(q.col)[1] - RangeY(q.col)[2]
  IN dx * dx + dy * dy

\* The first of the nearest ones, rows first.
Closer(c, p) ==
  CHOOSE q \in Neighbours(p) : \A r \in Neighbours(p) \ {q} :
    \/ Distance(c, q) < Distance(c, r)
    \/ Distance(c, q) = Distance(c, r) /\ (q.row < r.row \/ (q.row = r.row /\ q.col < r.col))

CloserTo(hit, k) == Closer(Cloud(hit, k), PixelOf(hit, k))

\* Variant with a fault: the map of the last hit goes on.
NotStarted(map) == map
Started(map) == NoMap

Add(map, index, charge) ==
  [i \in DOMAIN map \cup {index} |->
     (IF i \in DOMAIN map THEN map[i] ELSE 0) + (IF i = index THEN charge ELSE 0)]

\* The pixel of each cloud and the one it shares with.
Places(hit) ==
  [k \in Clouds(hit) |-> [pixelNo  |-> PixelIndex(PixelOf(hit, k).row, PixelOf(hit, k).col),
                          closerNo |-> PixelIndex(CloserTo(hit, k).row, CloserTo(hit, k).col)]]

\* Induce: the pixel keeps the part that the charge map says.
Induce(map, places, energy, eff, keep) ==
  LET shared(m, k) == Add(Add(m, places[k].pixelNo, energy[k] * eff[k] * keep[k] * 100),
                          places[k].closerNo, energy[k] * eff[k] * (100 - keep[k]) * Coupling)
      induced[n \in 0 .. ChargeDivisions] ==
        IF n = 0 THEN Started(map)
        ELSE IF n \notin DOMAIN places THEN induced[n - 1]
        ELSE IF Coupling > 0 THEN shared(induced[n - 1], n)
        ELSE Add(induced[n - 1], places[n].pixelNo, energy[n] * eff[n] * 10000)
  IN induced[ChargeDivisions]

\* RPixHitChargeConverter::processHit, for the hit of an event; the last event has
\* been analysed.
ProcessHit ==
  LET EffFactors(hit) == {f \in [Clouds(hit) -> Percents] : \A k \in Clouds(hit) : InActive(hit, k) => f[k] = 100}
  IN
  /\ simHits < MaxSimHits /\ analyzer.file = "open" /\ analyzer.events = simHits
  /\ simHits' = simHits + 1
  /\ simHit' \in PSimHits
  /\ \E places \in {Places(simHit')} :
       \E energy \in Energies(simHit'), eff \in EffFactors(simHit'), keep \in [DOMAIN places -> Percents] :
         chargeMap' = Induce(chargeMap, places, energy, eff, keep)
  /\ UNCHANGED analyzer

-------------------------------------------------------------------------------
(* CTPPSPixelDigiAnalyzer: of the events that hit one pixel of one detector,   *)
(* whether the pixel fired and how many of its four neighbours did too.        *)

SelectedPixel == [row |-> 89, col |-> 23]

\* The middle of the hit is inside the pixel, borders excluded (USE_MIDDLE_OF_PIXEL_2).
HitsSelectedPixel(hit) ==
  LET x == RangeX(SelectedPixel.row)  twiceX == hit.entry[1] + hit.exit[1]
      y == RangeY(SelectedPixel.col)  twiceY == hit.entry[2] + hit.exit[2]
  IN 2 * x[1] < twiceX /\ twiceX < 2 * x[2] /\ 2 * y[1] < twiceY /\ twiceY < 2 * y[2]

\* Nothing is looked for unless the pixel itself has a digi; diagonal neighbours do not count.
DigiClusterSize(digis) ==
  IF SelectedPixel \notin digis THEN 0
  ELSE 1 + Cardinality({p \in digis : Abs(p.row - SelectedPixel.row) + Abs(p.col - SelectedPixel.col) = 1})

\* Variant with a fault: a cluster of three still has a counter of its own.
CountedThree(a, size) ==
  IF size = 0 THEN a
  ELSE [a EXCEPT !.found = @ + 1, !.oneHit = @ + 1, !.cumulative[IF size < 3 THEN size ELSE 3] = @ + 1,
                 !.oneHit2 = IF size > 2 THEN @ + 1 ELSE @]

Counted(a, size) ==
  IF size = 0 THEN a
  ELSE [a EXCEPT !.found = @ + 1, !.oneHit = @ + 1, !.cumulative[IF size < 3 THEN size ELSE 3] = @ + 1,
                 !.oneHit2 = IF size > 1 THEN @ + 1 ELSE @]

\* An event with the last hit; the readout chips decide which pixels with charge
\* have digis.  Without a hit there, or in another detector than the selected one,
\* nothing is counted.
Analyze ==
  /\ analyzer.file = "open" /\ analyzer.events < simHits
  /\ \/ /\ HitsSelectedPixel(simHit)
        /\ \E digis \in SUBSET {Index2RowCol(i) : i \in DOMAIN chargeMap} :
             analyzer' = Counted([analyzer EXCEPT !.events = simHits, !.allHits = @ + 1], DigiClusterSize(digis))
     \/ analyzer' = [analyzer EXCEPT !.events = simHits]
  /\ UNCHANGED <<simHits, simHit, chargeMap>>

\* endJob: the file owns the plots and deletes them when it is closed; they are
\* then deleted once more.
EndJob ==
  /\ analyzer.file = "open"
  /\ \E outcome \in {"written", "crashed"} : analyzer' = [analyzer EXCEPT !.file = outcome]
  /\ UNCHANGED <<simHits, simHit, chargeMap>>

\* The analyzer's counters and plots agree: every cluster is counted once, by its
\* size, and plotted so, and only for a hit of the pixel.
ClustersAreCounted ==
  /\ analyzer.found = analyzer.cumulative[1] + analyzer.cumulative[2] + analyzer.cumulative[3]
  /\ analyzer.oneHit = analyzer.found /\ analyzer.found <= analyzer.allHits
  /\ analyzer.oneHit2 = analyzer.cumulative[2] + analyzer.cumulative[3]

-------------------------------------------------------------------------------

Inside(value, range) == range[1] <= value /\ value <= range[2]
Holds(p, hit, k) == /\ Inside(Cloud(hit, k).x, RangeX(p.row))
                    /\ Inside(Cloud(hit, k).y, RangeY(p.col))

\* No pixel but the one that holds the cloud is nearer than the one it shares with.
IsNextTo(p, hit, k) ==
  \E q \in Neighbours(p) : /\ Holds(q, hit, k)
                           /\ \A r \in Neighbours(q) : Distance(Cloud(hit, k), p) <= Distance(Cloud(hit, k), r)

\* Charge is where this hit went: a pixel has some only if a piece of the path
\* lies within its borders or, if charge is shared, next to them; a pixel that
\* holds a piece is named by the table of positions; and the hit's energy is
\* not doubled, nor lost but at the edge and by the coupling.  A pixel with charge
\* has one address in its chip that leads back to it.
ChargeIsWhereTheHitIs ==
  analyzer.events < simHits =>
    /\ \A i \in DOMAIN chargeMap : \E k \in Clouds(simHit) :
         Holds(Index2RowCol(i), simHit, k) \/ (Coupling > 0 /\ IsNextTo(Index2RowCol(i), simHit, k))
    /\ \A k \in Clouds(simHit) : Holds(PixelOf(simHit, k), simHit, k)
    /\ SumOver(chargeMap, DOMAIN chargeMap) <= simHit.eLoss * 1000000
    /\ (Clouds(simHit) # {} /\ \A k \in Segments(simHit) : k \in Clouds(simHit) /\ InActive(simHit, k))
         => SumOver(chargeMap, DOMAIN chargeMap)
              >= simHit.eLoss * 10000 * (IF Coupling = 0 THEN 100 ELSE Coupling)
    /\ \A i \in DOMAIN chargeMap : IsAddressed(Index2RowCol(i))
===============================================================================
