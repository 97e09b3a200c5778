------------------------- MODULE MCCTPPSPixelLocal ----------------------------
(* Model-checking instances of the pixel chain.  Each behaviour plays one      *)
(* scene: digis, clusters and hits of a sensor of 4 x 3 pixels; or the charges *)
(* that hits leave in a sensor of the real size.                               *)
EXTENDS CTPPSPixelLocal, FiniteSets, TLC

\* Charges: below the threshold of a digi, a digi that is not lit, lit, a seed,
\* a seed whose electrons overflow sixteen bits.
Below == 1500  Dim == 2200  Lit == 2400  Bright == 10800  Huge == 140000

Hit(levels) == [p \in Pixels |-> IF p \in DOMAIN levels THEN levels[p] ELSE 0]
HitsOn(sets, levels) == UNION {{Hit(f) : f \in [S -> levels]} : S \in sets}
SetsOf(k, pixels) == {S \in SUBSET pixels : Cardinality(S) = k}
Corner == {p \in Pixels : p.row <= 2 /\ p.col <= 1}

\* First event: any two pixels, any three pixels in one column or one row, four
\* pixels of a corner; or three hits of two detectors that pile up.
Lines == {S \in SetsOf(3, Pixels) : \A p, q \in S : p.col = q.col} \cup {{p \in Pixels : p.row = r} : r \in 0 .. 3}
Shapes ==
  HitsOn({{}} \cup SetsOf(1, Pixels), {Dim, Huge}) \cup HitsOn(SetsOf(2, Pixels), {Dim, Lit, Bright})
  \cup HitsOn(Lines, {Dim, Lit, Bright}) \cup HitsOn(SetsOf(4, Corner), {Lit, Bright})
Points == HitsOn({{p} : p \in Corner}, {Below, Lit})
First == {1 :> <<h>> : h \in Shapes} \cup {(1 :> <<g, h>>) @@ (2 :> <<g>>) : g, h \in Points}

\* Second event: the same two pixels in both detectors.
Pair == {p \in Pixels : p.col = 1 /\ p.row \in {1, 2}}
Second == {(1 :> <<h>>) @@ (2 :> <<h>>) : h \in HitsOn({Pair}, {Dim, Bright})}
TwoEvents == <<First, Second>>

OnePixel == {{}, {[row |-> 1, col |-> 1]}}

-------------------------------------------------------------------------------
VARIABLES scene, simHits, simHit, chargeMap, analyzer

\* A path from u, v, counted from the corner of the sensor, to u + du, v + dv.
Path(u, du, v, dv) ==
  [entry |-> <<u - 8300, v - 12200, 0>>, exit |-> <<u + du - 8300, v + dv - 12200, 230>>, eLoss |-> 2]

\* Inside a chip; over each border of chips, wide pixels and plain ones; at the
\* rims, along them, and over them; longer than the sensor; in the pixel that is
\* analysed, and from one of its neighbours to the other.
Paths ==
  {Path(5013, 40, 5017, 80), Path(8070, 60, 7830, 40), Path(8250, 100, 8110, 80),
   Path(8470, 60, 8410, 80), Path(8550, 100, 15930, 40), Path(5013, 100, 16210, 80),
   Path(11090, 40, 16510, 80), Path(20, 40, 30, 40), Path(270, 60, 320, 60),
   Path(16270, 60, 24030, 40), Path(16570, 40, 24310, 80), Path(16590, 80, 9010, 40),
   Path(10010, 40, -30, 80), Path(9010, 200004, 9010, 40),
   Path(7180, 140, 3710, 20), Path(7230, 40, 3760, 60)}

Sensor ==
  INSTANCE RPixHitChargeConverter WITH
    ROCSizeInX <- 80, ROCSizeInY <- 52, PSimHits <- Paths, ChargeDivisions <- 2,
    LandauFluctuations <- TRUE, Coupling <- 50, ActiveEdge <- 150, Percents <- {50, 100},
    MaxSimHits <- 2

charges == <<simHits, simHit, chargeMap, analyzer>>

AllInit == scene \in {"digis", "charges"} /\ Init /\ Sensor!ConverterInit

AllNext ==
  \/ scene = "digis" /\ Next /\ UNCHANGED <<scene, charges>>
  \/ scene = "charges" /\ Sensor!ProcessHit /\ UNCHANGED <<scene, vars>>
  \/ scene = "charges" /\ Sensor!Analyze /\ UNCHANGED <<scene, vars>>
  \/ scene = "charges" /\ Sensor!EndJob /\ UNCHANGED <<scene, vars>>

AllSpec == AllInit /\ [][AllNext]_<<scene, vars, charges>>

\* The pixels show what was simulated, from the hits to the charges and from
\* the charges to the clusters (the properties of the two scenes); and clusters around
\* the analysed pixel are counted once, by their size.
PixelsShowTheEvent == ClustersShowTheEvent /\ Sensor!ChargeIsWhereTheHitIs /\ Sensor!ClustersAreCounted
===============================================================================
