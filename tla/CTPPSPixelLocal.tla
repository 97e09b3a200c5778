-------------------------- MODULE CTPPSPixelLocal -----------------------------
(* The chain of the pixel detectors: CTPPSPixelDigiProducer piles up the       *)
(* charges of the simulated hits and digitises them, CTPPSPixelClusterProducer *)
(* groups the digis of each detector around seeds (RPixDetClusterizer), and    *)
(* CTPPSPixelRecHitProducer makes a hit of each cluster.  The modules and the  *)
(* objects they own live as long as the job and are reused for each detector   *)
(* of each event.  How a hit becomes charges in pixels is an input.            *)
EXTENDS CTPPSPixelIndices, Sequences

CONSTANTS Detectors,      \* detector ids
          Events,         \* for each event of the job, the SimHitMaps it may have: detectors to sequences of hits, a hit being the charge it leaves in each pixel
          DeadPixelSets,  \* what SetDeadPixels may draw; only the empty set without RPixDeadPixelSimulationOn
          RPixDummyROCThreshold, RPixDummyROCElectronPerADC,
          SeedADCThreshold, ADCThreshold, ElectronADCGain,
          MAXSIZE,        \* pixels a cluster may have, 256
          MAXSPAN,        \* largest offset a cluster can hold, 127
          None            \* a detector that has no digitizer yet

Charges == [Pixels -> Nat]
ASSUME DetectorsAssumption == Detectors \subseteq Nat
ASSUME EventsAssumption ==
  /\ Len(Events) \in Nat /\ DOMAIN Events = 1 .. Len(Events)
  /\ \A n \in DOMAIN Events : \A m \in Events[n] :
       DOMAIN m \subseteq Detectors /\ \A d \in DOMAIN m : m[d] \in Seq(Charges)
ASSUME DeadPixelsAssumption == DeadPixelSets \subseteq SUBSET Pixels /\ None \notin DeadPixelSets
ASSUME ParametersAssumption ==
  /\ {RPixDummyROCThreshold, SeedADCThreshold, ADCThreshold, ElectronADCGain, MAXSPAN} \subseteq Nat
  /\ {RPixDummyROCElectronPerADC, MAXSIZE} \subseteq Nat \ {0}
  /\ ADCThreshold <= SeedADCThreshold

VARIABLES stage,          \* "event", "digitize", "pileup", "clusterize", "seeds", "cluster"
          event,          \* events begun
          SimHitMap,      \* the hits of the event
          theAlgoMap,     \* dead pixels of the digitizer of each detector
          pileUp,         \* the_pixel_charge_piled_up_map_ of each digitizer, 0 where it has no entry
          theDigiVector,  \* ADC counts of the pixels that have a digi
          todo, det,      \* detectors still to be treated, and the one being treated
          pending,        \* its hits still to be added
          calibDigis,     \* calib_rpix_digi_set_: electrons of the digis not in a cluster yet
          SeedVector,     \* electrons of the seeds still to be tried
          cluster, curr,  \* tempCluster: its pixels, and the one whose neighbours are being looked at
          clusters, hits  \* products of the event

input == <<event, SimHitMap>>
digitizers == <<theAlgoMap, pileUp, pending, theDigiVector>>
clusterizer == <<calibDigis, SeedVector, cluster, curr>>
vars == <<stage, input, digitizers, todo, det, clusterizer, clusters, hits>>

-------------------------------------------------------------------------------
NoDigis == [p \in {} |-> 0]
NoCharge == [p \in Pixels |-> 0]
Without(f, p) == [q \in (DOMAIN f) \ {p} |-> f[q]]

\* The order of a std::set of digis: the column, then the row, of the packed digi.
Before(p, q) == p.col < q.col \/ (p.col = q.col /\ p.row <= q.row)
IsFirst(p, S) == p \in S /\ \A q \in S : Before(p, q)

\* The pixels around p and p itself.
Near(p, q) == q.col \in p.col - 1 .. p.col + 1 /\ q.row \in p.row - 1 .. p.row + 1

Init ==
  /\ stage = "event" /\ event = 0
  /\ SimHitMap = [d \in {} |-> <<>>]
  /\ theAlgoMap = [d \in Detectors |-> None]
  /\ pileUp = [d \in Detectors |-> NoCharge]
  /\ theDigiVector = [d \in Detectors |-> NoDigis]
  /\ todo = {} /\ det = 0 /\ pending = <<>>
  /\ calibDigis = NoDigis /\ SeedVector = NoDigis
  /\ cluster = <<>> /\ curr = 0
  /\ clusters = [d \in Detectors |-> <<>>]
  /\ hits = [d \in Detectors |-> <<>>]

\* The framework begins an event, and the digi producer maps its hits.
MapHits ==
  /\ stage = "event" /\ event < Len(Events)
  /\ event' = event + 1 /\ SimHitMap' \in Events[event']
  /\ theDigiVector' = [d \in Detectors |-> NoDigis]
  /\ todo' = DOMAIN SimHitMap' /\ stage' = "digitize"
  /\ clusters' = [d \in Detectors |-> <<>>]
  /\ hits' = [d \in Detectors |-> <<>>]
  /\ UNCHANGED <<theAlgoMap, pileUp, pending, det, clusterizer>>

-------------------------------------------------------------------------------
(* CTPPSPixelDigiProducer::produce, a detector at a time                       *)

\* Variant with a fault: the charges of earlier events stay.
KeepSignals(d) == pileUp
ResetSignals(d) == [pileUp EXCEPT ![d] = NoCharge]

\* A detector's digitizer is made for its first hits; it draws its dead pixels
\* once.  run resets the pile-up.
RunDigitizer(d) ==
  /\ stage = "digitize" /\ d \in todo /\ \A e \in todo : d <= e
  /\ \E dead \in IF theAlgoMap[d] = None THEN DeadPixelSets ELSE {theAlgoMap[d]} :
       theAlgoMap' = [theAlgoMap EXCEPT ![d] = dead]
  /\ pileUp' = ResetSignals(d)
  /\ pending' = SimHitMap[d]
  /\ det' = d /\ todo' = todo \ {d} /\ stage' = "pileup"
  /\ UNCHANGED <<input, theDigiVector, clusterizer, clusters, hits>>

AddHit ==
  /\ stage = "pileup" /\ pending # <<>>
  /\ pileUp' = [pileUp EXCEPT ![det] = [p \in Pixels |-> @[p] + Head(pending)[p]]]
  /\ pending' = Tail(pending)
  /\ UNCHANGED <<stage, input, theAlgoMap, theDigiVector, todo, det, clusterizer, clusters, hits>>

\* The ROC's counter has ten bits.
ADC(charge) == LET adc == charge \div RPixDummyROCElectronPerADC IN IF adc > 1023 THEN 1023 ELSE adc
HasDigi(charge, p, dead) == charge[p] > RPixDummyROCThreshold /\ p \notin dead
Digis(charge, dead) == [p \in {q \in Pixels : HasDigi(charge, q, dead)} |-> ADC(charge[p])]

ConvertChargeToHits ==
  /\ stage = "pileup" /\ pending = <<>>
  /\ theDigiVector' = [theDigiVector EXCEPT ![det] = Digis(pileUp[det], theAlgoMap[det])]
  /\ stage' = "digitize"
  /\ UNCHANGED <<input, theAlgoMap, pileUp, pending, todo, det, clusterizer, clusters, hits>>

\* Only detectors that have digis get an entry in the product.
PutDigis ==
  /\ stage = "digitize" /\ todo = {}
  /\ todo' = {d \in Detectors : DOMAIN theDigiVector[d] # {}}
  /\ stage' = "clusterize"
  /\ UNCHANGED <<input, digitizers, det, clusterizer, clusters, hits>>

-------------------------------------------------------------------------------
(* RPixDetClusterizer                                                          *)

Calibrate(adc) == adc * ElectronADCGain
IsSeed(electrons) == electrons > SeedADCThreshold * ElectronADCGain
IsLit(electrons) == electrons > ADCThreshold * ElectronADCGain

\* The sets are cleared and filled for each detector.
FillSet(digis) == [p \in DOMAIN digis |-> Calibrate(digis[p])]
StoreSeeds(calib) == [p \in {q \in DOMAIN calib : IsSeed(calib[q])} |-> calib[p]]
BuildClusters(d) ==
  /\ stage = "clusterize" /\ d \in todo /\ \A e \in todo : d <= e
  /\ calibDigis' = FillSet(theDigiVector[d])
  /\ SeedVector' = StoreSeeds(calibDigis')
  /\ det' = d /\ todo' = todo \ {d} /\ stage' = "seeds"
  /\ UNCHANGED <<input, digitizers, cluster, curr, clusters, hits>>

\* The electrons are stored in sixteen bits.
Pixel(p, electrons) == [pixel |-> p, adc |-> electrons % 65536]

Erase(calib, p) == Without(calib, p)

\* A seed starts a cluster whether or not it is still in the set.
MakeCluster(s) ==
  /\ stage = "seeds" /\ IsFirst(s, DOMAIN SeedVector)
  /\ cluster' = <<Pixel(s, SeedVector[s])>> /\ curr' = 1
  /\ calibDigis' = Erase(calibDigis, s)
  /\ SeedVector' = Without(SeedVector, s)
  /\ stage' = "cluster"
  /\ UNCHANGED <<input, digitizers, todo, det, clusters, hits>>

Found(p) == {q \in DOMAIN calibDigis : Near(p, q) /\ IsLit(calibDigis[q])}

Full(c) == Len(c) >= MAXSIZE
AddPixel(q) ==
  /\ stage = "cluster" /\ curr <= Len(cluster) /\ ~Full(cluster)
  /\ IsFirst(q, Found(cluster[curr].pixel))
  /\ cluster' = Append(cluster, Pixel(q, calibDigis[q]))
  /\ calibDigis' = Erase(calibDigis, q)
  /\ UNCHANGED <<stage, input, digitizers, todo, det, SeedVector, curr, clusters, hits>>

\* Variant with a fault: at most some of the neighbours are taken.
NextPixelEarly ==
  /\ stage = "cluster" /\ curr <= Len(cluster)
  /\ curr' = curr + 1
  /\ UNCHANGED <<stage, input, digitizers, todo, det, calibDigis, SeedVector, cluster, clusters, hits>>
NextPixel ==
  /\ stage = "cluster" /\ curr <= Len(cluster)
  /\ Found(cluster[curr].pixel) = {}
  /\ curr' = curr + 1
  /\ UNCHANGED <<stage, input, digitizers, todo, det, calibDigis, SeedVector, cluster, clusters, hits>>

\* All neighbours have been looked at, or a pixel does not fit in (endClus).
PushCluster ==
  /\ stage = "cluster"
  /\ \/ curr > Len(cluster)
     \/ curr <= Len(cluster) /\ Found(cluster[curr].pixel) # {} /\ Full(cluster)
  /\ clusters' = [clusters EXCEPT ![det] = Append(@, cluster)]
  /\ cluster' = <<>> /\ curr' = 0 /\ stage' = "seeds"
  /\ UNCHANGED <<input, digitizers, todo, det, calibDigis, SeedVector, hits>>

EndDetector ==
  /\ stage = "seeds" /\ DOMAIN SeedVector = {}
  /\ stage' = "clusterize"
  /\ UNCHANGED <<input, digitizers, todo, det, clusterizer, clusters, hits>>

-------------------------------------------------------------------------------
(* CTPPSPixelCluster and RPixCluster2Hit                                       *)

Least(S) == CHOOSE x \in S : \A y \in S : x <= y
Greatest(S) == CHOOSE x \in S : \A y \in S : x >= y
Held(offset) == IF offset > MAXSPAN THEN MAXSPAN ELSE offset

PixelsOf(c) == {c[i].pixel : i \in DOMAIN c}
RowMin(c) == Least({p.row : p \in PixelsOf(c)})
ColMin(c) == Least({p.col : p \in PixelsOf(c)})
RowSpan(c) == Held(Greatest({p.row : p \in PixelsOf(c)}) - RowMin(c))
ColSpan(c) == Held(Greatest({p.col : p \in PixelsOf(c)}) - ColMin(c))

\* Where the cluster says that its pixel p is.
HeldPixel(c, p) == [row |-> RowMin(c) + Held(p.row - RowMin(c)), col |-> ColMin(c) + Held(p.col - ColMin(c))]

\* Variant with a fault: the last row and column are counted from one.
OnEdgeFromOne(c) ==
  \/ RowMin(c) = 0 \/ RowMin(c) + RowSpan(c) = RowsInDet
  \/ ColMin(c) = 0 \/ ColMin(c) + ColSpan(c) = ColsInDet
OnEdge(c) ==
  \/ RowMin(c) = 0 \/ RowMin(c) + RowSpan(c) = RowsInDet - 1
  \/ ColMin(c) = 0 \/ ColMin(c) + ColSpan(c) = ColsInDet - 1
SpansTwoRocs(c) ==
  \E i \in 2 .. Len(c) : GetROCId(HeldPixel(c, c[i].pixel)) # GetROCId(HeldPixel(c, c[1].pixel))

MakeHit(c) == [isOnEdge |-> OnEdge(c), hasBadPixels |-> \E i \in DOMAIN c : c[i].adc = 0, spanTwoRocs |-> SpansTwoRocs(c)]
BuildHits ==
  /\ stage = "clusterize" /\ todo = {}
  /\ hits' = [d \in Detectors |-> [i \in DOMAIN clusters[d] |-> MakeHit(clusters[d][i])]]
  /\ stage' = "event"
  /\ UNCHANGED <<input, digitizers, todo, det, clusterizer, clusters>>

Next ==
  \/ MapHits
  \/ \E d \in Detectors : RunDigitizer(d)
  \/ AddHit
  \/ ConvertChargeToHits
  \/ PutDigis
  \/ \E d \in Detectors : BuildClusters(d)
  \/ \E s \in Pixels : MakeCluster(s)
  \/ \E q \in Pixels : AddPixel(q)
  \/ NextPixel
  \/ PushCluster
  \/ EndDetector
  \/ BuildHits

Spec == Init /\ [][Next]_vars

-------------------------------------------------------------------------------

\* Pixels of the detectors in clusters so far.
Clustered(d) == UNION {PixelsOf(clusters[d][i]) : i \in DOMAIN clusters[d]}
Connected(c) ==
  /\ \A i \in 2 .. Len(c) : \E j \in 1 .. i - 1 : Near(c[j].pixel, c[i].pixel)
  /\ \A i, j \in DOMAIN c : i # j => c[i].pixel # c[j].pixel

\* A cluster grows from its seed through neighbours, each taken once, and takes
\* them all: a lit pixel next to a cluster that is not full is in a cluster
\* (make_cluster: the erasures from the set while it is scanned).
GrownFromSeeds ==
  /\ Connected(cluster)
  /\ \A d \in Detectors : \A i \in DOMAIN clusters[d] : Connected(clusters[d][i])
  /\ stage = "seeds" =>
       \A i \in DOMAIN clusters[det] : \A p \in PixelsOf(clusters[det][i]) :
         Full(clusters[det][i]) \/ Found(p) = {}

\* A pixel is in two clusters only if it is a seed that another cluster had
\* taken; then it starts the later one, and is alone in it unless the cluster
\* that took it was full (seeds are copied before any is used).
SharedOnlyAsSeeds ==
  \A d \in Detectors : \A j \in DOMAIN clusters[d] : \A i \in 1 .. j - 1 :
    LET shared == PixelsOf(clusters[d][i]) \cap PixelsOf(clusters[d][j])
    IN  shared # {} => /\ shared = {clusters[d][j][1].pixel}
                       /\ Full(clusters[d][i]) \/ Len(clusters[d][j]) = 1

\* Clusters are the connected sets of lit pixels, shared seeds apart.
ClustersAreComponents == GrownFromSeeds /\ SharedOnlyAsSeeds

\* What the hits of the event leave in a pixel of a detector.
Deposited(d, p) ==
  LET total[i \in 0 .. Len(SimHitMap[d])] == IF i = 0 THEN 0 ELSE total[i - 1] + SimHitMap[d][i][p]
  IN  total[Len(SimHitMap[d])]
Signal(d) == [p \in Pixels |-> IF d \in DOMAIN SimHitMap THEN Deposited(d, p) ELSE 0]
ElectronsIn(signal, p, dead) == IF HasDigi(signal, p, dead) THEN Calibrate(ADC(signal[p])) ELSE 0

\* The clusters of a detector show what the hits of this event left in it and
\* nothing else: every pixel above the threshold of seeds is in a cluster, every
\* pixel of a cluster is lit, with its charge, and every cluster has a seed.
ClustersShowTheEvent ==
  stage = "event" =>
    \A d \in Detectors :
      LET signal == Signal(d)
      IN  /\ \A p \in Pixels : IsSeed(ElectronsIn(signal, p, theAlgoMap[d])) => p \in Clustered(d)
          /\ \A i \in DOMAIN clusters[d] :
               /\ IsSeed(ElectronsIn(signal, clusters[d][i][1].pixel, theAlgoMap[d]))
               /\ \A k \in DOMAIN clusters[d][i] :
                    LET e == ElectronsIn(signal, clusters[d][i][k].pixel, theAlgoMap[d])
                    IN  IsLit(e) /\ clusters[d][i][k].adc = e % 65536

InROC(rocId) == {TransformToModule(q, rocId) : q \in ROCPixels}

\* There is a hit for each cluster, and it tells whether the cluster touches the
\* edge of the sensor and whether it lies in one ROC, for clusters that fit into
\* the offsets they are stored with.
HitsDescribeTheirClusters ==
  stage = "event" =>
    \A d \in Detectors :
      /\ Len(hits[d]) = Len(clusters[d])
      /\ \A i \in DOMAIN clusters[d] :
           LET ps == PixelsOf(clusters[d][i])
           IN  (\A p, q \in ps : p.row - q.row <= MAXSPAN /\ p.col - q.col <= MAXSPAN) =>
                 /\ hits[d][i].isOnEdge <=> \E p \in ps : IsOnEdge(p)
                 /\ hits[d][i].spanTwoRocs <=> \A k \in ROCs : ~ ps \subseteq InROC(k)
===============================================================================
