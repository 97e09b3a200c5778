------------------------------ MODULE TrackSteps ------------------------------
(***************************************************************************)
(* SimG4Core/Application: which tracks Geant4 follows and how far.          *)
(* StackingAction says of every new track whether it is tracked, and plays  *)
(* Russian roulette with neutrons and gammas; SteppingAction stops tracks   *)
(* after a step.  Energies and times are small integers; 1/probability      *)
(* stands for the probability of surviving the roulette.                    *)
(*                                                                          *)
(* SimG4CMS/CTPPS: between the two the sensitive detectors of the pixel     *)
(* planes (CTPPSSD) and of the timing bars (CTPPS_Timing_SD) see the step,  *)
(* if it is in their volumes; they keep a collection of hits, which the end *)
(* of the event copies to a slave.  A step says where it began: "touch" is  *)
(* the touchable, the volumes around the point from the innermost outwards. *)
(*                                                                          *)
(* Fast simulation has a part of its own: the processes and shower models   *)
(* that ParametrisedEMPhysics sets up (GFlash, ElectronLimiter).            *)
(***************************************************************************)
EXTENDS CTPPSDetId, Sequences, FiniteSets, SequencesExt

CONSTANT MaxHits  \* hits copied to the slave, 15000 in the code

ASSUME MaxHitsAssumption == MaxHits \in Nat

VARIABLES pixelSD,   \* members of CTPPSSD and of its CTPPSPixelOrganization
          timingSD   \* members of CTPPS_Timing_SD

sdVars == <<pixelSD, timingSD>>

NoHit == 0

NewPixelSD  == [hits |-> <<>>, currentHit |-> NoHit, tsID |-> -2, primID |-> -2,
                previousUnitID |-> 0, slave |-> <<>>,
                org |-> [arm |-> -1, station |-> -1, rp |-> -1, plane |-> -1]]
NewTimingSD == [hits |-> <<>>, switchF |-> {-1}, switchS |-> {-1}, slave |-> <<>>]

SDInit == pixelSD = NewPixelSD /\ timingSD = NewTimingSD

\* A copy number of a pot's vacuum: hundreds, tens and ones.
PotOfCopy(copyNo) == [arm |-> (copyNo \div 100) % 10, station |-> (copyNo \div 10) % 10,
                      rp |-> copyNo % 10]

-----------------------------------------------------------------------------
(* The touchable: the copy number of the volumes of some names.              *)

Named(touch, names) == {k \in DOMAIN touch : touch[k].name \in names}

Has(touch, names) == Named(touch, names) # {}

\* Volumes are visited outwards, and the last one counts.
CopyNo(touch, names) ==
  IF Has(touch, names) THEN touch[Max(Named(touch, names))].copyNo ELSE 0

-----------------------------------------------------------------------------
(* CTPPSPixelOrganization::GetUnitID.  What no volume tells stays as the     *)
(* last step left it.                                                        *)

PixelPlace(org, touch) ==
  LET pot == IF Has(touch, {"RP_box_primary_vacuum"})
             THEN PotOfCopy(CopyNo(touch, {"RP_box_primary_vacuum"})) ELSE org
  IN  [arm |-> pot.arm, station |-> pot.station, rp |-> pot.rp,
       plane |-> IF Has(touch, {"Envelop"}) THEN CopyNo(touch, {"Envelop"}) - 1 ELSE org.plane]

PixelUnit(org) == PixelId(org.arm, org.station, org.rp, org.plane)

-----------------------------------------------------------------------------
(* CTPPSSD.                                                                  *)

\* Variant with a fault: the last slice is that of the last event.
SliceIsKept(sd) == [sd EXCEPT !.hits = <<>>, !.slave = <<>>]

\* Initialize, at the begin of an event; the current hit belonged to a
\* collection that is gone.  The signal BeginOfEvent then clears the slave.
PixelInitialized(sd) ==
  [sd EXCEPT !.hits = <<>>, !.tsID = -2, !.primID = -2, !.slave = <<>>]

\* UpdateHit: the energy of the hit is that of the last step, not the sum.
UpdateHit(sd, hit, step, unit) ==
  [sd EXCEPT !.currentHit = hit,
             !.hits = IF step.edeposit > 0 THEN [@ EXCEPT ![hit].energyLoss = step.edeposit] ELSE @,
             !.tsID = step.slice, !.primID = step.track, !.previousUnitID = unit]

\* CreateNewHit and StoreHit.
NewHit(sd, step, unit) ==
  [sd EXCEPT !.hits = Append(@, [track |-> step.track, slice |-> step.slice, unit |-> unit,
                                 energyLoss |-> step.edeposit])]

\* HitExists: the hits of the track, the slice and the unit.
Matching(sd, step, unit) ==
  {k \in DOMAIN sd.hits : /\ sd.hits[k].track = step.track
                          /\ sd.hits[k].slice = step.slice
                          /\ sd.hits[k].unit = unit}

\* A step in the same slice and unit as the last one is of the last hit,
\* whatever its track; the test of the track is commented out.
SameAsLast(sd, step, unit) == step.slice = sd.tsID /\ unit = sd.previousUnitID

\* ProcessHits.  CreateNewHitEvo is for the units 1111 and 2222, which no
\* identifier is.
Recorded(sd, step, unit) ==
  IF SameAsLast(sd, step, unit) THEN UpdateHit(sd, sd.currentHit, step, unit)
  ELSE IF Matching(sd, step, unit) # {} THEN UpdateHit(sd, Min(Matching(sd, step, unit)), step, unit)
  ELSE IF step.edeposit > 0
       THEN UpdateHit(NewHit(sd, step, unit), Len(sd.hits) + 1, step, unit)
       ELSE sd

PixelProcessHits(sd, step) ==
  Recorded([sd EXCEPT !.org = PixelPlace(@, step.touch)], step,
           PixelUnit(PixelPlace(sd.org, step.touch)))

\* EndOfEvent.
CopiedToSlave(sd) == [sd EXCEPT !.slave = SubSeq(sd.hits, 1, Min({Len(sd.hits), MaxHits}))]

-----------------------------------------------------------------------------
(* CTPPSTimingOrganization::GetUnitID: the copy number of the bar or of the  *)
(* photodetector is the plane of the identifier.                             *)

TimingPlace(touch) ==
  LET pot == PotOfCopy(CopyNo(touch, {"CTPPS_Timing_Cylinder_Primary_Vacuum"}))
  IN [arm |-> pot.arm, station |-> pot.station, rp |-> pot.rp,
      plane |-> CopyNo(touch, {"PhotoDetector_Window", "QLbar"})]

TimingUnit(place) ==
  DiamondId(place.arm, place.station, place.rp, place.plane, 0)

-----------------------------------------------------------------------------
(* CTPPS_Timing_SD.  switchF and switchS (theTrackSwitchVecF and S) are the  *)
(* charged tracks that already have a hit in the first and second box; only  *)
(* the end of an event forgets them.                                         *)

TimingInitialized(sd) ==
  [sd EXCEPT !.hits = <<>>, !.switchF = @ \cup {-1}, !.switchS = @ \cup {-1}, !.slave = <<>>]

\* ImportInfotoHit; the energy of a timing hit is the whole energy of the track.
WithTimingHit(sd, step) ==
  [sd EXCEPT !.hits = Append(@, [track |-> step.track, slice |-> step.slice,
                                 unit |-> TimingUnit(TimingPlace(step.touch)),
                                 energyLoss |-> step.energy])]

AtWindow(step) == step.touch[1].name = "PhotoDetector_Window"

InBar(step, box) ==
  step.touch[1].name = "QLbar" /\ step.pdg # "opticalphoton" /\ step.touch[2].name = box

\* ProcessHits; a particle that comes to the window is killed there (see
\* StoppedBySD).
TimingProcessHits(sd, step) ==
  IF AtWindow(step) THEN WithTimingHit(sd, step)
  ELSE IF InBar(step, "CTPPS_Timing_Box_First") /\ step.track \notin sd.switchF
       THEN [WithTimingHit(sd, step) EXCEPT !.switchF = @ \cup {step.track}]
  ELSE IF InBar(step, "CTPPS_Timing_Box_Second") /\ step.track \notin sd.switchS
       THEN [WithTimingHit(sd, step) EXCEPT !.switchS = @ \cup {step.track}]
  ELSE sd

\* EndOfEvent.
TimingForgotten(sd) == [CopiedToSlave(sd) EXCEPT !.switchF = {}, !.switchS = {}]

-----------------------------------------------------------------------------
(* Both, as Geant4 calls them.                                               *)

BeginSDs ==
  /\ pixelSD' = PixelInitialized(pixelSD)
  /\ timingSD' = TimingInitialized(timingSD)

HitSDs(step) ==
  /\ pixelSD' = IF step.readout = "CTPPSPixelHits" THEN PixelProcessHits(pixelSD, step) ELSE pixelSD
  /\ timingSD' = IF step.readout = "CTPPSTimingHits" THEN TimingProcessHits(timingSD, step) ELSE timingSD

StoppedBySD(step) == step.readout = "CTPPSTimingHits" /\ AtWindow(step)

EndSDs ==
  /\ pixelSD' = CopiedToSlave(pixelSD)
  /\ timingSD' = TimingForgotten(timingSD)

-----------------------------------------------------------------------------
(* The tracks of an event and their steps.                                  *)

CONSTANTS Jobs,          \* options of StackingAction and SteppingAction, with the
                         \* primaries, steps and products that occur (see MC module)
          MaxG4Tracks,   \* bound: tracks of an event
          MaxSteps,      \* bound: steps of an event
          MaxG4Events    \* bound: events

\* Volumes around a point in a pixel plane: one pot and one envelope, whose copy
\* numbers CTPPSPixelDetId accepts.
InPlane(touch) ==
  \E pot, envelope \in DOMAIN touch :
    /\ Named(touch, {"RP_box_primary_vacuum"}) = {pot} /\ Named(touch, {"Envelop"}) = {envelope}
    /\ \E arm \in 0 .. 1, station \in 0 .. 2, rp \in 0 .. 6 :
         touch[pot].copyNo = 100 * arm + 10 * station + rp
    /\ touch[envelope].copyNo \in 1 .. 6

\* Energies and times are not negative, a probability is not above 1.
IsG4Job(j) ==
  /\ \A beam \in j.primaries :
       /\ beam \in Seq(Range(beam))
       /\ \A particle \in Range(beam) : particle.ke \in Nat /\ particle.time \in Nat
  /\ \A product \in j.products : product.ke \in Nat
  /\ \A s \in j.steps :
       /\ s.edeposit \in Nat /\ s.dt \in Nat
       /\ s.touch \in Seq(Range(s.touch)) /\ s.touch # <<>>
       /\ s.readout = "CTPPSPixelHits" => InPlane(s.touch)
  /\ j.gammaRoulette \in [DOMAIN j.gammaRoulette -> Nat \ {0}]
  /\ j.neutronRoulette \in [DOMAIN j.gammaRoulette -> Nat \ {0}]

ASSUME G4JobsAssumption == \A j \in Jobs : IsG4Job(j)

VARIABLES job,       \* an element of Jobs
          g4Phase,   \* "idle", "tracking", "done"
          g4Events,  \* events begun
          tracks,    \* the tracks classified as urgent, in that order
          waiting,   \* those not yet tracked, the last one next
          current4,  \* the one being tracked, 0 if none
          products,  \* its secondaries, classified when it ends
          history,   \* the steps of the event
          thrown     \* an event ended by an exception

stepVars == <<job, g4Phase, g4Events, tracks, waiting, current4, products, history, thrown, sdVars>>

StepsInit ==
  /\ job \in Jobs /\ g4Phase = "idle" /\ g4Events = 0
  /\ tracks = <<>> /\ waiting = <<>> /\ current4 = 0 /\ products = <<>>
  /\ history = <<>> /\ thrown = FALSE
  /\ SDInit

-----------------------------------------------------------------------------
(* StackingAction: what is killed at once.                                   *)

Neutrino(t) == t.pdg = "neutrino" /\ ~job.trackNeutrino

\* isItOutOfTimeWindow, isOutOfTimeWindow: a region may have a limit of its own.
OutOfTime(region, time) ==
  time > IF region \in DOMAIN job.maxTrackTimes THEN job.maxTrackTimes[region] ELSE job.maxTrackTime

SlowInVacuum(t) ==
  t.ke <= job.criticalEnergyForVacuum /\ t.region \in {"BeamPipeOutside", "BeamPipeVacuum"}

SlowHeavy(t) ==
  job.killHeavy /\ t.pdg \in DOMAIN job.heavyThresholds /\ t.ke < job.heavyThresholds[t.pdg]

\* caloRegions is filled only for savePDandCinCalo.
CaloRegions ==
  IF job.savePDandCinCalo
  THEN {"HcalRegion", "EcalRegion", "PreshowerSensRegion", "PreshowerRegion"} ELSE {}

KilledInCalo(t, mother) ==
  /\ t.region \in CaloRegions
  /\ \/ job.killInCalo
     \/ job.killInCaloEfH /\ t.pdg \in {"gamma", "electron"} /\ mother.pdg \notin {"gamma", "electron"}

Killed(t, mother) ==
  \/ Neutrino(t)
  \/ OutOfTime(t.region, t.time)
  \/ t.region \in job.deadRegions
  \/ SlowInVacuum(t)
  \/ t.pdg = "gamma" /\ job.killGamma /\ t.ke < job.gammaThreshold
  \/ SlowHeavy(t)
  \/ job.killDeltaRay /\ t.process = "ionisation"
  \/ KilledInCalo(t, mother)

-----------------------------------------------------------------------------
(* StackingAction: the flag for NewTrackAction and the roulette.             *)

DecayOrConversion(t, mother) ==
  IF mother.primary /\ t.process = "decay" THEN 1
  ELSE IF mother.primary /\ t.process = "conversion" THEN 2 ELSE 0

FlagOf(t, mother) ==
  LET asked == job.savePDandCinAll \/ t.region \in CaloRegions
      flag == IF asked THEN DecayOrConversion(t, mother) ELSE 0
  IN IF job.saveFirstSecondary /\ flag = 0 /\ mother.primary THEN 3 ELSE flag

\* initPointer: a region is known if its gammas or its neutrons play, and the
\* world only if its neutrons do.
RegionKnown(region) ==
  \/ job.neutronRoulette[region] > 1
  \/ job.gammaRoulette[region] > 1 /\ region # "DefaultRegionForTheWorld"

\* In ECAL and preshower the gammas of primary photons and electrons do not play.
RouletteApplies(t, mother) ==
  ~(t.region \in {"EcalRegion", "PreshowerRegion"} /\ mother.genPID \in {"gamma", "electron"})

\* Variant with a fault: tracks of any weight play.
OddsWhateverTheWeight(t, mother) ==
  IF t.region \notin DOMAIN job.gammaRoulette \/ ~RegionKnown(t.region) THEN 1
  ELSE IF t.pdg = "neutron" /\ t.ke < job.neutronLimit THEN job.neutronRoulette[t.region]
  ELSE IF t.pdg = "gamma" /\ t.ke < job.gammaLimit /\ RouletteApplies(t, mother)
       THEN job.gammaRoulette[t.region]
  ELSE 1

\* 1/probability that the track survives.
Odds(t, mother) ==
  IF t.weight > 1 \/ t.region \notin DOMAIN job.gammaRoulette \/ ~RegionKnown(t.region) THEN 1
  ELSE IF t.pdg = "neutron" /\ t.ke < job.neutronLimit THEN job.neutronRoulette[t.region]
  ELSE IF t.pdg = "gamma" /\ t.ke < job.gammaLimit /\ RouletteApplies(t, mother)
       THEN job.gammaRoulette[t.region]
  ELSE 1

\* ClassifyNewTrack for a secondary: no track, or the track with its weight.
Secondary(t, mother, survives) ==
  IF Killed(t, mother) \/ (Odds(t, mother) > 1 /\ ~survives) THEN <<>>
  ELSE <<[t EXCEPT !.weight = @ * Odds(t, mother), !.flag = FlagOf(t, mother),
                   !.primary = FlagOf(t, mother) = 1, !.odds = Odds(t, mother)]>>

\* ClassifyNewTrack for a primary.
Primary(t) == IF Neutrino(t) \/ t.region = "outside" THEN <<>> ELSE <<t>>

-----------------------------------------------------------------------------
(* SteppingAction.                                                           *)

Charged(pdg) == pdg \in {"proton", "electron", "ion"}

\* The constructor's options, parallel vectors of the configuration.  Without
\* particles no volume is looked at.
SteppingOptions(p) ==
  [p EXCEPT !.ekinNames = IF p.ekinParticles = <<>> THEN <<>> ELSE @]

\* Of equal names the first takes the region, and its limit is the one used.
FirstLimit(names, limits) ==
  [name \in Range(names) |-> limits[Min({i \in DOMAIN names : names[i] = name})]]

\* initPointer: names no region has stay null pointers, which no region is; a
\* volume or a particle that does not exist is read through one.
InitPointer(p, geometry) ==
  IF ~(Range(p.ekinNames) \subseteq geometry.volumes /\ Range(p.ekinParticles) \subseteq geometry.particles)
  THEN <<>>
  ELSE [maxTrackTimes |-> Restrict(FirstLimit(p.maxTimeNames, p.maxTrackTimes),
                                   Range(p.maxTimeNames) \cap geometry.regions),
        deadRegions |-> Range(p.deadRegionNames) \cap geometry.regions,
        ekinVolumes |-> Range(p.ekinNames),
        ekinMins |-> FirstLimit(p.ekinParticles, p.ekinMins)]

\* isLowEnergy: the volume after the step and the particle have a threshold.
LowEnergy(t, step) ==
  /\ step.next.volume \in job.ekinVolumes
  /\ t.pdg \in DOMAIN job.ekinMins /\ t.ke <= job.ekinMins[t.pdg]

LowEnergyInVacuum(t, step) ==
  /\ 0 < t.ke /\ t.ke < job.criticalEnergyForVacuum
  /\ Charged(t.pdg) /\ step.next.sparse

\* Variant with a fault: where regions have limits of their own, only they count.
RegionalTimeOnly(t, step) ==
  \/ step.region \in job.deadRegions
  \/ step.region \in DOMAIN job.maxTrackTimes /\ OutOfTime(step.region, t.time)
  \/ LowEnergy(t, step)
  \/ LowEnergyInVacuum(t, step)

\* UserSteppingAction, for a track that is alive in a volume after the step.
StoppedByAction(t, step) ==
  \/ step.region \in job.deadRegions
  \/ OutOfTime(step.region, t.time)
  \/ LowEnergy(t, step)
  \/ LowEnergyInVacuum(t, step)

-----------------------------------------------------------------------------
(* The event loop of Geant4 (external).                                      *)

NewG4Track(particle, parent) ==
  [pdg |-> particle.pdg, ke |-> particle.ke, region |-> particle.region,
   process |-> particle.process, parent |-> parent, time |-> particle.time,
   weight |-> 1, odds |-> 1, flag |-> 0, primary |-> parent = 0, genPID |-> particle.pdg]

\* The detectors are initialised, BeginOfEvent is signalled, then the primaries
\* are classified.
BeginG4Event ==
  /\ g4Phase \in {"idle", "done"} /\ g4Events < MaxG4Events
  /\ g4Phase' = "tracking" /\ g4Events' = g4Events + 1
  /\ \E beam \in job.primaries :
       LET urgent == FlattenSeq([k \in DOMAIN beam |-> Primary(NewG4Track(beam[k], 0))])
       IN /\ tracks' = urgent
          /\ waiting' = [k \in DOMAIN urgent |-> k]
  /\ current4' = 0 /\ products' = <<>> /\ history' = <<>>
  /\ BeginSDs
  /\ UNCHANGED <<job, thrown>>

StartTrack ==
  /\ g4Phase = "tracking" /\ current4 = 0 /\ waiting # <<>>
  /\ current4' = Last(waiting) /\ waiting' = Front(waiting)
  /\ UNCHANGED <<job, g4Phase, g4Events, tracks, products, history, thrown, sdVars>>

\* Where a track ends its products are classified; a product has the weight of
\* its mother and the generator's particle it comes from.
ProductOf(particle, mother, step) ==
  [NewG4Track([pdg |-> particle.pdg, ke |-> particle.ke, process |-> particle.process,
               region |-> step.region, time |-> mother.time], current4)
   EXCEPT !.weight = mother.weight, !.genPID = mother.genPID]

\* The track after a step, and the step.
Moved(s) == [tracks[current4] EXCEPT !.ke = Max({0, @ - s.edeposit}), !.time = @ + s.dt]

StepOf(s) ==
  [track |-> current4, pdg |-> tracks[current4].pdg, energy |-> tracks[current4].ke,
   edeposit |-> s.edeposit, slice |-> Moved(s).time, touch |-> s.touch,
   readout |-> s.readout, region |-> s.region, next |-> s.next]

\* Those of the products that are to be tracked.
Urgent(all, mother, survive) ==
  FlattenSeq([k \in DOMAIN all |-> Secondary(all[k], mother, survive[k])])

\* A step: the sensitive detector sees it, then SteppingAction; the track goes on
\* unless a process, the detector, the action or the end of the world stops it.
TakeStep ==
  /\ g4Phase = "tracking" /\ current4 # 0 /\ Len(history) < MaxSteps
  /\ \E s \in job.steps, made \in {<<>>} \cup {<<p>> : p \in job.products}, stopped \in BOOLEAN :
       LET t == Moved(s)
           step == StepOf(s)
           ends == \/ stopped \/ s.next.volume = "none" \/ StoppedBySD(step)
                   \/ StoppedByAction(t, step)
           all == products \o [k \in DOMAIN made |-> ProductOf(made[k], t, step)]
       IN /\ made # <<>> => Len(tracks) + Len(products) < MaxG4Tracks
          /\ HitSDs(step)
          /\ history' = Append(history, step)
          /\ IF ends
             THEN \E survive \in [DOMAIN all -> BOOLEAN] :
                    LET urgent == Urgent(all, t, survive)
                    IN  /\ tracks' = [tracks EXCEPT ![current4] = t] \o urgent
                        /\ waiting' = waiting \o [k \in DOMAIN urgent |-> Len(tracks) + k]
                        /\ products' = <<>> /\ current4' = 0
             ELSE /\ tracks' = [tracks EXCEPT ![current4] = t]
                  /\ products' = all /\ UNCHANGED <<waiting, current4>>
  /\ UNCHANGED <<job, g4Phase, g4Events, thrown>>

EndG4Event ==
  /\ g4Phase = "tracking" /\ current4 = 0 /\ waiting = <<>>
  /\ g4Phase' = "done"
  /\ EndSDs
  /\ UNCHANGED <<job, g4Events, tracks, waiting, current4, products, history, thrown>>

\* An exception in a step: the detectors do not see the end of the event.
G4EventThrows ==
  /\ g4Phase = "tracking" /\ current4 # 0
  /\ g4Phase' = "idle" /\ thrown' = TRUE
  /\ UNCHANGED <<job, g4Events, tracks, waiting, current4, products, history, sdVars>>

StepsNext == BeginG4Event \/ StartTrack \/ TakeStep \/ EndG4Event \/ G4EventThrows

-----------------------------------------------------------------------------
(* Fast simulation.  ParametrisedEMPhysics sets up the processes of a job:   *)
(* a GFlash model replaces a track by spots of energy, ElectronLimiter       *)
(* shortens the steps of electrons and positrons, or kills them.             *)

CONSTANTS PhysicsJobs,   \* parameters of the job, and the regions of the geometry
          FastTracks,    \* tracks as they are before a step
          Profiles,      \* spots that a shower profile makes: sequences of
                         \* [region, sensitive, name, energy]
          EnergyCutOff,  \* Gflash::energyCutOff
          Scale,         \* Gflash::scaleSensitiveHB and HE, by the name of the volume
          MaxFastSteps   \* bound: steps

\* Energies are not negative; there are two kinds of models.
ASSUME FastSimulationAssumption ==
  /\ \A j \in PhysicsJobs : \A model \in j.gflash : model.kind \in {"EM", "Hadron"}
  /\ \A spots \in Profiles : spots \in Seq(Range(spots)) /\ \A spot \in Range(spots) : spot.energy \in Nat
  /\ Scale \in [DOMAIN Scale -> Nat]

VARIABLES physicsJob,  \* an element of PhysicsJobs
          emPhysics,   \* what is registered with Geant4
          gflashStep,  \* the energy in the step object of each model
          fast         \* the last step: its track, what became of it, what was signalled

fastVars == <<physicsJob, emPhysics, gflashStep, fast>>

Leptons == {"electron", "positron"}

ShowerHadrons == {"pi+", "pi-", "kaon+", "kaon-", "proton", "antiproton"}

IsApplicable(model, pdg) == pdg \in IF model.kind = "EM" THEN Leptons ELSE ShowerHadrons

\* A model that is asked for is made if its region is there.
Models(j) == {model \in j.gflash : model.region \in j.regions}

\* The process for fast simulation is registered whether or not the regions are there.
FastParticles(j) ==
  {pdg \in Leptons \cup ShowerHadrons : \E model \in j.gflash : IsApplicable(model, pdg)}

\* Regions where electrons play Russian roulette; 1/probability as above.
Biased(j) ==
  IF j.electronLimit = 0 THEN {}
  ELSE {region \in DOMAIN j.electronOdds : j.electronOdds[region] > 1}

HasElectronLimiter(j) == j.eLimiter \/ j.rLimiter

NewPhysics == [phase |-> "new", fast |-> {}, biased |-> {}, limited |-> {}, tables |-> "none"]

NoFastStep == [count |-> 0, fate |-> "none"]

FastInit ==
  /\ physicsJob \in PhysicsJobs
  /\ emPhysics = NewPhysics
  /\ gflashStep = [model \in Models(physicsJob) |-> 0]
  /\ fast = NoFastStep

\* What is registered for positrons is the limiter of the electrons; if there is
\* none the pointer was never set.
ConstructProcess ==
  /\ emPhysics.phase = "new"
  /\ emPhysics' =
       [emPhysics EXCEPT
         !.phase = IF physicsJob.pLimiter /\ ~HasElectronLimiter(physicsJob) THEN "crashed"
                   ELSE "processes",
         !.fast = FastParticles(physicsJob), !.biased = Biased(physicsJob),
         !.limited = (IF HasElectronLimiter(physicsJob) THEN {"electron"} ELSE {})
                       \cup (IF physicsJob.pLimiter THEN {"positron"} ELSE {})]
  /\ UNCHANGED <<physicsJob, gflashStep, fast>>

\* BuildPhysicsTable, for each particle: a limiter keeps the ionisation of the last one.
BuildPhysicsTable ==
  /\ emPhysics.phase = "processes"
  /\ \E pdg \in IF emPhysics.limited = {} THEN {"none"} ELSE emPhysics.limited :
       emPhysics' = [emPhysics EXCEPT !.phase = "built", !.tables = pdg]
  /\ UNCHANGED <<physicsJob, gflashStep, fast>>

\* Energies are in MeV; the threshold of electrons has no unit.
GeV == 1000

\* GFlashEMShowerModel::ModelTrigger; the boundary is that of EB and EE.
EMTrigger(model, t) == t.ke >= EnergyCutOff /\ ~t.boundary /\ t.region = model.region

\* excludeDetectorRegion: also the preshower, and too close to the end of HB or HE.
Excluded(t) == t.boundary \/ t.preshower \/ (t.calor \in {"HB", "HE"} /\ t.nearOut)

\* GFlashHadronShowerModel::ModelTrigger.
HadronTrigger(model, t) ==
  t.ke >= GeV * EnergyCutOff /\ t.region = model.region /\ ~Excluded(t)

ModelTrigger(model, t) ==
  /\ t.pdg \in emPhysics.fast /\ IsApplicable(model, t.pdg)
  /\ IF model.kind = "EM" THEN EMTrigger(model, t) ELSE HadronTrigger(model, t)

SampledEnergy(spot) ==
  IF spot.name \in DOMAIN Scale THEN spot.energy * Scale[spot.name] ELSE spot.energy

\* makeHits of electrons: watchers see the step before it has the energy of the spot.
EMSpot(region, watcherOn, made, spot) ==
  LET hit == spot.region = region /\ spot.sensitive
  IN  [energy |-> IF hit THEN spot.energy ELSE made.energy,
       watched |-> IF watcherOn THEN Append(made.watched, made.energy) ELSE made.watched,
       hits |-> IF hit THEN Append(made.hits, spot.energy) ELSE made.hits]

\* Variant with a fault: the region of the spot is not tested.
HadronSpotAnywhere(region, watcherOn, made, spot) ==
  [energy |-> IF spot.sensitive THEN SampledEnergy(spot)
              ELSE IF watcherOn THEN spot.energy ELSE made.energy,
   watched |-> IF watcherOn THEN Append(made.watched, spot.energy) ELSE made.watched,
   hits |-> IF spot.sensitive THEN Append(made.hits, SampledEnergy(spot)) ELSE made.hits]

\* makeHits of hadrons: the energy is set for the watchers, and set again for a hit.
HadronSpot(region, watcherOn, made, spot) ==
  LET hit == spot.region = region /\ spot.sensitive
  IN  [energy |-> IF hit THEN SampledEnergy(spot)
                  ELSE IF watcherOn THEN spot.energy ELSE made.energy,
       watched |-> IF watcherOn THEN Append(made.watched, spot.energy) ELSE made.watched,
       hits |-> IF hit THEN Append(made.hits, SampledEnergy(spot)) ELSE made.hits]

MakeHits(model, made, spot) ==
  IF model.kind = "EM" THEN EMSpot(model.region, physicsJob.watcherOn, made, spot)
  ELSE HadronSpot(model.region, physicsJob.watcherOn, made, spot)

\* The spots in turn; the step object has the energy that an earlier shower left.
Shower(model, spots, energy) ==
  LET made[n \in 0 .. Len(spots)] ==
        IF n = 0 THEN [energy |-> energy, watched |-> <<>>, hits |-> <<>>]
        ELSE MakeHits(model, made[n - 1], spots[n])
  IN made[Len(spots)]

\* DoIt: the track is killed, and the spots of its shower are hits where they can be.
DoIt(model, t) ==
  \E spots \in Profiles :
    LET made == Shower(model, spots, gflashStep[model])
    IN  /\ gflashStep' = [gflashStep EXCEPT ![model] = made.energy]
        /\ fast' = [count |-> fast.count + 1, fate |-> "showered", track |-> t, model |-> model,
                    spots |-> spots, before |-> gflashStep[model],
                    watched |-> made.watched, hits |-> made.hits]

\* The member minStepLimit is a truth value, whatever length was given.
MinStepLimit(j) == IF j.minStepLimit = 0 THEN 0 ELSE 1

\* ElectronLimiter, for a step that would have the length t.step: the range is read
\* from the tables of the particle they were built for last.
LimitedStep(t) ==
  LET killTrack == /\ physicsJob.rLimiter /\ t.safety > MinStepLimit(physicsJob)
                   /\ t.safety >= t.range[emPhysics.tables]
      limited == physicsJob.eLimiter /\ MinStepLimit(physicsJob) < t.step
  IN  IF t.pdg \notin emPhysics.limited THEN [fate |-> "free", step |-> t.step]
      ELSE IF killTrack THEN [fate |-> "killed", step |-> 0]
      ELSE IF limited THEN [fate |-> "limited", step |-> MinStepLimit(physicsJob)]
      ELSE [fate |-> "free", step |-> t.step]

\* Geant4 at a step: a model that takes the track keeps all other processes from it.
FastStep ==
  /\ emPhysics.phase = "built" /\ fast.count < MaxFastSteps
  /\ \E t \in FastTracks :
       \/ \E model \in Models(physicsJob) : ModelTrigger(model, t) /\ DoIt(model, t)
       \/ /\ \A model \in Models(physicsJob) : ~ModelTrigger(model, t)
          /\ fast' = [count |-> fast.count + 1, fate |-> LimitedStep(t).fate, track |-> t,
                      step |-> LimitedStep(t).step]
          /\ UNCHANGED gflashStep
  /\ UNCHANGED <<physicsJob, emPhysics>>

FastNext == ConstructProcess \/ BuildPhysicsTable \/ FastStep

-----------------------------------------------------------------------------
(* Properties.                                                               *)

StepsAt(readout) == {k \in DOMAIN history : history[k].readout = readout}

\* The pixel plane a step is in, read off the volumes around it.
PlaneAround(touch) ==
  LET pot == touch[CHOOSE k \in DOMAIN touch : touch[k].name = "RP_box_primary_vacuum"].copyNo
      envelope == touch[CHOOSE k \in DOMAIN touch : touch[k].name = "Envelop"].copyNo
  IN <<pot \div 100, (pot \div 10) % 10, pot % 10, envelope - 1>>

PlaneNamed(unit) == <<ArmOf(unit), StationOf(unit), RPOf(unit), PlaneOf(unit)>>

\* The hits of an event are those of its own steps (whatever an earlier event or
\* an exception left in the detector): each deposit in a pixel plane is in a hit
\* that names this plane and this slice, each hit has the energy of a step
\* there, a track has one hit per plane and slice, and the first MaxHits are
\* handed on.
PixelHitsAreDeposits ==
  g4Phase = "done" =>
    /\ \A k \in StepsAt("CTPPSPixelHits") : history[k].edeposit > 0 =>
         \E h \in Range(pixelSD.hits) : /\ PlaneNamed(h.unit) = PlaneAround(history[k].touch)
                                        /\ h.slice = history[k].slice
    /\ \A h \in Range(pixelSD.hits) : \E k \in StepsAt("CTPPSPixelHits") :
         /\ PlaneNamed(h.unit) = PlaneAround(history[k].touch)
         /\ h.slice = history[k].slice /\ h.energyLoss = history[k].edeposit
    /\ \A j, k \in DOMAIN pixelSD.hits : j < k =>
         \E f \in {"track", "slice", "unit"} : pixelSD.hits[j][f] # pixelSD.hits[k][f]
    /\ IsPrefix(pixelSD.slave, pixelSD.hits)
    /\ Len(pixelSD.slave) = Min({Len(pixelSD.hits), MaxHits})

TrackHasStep(i, readout, box) ==
  \E k \in StepsAt(readout) : history[k].track = i /\ InBar(history[k], box)

\* Until an event throws, a charged track has one timing hit for each of the two
\* boxes in whose bars it made a step, however many steps that were, and an
\* optical photon one for the photodetector that stopped it.
TimingHitsAreOnce ==
  g4Phase = "done" /\ ~thrown =>
    \A i \in DOMAIN tracks :
      Cardinality({k \in DOMAIN timingSD.hits : timingSD.hits[k].track = i}) =
        Cardinality({k \in StepsAt("CTPPSTimingHits") :
                       history[k].track = i /\ AtWindow(history[k])})
        + Cardinality({box \in {"CTPPS_Timing_Box_First", "CTPPS_Timing_Box_Second"} :
                         TrackHasStep(i, "CTPPSTimingHits", box)})

\* What the sensitive detectors hand on is what the tracks left in them.
HitsAreDeposits == PixelHitsAreDeposits /\ TimingHitsAreOnce

\* Roulette is fair: along a line of descent it is won at most once, and from
\* then on the weight is the inverse of the probability of having won.
WeightsAreFair ==
  \A i \in DOMAIN tracks :
    tracks[i].weight =
      LET mother == tracks[i].parent
      IN IF mother = 0 THEN 1
         ELSE IF tracks[mother].weight > 1 THEN tracks[mother].weight ELSE tracks[i].odds

\* Dead regions are dead, and time is limited: at most the step that brings a
\* track there, or too late, is made, and no product of it is tracked.
NoTrackLingers ==
  LET Beyond(k) == \/ history[k].region \in job.deadRegions
                   \/ OutOfTime(history[k].region, history[k].slice)
  IN /\ \A j, k \in DOMAIN history : j < k /\ history[j].track = history[k].track => ~Beyond(j)
     /\ \A i \in DOMAIN tracks : tracks[i].parent # 0 => tracks[i].region \notin job.deadRegions

\* What StackingAction and SteppingAction let live, with which weight, is what
\* the configuration says, however the track came there.
TracksLiveByTheRules == WeightsAreFair /\ NoTrackLingers

\* A shower gives a hit for each spot in a sensitive volume of the region of its model
\* and none for the others.  The watchers of a hadron see every spot with its energy;
\* those of an electron see it with the energy of the hit before, which for the first
\* spot is one of an earlier shower.
ShowersAreHits ==
  fast.fate = "showered" =>
    LET kind == fast.model.kind
        spots == fast.spots
        Hits == {k \in DOMAIN spots : spots[k].region = fast.model.region /\ spots[k].sensitive}
        EnergyOfHit(k) == IF kind = "EM" THEN spots[k].energy ELSE SampledEnergy(spots[k])
        HitsBefore(k) == {h \in Hits : h < k}
    IN  /\ fast.track.region = fast.model.region /\ ~fast.track.boundary
        /\ Len(fast.hits) = Cardinality(Hits)
        /\ \A k \in Hits : fast.hits[Cardinality(HitsBefore(k)) + 1] = EnergyOfHit(k)
        /\ IF ~physicsJob.watcherOn THEN fast.watched = <<>>
           ELSE /\ DOMAIN fast.watched = DOMAIN spots
                /\ \A k \in DOMAIN spots :
                     fast.watched[k] =
                       IF kind = "Hadron" THEN spots[k].energy
                       ELSE IF HitsBefore(k) = {} THEN fast.before
                       ELSE spots[Max(HitsBefore(k))].energy

\* Only electrons and positrons are limited, by the options of the electrons and
\* never where a shower model takes the track; a track is killed only if some
\* particle of its energy would end within the safety.
LimitersAreAsked ==
  fast.fate \in {"killed", "limited"} =>
    /\ fast.track.pdg \in Leptons
    /\ fast.track.pdg = "positron" => physicsJob.pLimiter
    /\ IF fast.fate = "killed"
       THEN physicsJob.rLimiter /\ \E pdg \in Leptons : fast.track.safety >= fast.track.range[pdg]
       ELSE physicsJob.eLimiter /\ fast.step <= 1 /\ fast.step < fast.track.step
    /\ \A model \in Models(physicsJob) : ~ModelTrigger(model, fast.track)

\* What fast simulation makes of a track is what the options of the job say.
FastSimulationIsAsAsked == ShowersAreHits /\ LimitersAreAsked

===============================================================================
