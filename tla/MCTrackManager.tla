---------------------------- MODULE MCTrackManager ----------------------------
(***************************************************************************)
(* The tracks of an event for TLC.  Each behaviour plays one scene: the     *)
(* history SimTrackManager keeps; the steps of tracks, which pass           *)
(* StackingAction, the sensitive detectors and SteppingAction; or the       *)
(* transport of protons before them.                                        *)
(***************************************************************************)
EXTENDS SimTrackManager, TrackSteps, HectorTransport

VARIABLE scene

\* Starting points are interchangeable.
PositionSymmetry == Permutations(Positions)

-----------------------------------------------------------------------------
(* Volumes around a point.                                                   *)

Volume(name, copyNo) == [name |-> name, copyNo |-> copyNo]

PixelTouch(pot, envelope) ==
  <<Volume("Sensor", 0), Volume("Envelop", envelope), Volume("RP_box_primary_vacuum", pot)>>

TimingTouch(name, copyNo, box) ==
  <<Volume(name, copyNo), Volume(box, 0), Volume("CTPPS_Timing_Cylinder_Primary_Vacuum", 110)>>

Inside == [volume |-> "inside", sparse |-> FALSE]

StepIn(touch, readout, edeposit, dt) ==
  [touch |-> touch, readout |-> readout, region |-> "Pots", edeposit |-> edeposit, dt |-> dt,
   next |-> Inside]

StepThrough(region, dt, next) ==
  [touch |-> <<Volume(region, 0)>>, readout |-> "none", region |-> region, edeposit |-> 1,
   dt |-> dt, next |-> next]

Particle(pdg, ke, region) ==
  [pdg |-> pdg, ke |-> ke, region |-> region, process |-> "none", time |-> 0]

Product(pdg, ke, process) == [pdg |-> pdg, ke |-> ke, process |-> process]

-----------------------------------------------------------------------------
(* Jobs.                                                                     *)

NoRoulette ==
  [r \in {"EcalRegion", "HcalRegion", "DefaultRegionForTheWorld"} |-> 1]

Plain ==
  [trackNeutrino |-> FALSE, maxTrackTimes |-> <<>>, maxTrackTime |-> 9,
   criticalEnergyForVacuum |-> 0, killHeavy |-> FALSE, heavyThresholds |-> <<>>,
   savePDandCinCalo |-> FALSE, savePDandCinAll |-> TRUE, saveFirstSecondary |-> FALSE,
   killInCalo |-> FALSE, killInCaloEfH |-> FALSE, killGamma |-> FALSE, gammaThreshold |-> 0,
   killDeltaRay |-> FALSE, deadRegions |-> {}, neutronRoulette |-> NoRoulette,
   gammaRoulette |-> NoRoulette, neutronLimit |-> 0, gammaLimit |-> 0,
   ekinVolumes |-> {}, ekinMins |-> <<>>,
   primaries |-> {}, steps |-> {}, products |-> {}]

\* Two protons through two planes of a pot and one of another.
PixelJob ==
  [Plain EXCEPT
    !.primaries = {<<Particle("proton", 9, "Pots"), Particle("proton", 9, "Pots")>>},
    !.steps = {StepIn(PixelTouch(103, 3), "CTPPSPixelHits", 0, 0),
               StepIn(PixelTouch(103, 3), "CTPPSPixelHits", 1, 0),
               StepIn(PixelTouch(103, 3), "CTPPSPixelHits", 2, 0),
               StepIn(PixelTouch(103, 3), "CTPPSPixelHits", 1, 1),
               StepIn(PixelTouch(103, 4), "CTPPSPixelHits", 1, 0),
               StepIn(PixelTouch(123, 3), "CTPPSPixelHits", 1, 0)}]

\* A proton and an optical photon through the bars to the photodetector.
TimingJob ==
  [Plain EXCEPT
    !.primaries = {<<Particle("proton", 2, "Pots"), Particle("opticalphoton", 1, "Pots")>>,
                   <<Particle("electron", 1, "Pots"), Particle("neutrino", 1, "Pots"),
                     Particle("proton", 1, "outside")>>},
    !.steps = {StepIn(TimingTouch("QLbar", 1, "CTPPS_Timing_Box_First"), "CTPPSTimingHits", 0, 0),
               StepIn(TimingTouch("QLbar", 2, "CTPPS_Timing_Box_Second"), "CTPPSTimingHits", 0, 1),
               StepIn(TimingTouch("PhotoDetector_Window", 1, "CTPPS_Timing_Box_First"),
                      "CTPPSTimingHits", 0, 0)}]

\* Showers with roulette in ECAL for both particles, in HCAL for neutrons and
\* in the world for gammas.
RouletteJob ==
  [Plain EXCEPT
    !.neutronRoulette = [NoRoulette EXCEPT !["EcalRegion"] = 2, !["HcalRegion"] = 3],
    !.gammaRoulette = [NoRoulette EXCEPT !["EcalRegion"] = 4, !["DefaultRegionForTheWorld"] = 5],
    !.neutronLimit = 3, !.gammaLimit = 3,
    !.savePDandCinCalo = TRUE, !.savePDandCinAll = FALSE, !.saveFirstSecondary = TRUE,
    !.killInCaloEfH = TRUE,
    !.primaries = {<<Particle("gamma", 9, "EcalRegion")>>, <<Particle("neutron", 9, "EcalRegion")>>},
    !.steps = {StepThrough(r, 0, Inside) : r \in {"EcalRegion", "HcalRegion",
                                                  "DefaultRegionForTheWorld"}},
    !.products = {Product("gamma", 2, "conversion"), Product("neutron", 2, "decay"),
                  Product("electron", 1, "ionisation")}]

\* Regions with a limit named twice and regions that do not exist, and volumes
\* named in vain.
Detector == [regions |-> {"Slow", "Dead", "Far", "EcalRegion", "BeamPipeVacuum"},
             volumes |-> {"screen", "pipe"}, particles |-> {"proton"}]

Stepping(volumes, particles, thresholds) ==
  InitPointer(SteppingOptions([maxTimeNames |-> <<"Slow", "Lost", "Slow">>, maxTrackTimes |-> <<1, 0, 3>>,
                               deadRegionNames |-> <<"Dead", "Lost">>, ekinNames |-> volumes,
                               ekinParticles |-> particles, ekinMins |-> thresholds]), Detector)

ASSUME UnknownNames == /\ Stepping(<<"lost">>, <<"proton">>, <<3>>) = <<>>
                       /\ Stepping(<<"lost">>, <<>>, <<>>).ekinVolumes = {}

\* Every way to kill a track.
KillJob ==
  Stepping(<<"screen">>, <<"proton", "proton">>, <<3, 1>>) @@
  [Plain EXCEPT
    !.maxTrackTime = 2, !.criticalEnergyForVacuum = 2,
    !.killHeavy = TRUE, !.heavyThresholds = [neutron |-> 2, proton |-> 2, ion |-> 3],
    !.killInCalo = TRUE, !.killGamma = TRUE, !.gammaThreshold = 2, !.killDeltaRay = TRUE,
    !.savePDandCinCalo = TRUE,
    !.primaries = {<<Particle("proton", 5, "Dead")>>},
    !.steps = {StepThrough("Dead", 0, Inside), StepThrough("Slow", 1, Inside),
               StepThrough("BeamPipeVacuum", 0, [volume |-> "pipe", sparse |-> TRUE]),
               StepThrough("EcalRegion", 1, [volume |-> "screen", sparse |-> FALSE]),
               StepThrough("Far", 2, [volume |-> "none", sparse |-> FALSE])},
    !.products = {Product("gamma", 1, "other"), Product("neutron", 2, "decay"),
                  Product("electron", 1, "ionisation"), Product("neutrino", 4, "decay")}]

MCJobs == {PixelJob, TimingJob, RouletteJob, KillJob}

-----------------------------------------------------------------------------
(* Jobs of the transport: two pots, a pot at z = 0 on one side, no transport. *)

BeamJob(transport, positive, negative) ==
  [CTPPSTransport |-> transport, ctpps |-> (1 :> positive @@ -1 :> negative)]

MCTransportJobs ==
  {BeamJob(TRUE, TRUE, TRUE), BeamJob(TRUE, TRUE, FALSE), BeamJob(FALSE, TRUE, TRUE)}

-----------------------------------------------------------------------------
(* Jobs of the fast simulation: models for both calorimeters, one of whose   *)
(* regions may be missing, with and without watchers; limiters of both kinds,*)
(* one of one kind, and one for positrons alone.                             *)

Model(kind, region) == [kind |-> kind, region |-> region]

NoFast ==
  [gflash |-> {}, regions |-> {"EcalRegion", "HcalRegion"}, watcherOn |-> FALSE,
   electronLimit |-> 0, electronOdds |-> [EcalRegion |-> 4, MuonIron |-> 1],
   eLimiter |-> FALSE, rLimiter |-> FALSE, pLimiter |-> FALSE, minStepLimit |-> 5]

WithModels(regions, watcherOn) ==
  [NoFast EXCEPT !.gflash = {Model("EM", "EcalRegion"), Model("EM", "HcalRegion"),
                             Model("Hadron", "HcalRegion")},
                 !.regions = regions, !.watcherOn = watcherOn, !.electronLimit = 1]

WithLimiters(e, r, p, length) ==
  [NoFast EXCEPT !.eLimiter = e, !.rLimiter = r, !.pLimiter = p, !.minStepLimit = length]

MCPhysicsJobs ==
  {NoFast, WithModels({"EcalRegion", "HcalRegion"}, TRUE), WithModels({"HcalRegion"}, FALSE),
   WithLimiters(TRUE, TRUE, TRUE, 5), WithLimiters(FALSE, TRUE, TRUE, 0),
   WithLimiters(TRUE, FALSE, FALSE, 5), WithLimiters(FALSE, FALSE, TRUE, 5),
   [WithModels({"EcalRegion", "HcalRegion"}, FALSE) EXCEPT !.eLimiter = TRUE]}

FastTrack(pdg, ke, region) ==
  [pdg |-> pdg, ke |-> ke, region |-> region, boundary |-> FALSE, preshower |-> FALSE,
   calor |-> "none", nearOut |-> FALSE, safety |-> 2, step |-> 3,
   range |-> [electron |-> 2, positron |-> 4]]

MCFastTracks ==
  {FastTrack(pdg, 2, region) : pdg \in {"electron", "positron"},
                               region \in {"EcalRegion", "HcalRegion", "none"}}
  \cup {[FastTrack("electron", 0, "EcalRegion") EXCEPT !.safety = 1],
        [FastTrack("positron", 2, "EcalRegion") EXCEPT !.boundary = TRUE, !.step = 1],
        FastTrack("pi+", 2, "HcalRegion"), FastTrack("pi+", 2000, "HcalRegion"),
        [FastTrack("kaon-", 2000, "HcalRegion") EXCEPT !.calor = "HB", !.nearOut = TRUE],
        [FastTrack("proton", 2000, "HcalRegion") EXCEPT !.preshower = TRUE]}

Spot(region, sensitive, name, energy) ==
  [region |-> region, sensitive |-> sensitive, name |-> name, energy |-> energy]

MCProfiles ==
  {<<Spot("EcalRegion", FALSE, "EB", 1), Spot("EcalRegion", TRUE, "EB", 2),
     Spot("HcalRegion", TRUE, "HB", 3)>>,
   <<Spot("HcalRegion", TRUE, "HT", 1), Spot("none", TRUE, "none", 2),
     Spot("EcalRegion", TRUE, "EB", 3), Spot("HcalRegion", TRUE, "HB", 4)>>}

MCScale == [HB |-> 2, HE |-> 3, HT |-> 3]

-----------------------------------------------------------------------------
AllInit == /\ scene \in {"history", "steps", "transport", "fast"}
           /\ Init /\ StepsInit /\ TransportInit /\ FastInit
           /\ scene # "steps" => job = PixelJob
           /\ scene # "fast" => physicsJob = NoFast
           /\ scene # "transport" => beamJob = BeamJob(TRUE, TRUE, TRUE)

AllNext ==
  \/ scene = "history" /\ Next /\ UNCHANGED <<scene, stepVars, transportVars, fastVars>>
  \/ scene = "steps" /\ StepsNext /\ UNCHANGED <<scene, vars, transportVars, fastVars>>
  \/ scene = "transport" /\ TransportNext /\ UNCHANGED <<scene, vars, stepVars, fastVars>>
  \/ scene = "fast" /\ FastNext /\ UNCHANGED <<scene, vars, stepVars, transportVars>>

AllSpec == AllInit /\ [][AllNext]_<<scene, vars, stepVars, transportVars, fastVars>>

===============================================================================
