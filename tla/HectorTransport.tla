--------------------------- MODULE HectorTransport ---------------------------
(* SimTransport/HectorProducerForCTPPS: before Geant4 the leading protons of a *)
(* generator event are carried along the beam pipe to the Roman pots.  Each    *)
(* gets a successor there and a link from its barcode to the successor's;      *)
(* after the simulation SimTrackManager::resetGenID follows the links back.    *)
(* Barcodes are positions in the event.  Optics, smearing and boosts are       *)
(* abstracted to where a particle comes from: its event and its barcode.       *)
EXTENDS Integers, Sequences, FiniteSets

CONSTANTS MaxParticles,   \* bound: particles of a generator event
          MaxGenEvents,   \* bound: events
          TransportJobs   \* [CTPPSTransport |-> b, ctpps |-> [1 |-> b, -1 |-> b]]: a pot at z # 0

ASSUME TransportAssumption ==
  /\ MaxParticles \in Nat \ {0} /\ MaxGenEvents \in Nat
  /\ TransportJobs \subseteq [CTPPSTransport : BOOLEAN, ctpps : [{1, -1} -> BOOLEAN]]

VARIABLES beamJob,    \* the parameters of the job
          genEvent,   \* the generator's event
          hector,     \* the data members of HectorForCTPPS
          lhcEvent,   \* the event HectorProducerForCTPPS put
          lhcLinks,   \* its LHCTransportLinkContainer
          g4Primaries,\* generator particles simulated: [barcode, from]
          genEvents,  \* events begun
          beamPhase   \* "idle", "transported", "simulated"

transportVars == <<beamJob, genEvent, hector, lhcEvent, lhcLinks, g4Primaries, genEvents, beamPhase>>

\* A stable (status 1) proton within the cuts on pseudorapidity and momentum is
\* leading and flies to the positive or the negative side; which side any other
\* particle takes does not matter.
GenParticles ==
  {p \in [status : {1, 2}, leading : BOOLEAN, side : {1, -1}, from : {<<0, 0>>}] :
     p.side = -1 => p.leading /\ p.status = 1}

\* The event as generated: particle i of event e comes from <<e, i>>.
Generated(particles, e) == [i \in DOMAIN particles |-> [particles[i] EXCEPT !.from = <<e, i>>]]

Nowhere == [p \in {} |-> <<0, 0>>]

NewHector == [beamPart |-> Nowhere, direct |-> Nowhere, isStopped |-> Nowhere, atTrPoint |-> Nowhere]

TransportInit ==
  /\ beamJob \in TransportJobs
  /\ genEvent = <<>> /\ lhcEvent = <<>> /\ lhcLinks = <<>> /\ g4Primaries = {}
  /\ hector = NewHector
  /\ genEvents = 0 /\ beamPhase = "idle"

-------------------------------------------------------------------------------
(* HectorForCTPPS.                                                             *)

\* Variant with a fault: what is left of the last event stays.
NotCleared(h) == h

Clear(h) == [h EXCEPT !.beamPart = Nowhere, !.direct = Nowhere]

ClearApertureFlags(h) == [h EXCEPT !.isStopped = Nowhere]

\* add: the leading stable protons among the first n particles, unless their
\* barcode is taken.
AddFirst(h, evt, n) ==
  LET lines == {i \in 1 .. n : /\ evt[i].status = 1 /\ evt[i].leading
                               /\ i \notin DOMAIN h.beamPart}
  IN [h EXCEPT !.beamPart = [i \in DOMAIN @ \cup lines |-> IF i \in lines THEN evt[i].from ELSE @[i]],
               !.direct   = [i \in DOMAIN @ \cup lines |-> IF i \in lines THEN evt[i].side ELSE @[i]]]

\* filterCTPPS: those the beam line does not stop are propagated to the pots.
FilterCTPPS(h, stopped) ==
  LET lines == DOMAIN h.beamPart
      alive == {i \in lines : i \notin stopped}
  IN [h EXCEPT !.isStopped = [i \in DOMAIN @ \cup lines |-> IF i \in lines THEN i \in stopped ELSE @[i]],
               !.atTrPoint = [i \in DOMAIN @ \cup alive |-> IF i \in alive THEN h.beamPart[i] ELSE @[i]]]

\* The propagated ones; a pot at z = 0 takes none.
Carried(h, evt) ==
  {i \in DOMAIN evt \cap DOMAIN h.beamPart : ~h.isStopped[i] /\ beamJob.ctpps[h.direct[i]]}

\* Particles that Geant4 must not see at the interaction point any more.
Consumed(h, evt) ==
  Carried(h, evt) \cup {i \in DOMAIN h.beamPart \cap DOMAIN evt : h.isStopped[i]}

\* The k-th one carried, in the order of the barcodes.
Nth(k, h, evt) ==
  CHOOSE i \in Carried(h, evt) : Cardinality({j \in Carried(h, evt) : j < i}) = k - 1

\* addPartToHepMC: one new vertex, particle and link for each one carried.
AddPartToHepMC(h, evt) ==
  LET successor(i) == [evt[i] EXCEPT !.status = 1, !.from = h.atTrPoint[i]]
  IN [i \in 1 .. Len(evt) + Cardinality(Carried(h, evt)) |->
        IF i > Len(evt) THEN successor(Nth(i - Len(evt), h, evt))
        ELSE IF i \in Consumed(h, evt) THEN [evt[i] EXCEPT !.status = 2] ELSE evt[i]]

\* theCorrespondenceMap.
Correspondence(h, evt) ==
  [k \in 1 .. Cardinality(Carried(h, evt)) |-> [before |-> Nth(k, h, evt), after |-> Len(evt) + k]]

-------------------------------------------------------------------------------
(* HectorProducerForCTPPS::produce.                                            *)

NewGenEvent ==
  /\ beamPhase \in {"idle", "simulated"} /\ genEvents < MaxGenEvents
  /\ genEvents' = genEvents + 1
  /\ \E n \in 1 .. MaxParticles : \E particles \in [1 .. n -> GenParticles] :
       genEvent' = Generated(particles, genEvents + 1)

Opened == IF beamJob.CTPPSTransport THEN Clear(ClearApertureFlags(hector))
          ELSE ClearApertureFlags(hector)

\* The whole of produce; which protons the beam line stops is up to the optics.
Produce ==
  /\ NewGenEvent
  /\ \E stopped \in SUBSET DOMAIN genEvent' :
       \E h \in {IF beamJob.CTPPSTransport
                 THEN FilterCTPPS(AddFirst(Opened, genEvent', Len(genEvent')), stopped) ELSE Opened} :
         /\ stopped \subseteq DOMAIN h.beamPart
         /\ lhcEvent' = AddPartToHepMC(h, genEvent')
         /\ lhcLinks' = Correspondence(h, genEvent')
         /\ hector' = Clear(h)
  /\ beamPhase' = "transported" /\ g4Primaries' = {}
  /\ UNCHANGED beamJob

\* The product is missing or is Hector's own.
ProduceRefuses ==
  /\ NewGenEvent
  /\ beamPhase' = "idle" /\ g4Primaries' = {} /\ lhcEvent' = <<>> /\ lhcLinks' = <<>>
  /\ UNCHANGED <<beamJob, hector>>

\* add asks for the particle table at each proton, and may not get it.
ProduceThrows ==
  /\ NewGenEvent /\ beamJob.CTPPSTransport
  /\ \E n \in 0 .. Len(genEvent') - 1 : hector' = AddFirst(Opened, genEvent', n)
  /\ beamPhase' = "idle" /\ g4Primaries' = {} /\ lhcEvent' = <<>> /\ lhcLinks' = <<>>
  /\ UNCHANGED beamJob

-------------------------------------------------------------------------------
(* The simulation.                                                             *)

\* SimTrackManager::resetGenID.
ResetGenID(barcode) ==
  LET links == {k \in DOMAIN lhcLinks : lhcLinks[k].after = barcode}
  IN IF links = {} THEN barcode
     ELSE lhcLinks[CHOOSE k \in links : \A j \in links : j <= k].before

\* The generator action makes primaries of the stable particles (external).
Simulate ==
  /\ beamPhase = "transported"
  /\ beamPhase' = "simulated"
  /\ g4Primaries' = {[barcode |-> ResetGenID(i), from |-> lhcEvent[i].from] :
                       i \in {j \in DOMAIN lhcEvent : lhcEvent[j].status = 1}}
  /\ UNCHANGED <<beamJob, genEvent, hector, lhcEvent, lhcLinks, genEvents>>

TransportDone == /\ genEvents = MaxGenEvents /\ beamPhase \in {"idle", "simulated"}
                 /\ UNCHANGED transportVars

TransportNext == Produce \/ ProduceRefuses \/ ProduceThrows \/ Simulate \/ TransportDone

TransportSpec == TransportInit /\ [][TransportNext]_transportVars

-------------------------------------------------------------------------------
(* Properties.                                                                 *)

\* Every simulated particle names, after resetGenID, the very particle of this
\* event it comes from, by whichever way; no particle is simulated twice, at
\* the interaction point and at the pot; and of those the generator left stable
\* only leading protons, lost in the beam pipe, are missing.
PrimariesAreTraced ==
  beamPhase = "simulated" =>
    /\ \A p \in g4Primaries : p.from = <<genEvents, p.barcode>> /\ genEvent[p.barcode].status = 1
    /\ \A i \in DOMAIN lhcLinks : \A j \in DOMAIN lhcLinks :
         lhcLinks[i].before = lhcLinks[j].before => i = j
    /\ Cardinality({i \in DOMAIN lhcEvent : lhcEvent[i].status = 1}) = Cardinality(g4Primaries)
    /\ \A i \in DOMAIN genEvent :
         (genEvent[i].status = 1 /\ ~(genEvent[i].leading /\ beamJob.CTPPSTransport))
           => \E p \in g4Primaries : p.barcode = i

===============================================================================
