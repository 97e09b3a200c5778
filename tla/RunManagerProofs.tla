--------------------------- MODULE RunManagerProofs ----------------------------
(* Proofs about RunManager: its flags, the RunAction and what the event gets   *)
(* agree in every job, however many runs, events and records it has.           *)
EXTENDS RunManager, TLAPS

\* A manager that was not initialised has had no run and no RunAction; one that
\* was has begun the first run, whose RunAction lives until it is terminated.
RunActionInv ==
  /\ ~flags.initialized => runNumber = 0 /\ signals.begun = {} /\ signals.ended = {} /\ ~live.runAction
  /\ flags.initialized => signals.begun = {1}
  /\ flags.initialized /\ ~flags.terminated => live.runAction
  /\ live.runAction => flags.initialized /\ ~flags.terminated /\ runNumber = 1 /\ signals.ended = {}
  /\ ~live.runAction => signals.ended = signals.begun

\* Between two runs nothing is left of the last one.
PhaseInv ==
  /\ phase \in {"idle", "over"} => ~live.runAction
  /\ phase \in {"inRun", "put"} => flags.initialized
  /\ phase = "idle" /\ ~flags.initialized => ~flags.terminated

\* The world was built from the records the watchers saw last, until they see a
\* change and refuse the run.
WorldInv ==
  /\ flags.initialized /\ ~failed =>
       world.geometry = watcher.geometry /\ (UseMagneticField => world.field = watcher.field)
  /\ phase \in {"inRun", "put"} =>
       world.geometry = iov.geometry /\ (UseMagneticField => world.field = iov.field)

IInv == TypeOK /\ RunActionInv /\ PhaseInv /\ WorldInv /\ EventGetsItsOwnTracks

\* The first state satisfies the invariant.
LEMMA InitIInv == Init => IInv
<1> SUFFICES ASSUME Init PROVE IInv
  OBVIOUS
<1> USE BoundsAssumption, FlagsAssumption DEF Init, NewJob
<1>1. TypeOK
  <2>1. flags \in FlagsType /\ live \in [run : BOOLEAN, runAction : BOOLEAN]
    BY DEF FlagsType
  <2>2. iov \in Records /\ watcher \in Seen /\ world \in Seen
    BY DEF Records, Seen
  <2>3. signals \in [begun : SUBSET (1 .. NumRuns), ended : SUBSET (0 .. NumRuns)]
    OBVIOUS
  <2>4. runNumber \in 0 .. NumRuns /\ nextEvent \in 1 .. MaxEvents + 1 /\ simEvent \in Events /\ stored \in Events
    BY DEF Events
  <2> QED
    BY <2>1, <2>2, <2>3, <2>4 DEF TypeOK
<1>2. RunActionInv /\ PhaseInv /\ WorldInv /\ EventGetsItsOwnTracks
  BY DEF RunActionInv, PhaseInv, WorldInv, EventGetsItsOwnTracks
<1> QED
  BY <1>1, <1>2 DEF IInv

\* What terminateRun makes of the flags and signals, by component.
LEMMA TerminatedParts ==
  ASSUME TypeOK
  PROVE  /\ TerminatedFlags \in FlagsType
         /\ TerminatedFlags.terminated /\ ~TerminatedFlags.runInitialized
         /\ TerminatedFlags.initialized = flags.initialized
         /\ TerminatedFlags.firstRun = flags.firstRun /\ TerminatedFlags.aborted = flags.aborted
         /\ EndSignals.begun = signals.begun
         /\ EndSignals.ended = IF live.runAction THEN signals.ended \cup {runNumber} ELSE signals.ended
         /\ EndSignals \in [begun : SUBSET (1 .. NumRuns), ended : SUBSET (0 .. NumRuns)]
<1> USE DEF TypeOK
<1>1. /\ TerminatedFlags \in FlagsType
      /\ TerminatedFlags.terminated = TRUE /\ TerminatedFlags.runInitialized = FALSE
      /\ TerminatedFlags.initialized = flags.initialized
      /\ TerminatedFlags.firstRun = flags.firstRun /\ TerminatedFlags.aborted = flags.aborted
  BY DEF TerminatedFlags, FlagsType
<1>2. CASE live.runAction
  BY <1>1, <1>2 DEF EndSignals
<1>3. CASE ~live.runAction
  BY <1>1, <1>3 DEF EndSignals
<1> QED
  BY <1>1, <1>2, <1>3

\* terminateRun, called from stopG4 and from the destructor, deletes the
\* RunAction after it has signalled the end of the run it began.
LEMMA Terminating ==
  ASSUME IInv, TerminateRun
  PROVE  /\ flags' \in FlagsType /\ live' \in [run : BOOLEAN, runAction : BOOLEAN]
         /\ simEvent' \in Events /\ stored' \in Events
         /\ signals' \in [begun : SUBSET (1 .. NumRuns), ended : SUBSET (0 .. NumRuns)]
         /\ flags'.terminated /\ ~live'.runAction
         /\ flags'.initialized = flags.initialized /\ flags'.firstRun = flags.firstRun
         /\ flags'.runInitialized => flags'.initialized /\ ~flags'.terminated
         /\ signals'.begun = signals.begun /\ signals'.ended = signals.begun
<1> USE BoundsAssumption DEF IInv
<1>1. CASE Terminates
  <2>1. flags' = TerminatedFlags /\ signals' = EndSignals /\ live' = [live EXCEPT !.runAction = FALSE]
        /\ simEvent' = 0 /\ stored' = 0
    BY <1>1 DEF TerminateRun
  <2>2. live' \in [run : BOOLEAN, runAction : BOOLEAN] /\ live'.runAction = FALSE
    BY <2>1 DEF TypeOK
  <2>3. signals'.ended = signals.begun
    BY <2>1, TerminatedParts DEF TypeOK, RunActionInv
  <2> QED
    BY <2>1, <2>2, <2>3, TerminatedParts DEF Events
<1>2. CASE ~Terminates
  <2>1. UNCHANGED <<flags, live, signals, simEvent, stored>> /\ flags.terminated
    BY <1>2 DEF TerminateRun, Terminates
  <2>2. ~live.runAction
    BY <2>1 DEF RunActionInv
  <2> QED
    BY <2>1, <2>2 DEF TypeOK, RunActionInv
<1> QED
  BY <1>1, <1>2

\* The stop file says nothing about what the invariant relates.
LEMMA StopFileStep ==
  ASSUME IInv, CreateStopFile \/ RemoveStopFile
  PROVE  IInv'
<1>1. /\ stopFile' \in BOOLEAN
      /\ UNCHANGED <<phase, failed, runNumber, nextEvent, iov, watcher, world, flags, live, simEvent, stored, signals>>
  BY DEF CreateStopFile, RemoveStopFile
<1>2. TypeOK'
  BY <1>1 DEF IInv, TypeOK
<1>3. RunActionInv' /\ PhaseInv' /\ WorldInv' /\ EventGetsItsOwnTracks'
  BY <1>1 DEF IInv, RunActionInv, PhaseInv, WorldInv, EventGetsItsOwnTracks
<1> QED
  BY <1>2, <1>3 DEF IInv

\* The first run begins: the RunAction is created and signals its begin.
LEMMA InitG4Step ==
  ASSUME IInv, InitG4
  PROVE  IInv'
<1> USE BoundsAssumption, FlagsAssumption DEF IInv, InitG4, BeginRunAllowed
<1>1. /\ flags' \in FlagsType /\ flags'.initialized /\ flags'.runInitialized /\ ~flags'.firstRun
      /\ flags'.terminated = flags.terminated
  BY DEF TypeOK, FlagsType
<1>2. /\ signals' \in [begun : SUBSET (1 .. NumRuns), ended : SUBSET (0 .. NumRuns)]
      /\ signals'.begun = {1} /\ signals'.ended = {} /\ runNumber' = 1
  BY DEF TypeOK, RunActionInv
<1>3. ~flags.terminated
  BY DEF PhaseInv
<1>4. iov' \in Records /\ watcher' \in Seen /\ world' \in Seen
      /\ world' = watcher' /\ world'.geometry = iov'.geometry
      /\ (UseMagneticField => world'.field = iov'.field)
  BY DEF TypeOK, Looked, Records, Seen
<1>5. live'.runAction /\ live' \in [run : BOOLEAN, runAction : BOOLEAN]
  BY DEF TypeOK, UserActions
<1>6. RunActionInv' /\ PhaseInv' /\ EventGetsItsOwnTracks'
  BY <1>1, <1>2, <1>3, <1>5 DEF RunActionInv, PhaseInv, EventGetsItsOwnTracks
<1>7. WorldInv'
  BY <1>4 DEF WorldInv
<1>8. TypeOK'
  BY <1>1, <1>2, <1>3, <1>4, <1>5 DEF TypeOK, Events
<1> QED
  BY <1>6, <1>7, <1>8

\* An event is simulated; a stop file aborts the run before its tracks are
\* stored, which deletes nothing that the event needs.
LEMMA ProduceStep ==
  ASSUME IInv, Produce
  PROVE  IInv'
<1> USE BoundsAssumption DEF IInv, Produce, Produces
<1>1. Aborts => ~Terminates
  BY DEF Aborts, DiesTerminating, Terminates, RunActionInv, PhaseInv
<1>2. simEvent' = nextEvent /\ stored' = nextEvent /\ nextEvent' = nextEvent + 1 /\ phase' = "put" /\ signals' = signals
  BY <1>1
<1>3. /\ flags' \in FlagsType /\ live' \in [run : BOOLEAN, runAction : BOOLEAN]
      /\ flags'.initialized = flags.initialized /\ flags'.terminated = flags.terminated
      /\ flags'.runInitialized = flags.runInitialized /\ flags'.firstRun = flags.firstRun
      /\ live'.runAction = live.runAction
  <2>1. CASE Aborts
    <3>1. flags' = [flags EXCEPT !.aborted = TRUE] /\ live' = [run |-> FALSE, runAction |-> live.runAction]
      BY <1>1, <2>1, Zenon DEF TypeOK
    <3> QED
      BY <3>1 DEF TypeOK, FlagsType
  <2>2. CASE ~Aborts
    BY <2>2 DEF TypeOK
  <2> QED
    BY <2>1, <2>2
<1>4. nextEvent \in Events /\ nextEvent' \in 1 .. MaxEvents + 1
  BY <1>2 DEF TypeOK, Events
<1>5. TypeOK'
  BY <1>2, <1>3, <1>4 DEF TypeOK, Events
<1>6. RunActionInv' /\ PhaseInv' /\ WorldInv'
  BY <1>2, <1>3 DEF RunActionInv, PhaseInv, WorldInv
<1>7. EventGetsItsOwnTracks'
  BY <1>2, <1>4 DEF EventGetsItsOwnTracks, Events
<1> QED
  BY <1>5, <1>6, <1>7

\* Every action of the framework, of the user actions and of whoever creates
\* the stop file preserves the invariant.
LEMMA StepIInv ==
  ASSUME IInv, [Next]_vars
  PROVE  IInv'
<1> USE BoundsAssumption, FlagsAssumption
    DEF IInv, TypeOK, RunActionInv, PhaseInv, WorldInv, EventGetsItsOwnTracks, Events, Records, FlagsType, Seen
<1>3. CASE RefuseRun
  BY <1>3 DEF RefuseRun, BeginRunAllowed, Refused, GeomChanged, MagChanged, Looked
<1>4. CASE InitFails
  BY <1>4 DEF InitFails, BeginRunAllowed, Looked
<1>6. CASE InitG4Again
  BY <1>6 DEF InitG4Again, BeginRunAllowed, Refused, GeomChanged, MagChanged, Looked
<1>8. CASE PutProducts
  BY <1>8 DEF PutProducts
<1>9. CASE ProduceThrows
  <2>1. CASE Terminates
    BY <1>9, <2>1, Terminating DEF ProduceThrows, Produces
  <2>2. CASE ~Terminates
    BY <1>9, <2>2 DEF ProduceThrows, Produces
  <2> QED
    BY <2>1, <2>2
<1>10. CASE StopG4 \/ Destroy
  BY <1>10, Terminating DEF StopG4, Destroy
<1>11. CASE InitG4Dies \/ ProduceDies \/ ProduceThrowsAndDies \/ StopG4Dies
  BY <1>11 DEF InitG4Dies, ProduceDies, ProduceThrowsAndDies, StopG4Dies, Crash
<1>12. CASE UNCHANGED vars
  BY <1>12 DEF vars
<1> QED
  BY StopFileStep, InitG4Step, ProduceStep, <1>3, <1>4, <1>6, <1>8, <1>9, <1>10, <1>11, <1>12 DEF Next, Finished

\* The flags, the RunAction, the records and the event's products agree.
THEOREM JobInvariant == Spec => []IInv
  BY InitIInv, StepIInv, PTL DEF Spec

\* Type correctness of RunManager.
THEOREM Typing == Spec => []TypeOK
<1>1. IInv => TypeOK
  BY DEF IInv
<1> QED
  BY <1>1, JobInvariant, PTL

\* Whatever exceptions and stop files did before, an event that reaches the
\* producer's put carries the tracks of that event (produce, terminateRun).
THEOREM ProductsAreOfTheEvent == Spec => []EventGetsItsOwnTracks
<1>1. IInv => EventGetsItsOwnTracks
  BY DEF IInv
<1> QED
  BY <1>1, JobInvariant, PTL

\* No event is simulated in another geometry or field than that of its run.
THEOREM GeometryIsOfTheRun == Spec => []SimulatedInItsGeometry
<1>1. IInv => SimulatedInItsGeometry
  BY DEF IInv, WorldInv, SimulatedInItsGeometry
<1> QED
  BY <1>1, JobInvariant, PTL

\* BeginOfRun and EndOfRun are paired, however the run ends.
THEOREM RunsEndOnce == Spec => []EndedOnce
<1>1. IInv => EndedOnce
  BY DEF IInv, RunActionInv, PhaseInv, EndedOnce
<1> QED
  BY <1>1, JobInvariant, PTL
===============================================================================
