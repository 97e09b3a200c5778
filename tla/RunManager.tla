------------------------------ MODULE RunManager ------------------------------
(* SimG4Core/Application: a single-threaded simulation job.  OscarProducer     *)
(* passes the framework's transitions to RunManager, whose user actions call   *)
(* back into it: RunAction and EventAction look for a stop file and abort the  *)
(* run from inside the call that is ending it.                                 *)
EXTENDS Naturals

CONSTANTS NumRuns,          \* bound: runs of the job, numbered from 1
          MaxEvents,        \* bound: events of the job
          IOVs,             \* intervals of validity of the geometry and field records
          UseMagneticField, \* parameter UseMagneticField
          StopFileAllowed,  \* whether somebody may create the stop file
          None              \* a record never seen

ASSUME BoundsAssumption == NumRuns \in Nat /\ MaxEvents \in Nat
ASSUME FlagsAssumption == UseMagneticField \in BOOLEAN /\ StopFileAllowed \in BOOLEAN

VARIABLES phase,     \* of the framework: "idle", "inRun", "put", "over"; or "crashed"
          failed,    \* an exception reached the framework
          runNumber, nextEvent,
          iov,       \* the geometry and field records of the current run
          stopFile,  \* the stop file exists
          watcher,   \* the records the ESWatchers saw last
          world,     \* the records the world and the field were built from
          flags,     \* m_managerInitialized, m_runInitialized, m_runTerminated, m_runAborted, firstRun
          live,      \* which of m_currentRun, m_userRunAction are not null
          simEvent,  \* event of m_simEvent, 0 if null
          stored,    \* event whose tracks EndOfEventAction stored in it, 0 if none
          signals    \* runs for which BeginOfRun and EndOfRun were signalled

vars == <<phase, failed, runNumber, nextEvent, iov, stopFile, watcher, world, flags, live,
          simEvent, stored, signals>>

Events  == 0 .. MaxEvents
Records == [geometry : IOVs, field : IOVs]

\* The job before its first run, with its producer and what it will put.
NewJob == /\ phase = "idle" /\ failed = FALSE /\ runNumber = 0 /\ nextEvent = 1
          /\ iov \in Records /\ stopFile = FALSE /\ stored = 0

\* The run manager the producer constructs.
Init == /\ NewJob
        /\ watcher = [geometry |-> None, field |-> None]
        /\ world = watcher
        /\ flags = [initialized |-> FALSE, runInitialized |-> FALSE, terminated |-> FALSE,
                    aborted |-> FALSE, firstRun |-> TRUE]
        /\ live = [run |-> FALSE, runAction |-> FALSE]
        /\ simEvent = 0
        /\ signals = [begun |-> {}, ended |-> {}]

CreateStopFile ==
  /\ StopFileAllowed /\ ~stopFile /\ phase \in {"idle", "inRun"}
  /\ stopFile' = TRUE
  /\ UNCHANGED <<phase, failed, runNumber, nextEvent, iov, watcher, world, flags, live,
                 simEvent, stored, signals>>

RemoveStopFile ==
  /\ stopFile /\ phase \in {"idle", "inRun"}
  /\ stopFile' = FALSE
  /\ UNCHANGED <<phase, failed, runNumber, nextEvent, iov, watcher, world, flags, live,
                 simEvent, stored, signals>>

-------------------------------------------------------------------------------
(* The calls that end a run.                                                   *)

\* terminateRun with a RunAction calls EndOfRunAction, which reads the run it is
\* given; abortRun has just deleted that run, so with a stop file the process
\* dies reading through a null pointer: at once (EndOfEventAction and
\* BeginOfRunAction abort) or in the nested abort of EndOfRunAction.
\* Variant with a fault: terminateRun runs again.
TerminatesAgain == TRUE

Terminates == ~flags.terminated

DiesTerminating == Terminates /\ live.runAction /\ stopFile

Crash == /\ phase' = "crashed"
         /\ UNCHANGED <<failed, runNumber, nextEvent, iov, stopFile, watcher, world, flags,
                        live, simEvent, stored, signals>>

\* Variant with a fault: EndOfRun is signalled without a RunAction.
AlwaysSignalled == [signals EXCEPT !.ended = @ \cup {runNumber}]

\* What terminateRun signals.
EndSignals == IF live.runAction THEN [signals EXCEPT !.ended = @ \cup {runNumber}] ELSE signals

TerminatedFlags == [flags EXCEPT !.runInitialized = FALSE, !.terminated = TRUE]

TerminateRun ==
  IF Terminates
    THEN /\ flags' = TerminatedFlags
         /\ live' = [live EXCEPT !.runAction = FALSE]
         /\ signals' = EndSignals
         /\ simEvent' = 0 /\ stored' = 0
    ELSE UNCHANGED <<flags, live, signals, simEvent, stored>>

-------------------------------------------------------------------------------
(* OscarProducer::beginRun.                                                    *)

BeginRunAllowed == phase = "idle" /\ runNumber < NumRuns /\ ~failed

\* The ESWatchers of initG4: the geometry's first, the field's only if it passed.
GeomChanged(r) == watcher.geometry # r.geometry
MagChanged(r)  == UseMagneticField /\ watcher.field # r.field

Looked(r) == [geometry |-> r.geometry,
              field |-> IF UseMagneticField THEN r.field ELSE watcher.field]

\* Variant with a fault: a changed field goes unnoticed.
GeometryOnly(r) == ~flags.firstRun /\ GeomChanged(r)

Refused(r) == ~flags.firstRun /\ (GeomChanged(r) \/ MagChanged(r))

RefuseRun ==
  /\ BeginRunAllowed
  /\ \E r \in Records :
       /\ Refused(r)
       /\ iov' = r
       /\ watcher' = IF GeomChanged(r) THEN [watcher EXCEPT !.geometry = r.geometry] ELSE Looked(r)
  /\ failed' = TRUE
  /\ UNCHANGED <<phase, runNumber, nextEvent, stopFile, world, flags, live, simEvent, stored, signals>>

\* A record, a factory or the kernel makes initG4 throw in the first run.
InitFails ==
  /\ BeginRunAllowed /\ ~flags.initialized
  /\ \E r \in Records : iov' = r /\ watcher' = Looked(r)
  /\ failed' = TRUE
  /\ UNCHANGED <<phase, runNumber, nextEvent, stopFile, world, flags, live, simEvent, stored, signals>>

\* initializeUserActions: the generator exists from the constructor on, so that
\* the actions of events, tracks and steps are set whenever the run action is.
UserActions == [live EXCEPT !.runAction = TRUE]

\* The first run: world, field, user actions and initializeRun.
InitG4 ==
  /\ BeginRunAllowed /\ ~flags.initialized /\ ~stopFile
  /\ \E r \in Records : iov' = r /\ watcher' = Looked(r) /\ world' = Looked(r)
  /\ runNumber' = runNumber + 1 /\ phase' = "inRun"
  /\ flags' = [flags EXCEPT !.initialized = TRUE, !.runInitialized = TRUE, !.aborted = FALSE,
                            !.firstRun = FALSE]
  /\ live' = [UserActions EXCEPT !.run = TRUE]
  /\ signals' = [signals EXCEPT !.begun = @ \cup {runNumber + 1}]
  /\ UNCHANGED <<failed, nextEvent, stopFile, simEvent, stored>>

\* BeginOfRunAction of the first run aborts it: the null run is read.
InitG4Dies == BeginRunAllowed /\ ~flags.initialized /\ stopFile /\ Crash

\* Any other run: initG4 returns after looking at the records.
InitG4Again ==
  /\ BeginRunAllowed /\ flags.initialized
  /\ \E r \in Records : ~Refused(r) /\ iov' = r /\ watcher' = Looked(r)
  /\ runNumber' = runNumber + 1 /\ phase' = "inRun"
  /\ UNCHANGED <<failed, nextEvent, stopFile, world, flags, live, simEvent, stored, signals>>

-------------------------------------------------------------------------------
(* OscarProducer::produce.                                                     *)

Produces == phase = "inRun" /\ nextEvent <= MaxEvents /\ ~failed

\* EndOfEventAction aborts the run, unless that was done before.
Aborts == stopFile /\ ~flags.aborted

\* Geant4 simulates the event and EndOfEventAction stores its tracks, after it
\* aborted the run: softly, since that run was terminated before.
Produce ==
  /\ Produces /\ ~(Aborts /\ DiesTerminating)
  /\ nextEvent' = nextEvent + 1
  /\ IF Aborts
       THEN /\ flags' = [IF Terminates THEN TerminatedFlags ELSE flags EXCEPT !.aborted = TRUE]
            /\ live' = [run |-> FALSE, runAction |-> live.runAction /\ ~Terminates]
            /\ signals' = IF Terminates THEN EndSignals ELSE signals
            /\ simEvent' = IF Terminates THEN 0 ELSE nextEvent
       ELSE simEvent' = nextEvent /\ UNCHANGED <<flags, live, signals>>
  /\ stored' = simEvent'
  /\ phase' = "put"
  /\ UNCHANGED <<failed, runNumber, iov, stopFile, watcher, world>>

ProduceDies == Produces /\ Aborts /\ DiesTerminating /\ Crash

\* The tracks of m_simEvent go into the event.
PutProducts ==
  /\ phase = "put" /\ phase' = "inRun"
  /\ UNCHANGED <<failed, runNumber, nextEvent, iov, stopFile, watcher, world, flags, live,
                 simEvent, stored, signals>>

\* No primary vertices, or an exception of Geant4: stopG4, then EventCorruption,
\* on which the framework skips the event or ends the job.
ProduceThrows ==
  /\ Produces /\ ~DiesTerminating
  /\ nextEvent' = nextEvent + 1
  /\ IF Terminates THEN TerminateRun
     ELSE simEvent' = nextEvent /\ stored' = 0 /\ UNCHANGED <<flags, live, signals>>
  /\ failed' \in BOOLEAN
  /\ UNCHANGED <<phase, runNumber, iov, stopFile, watcher, world>>

ProduceThrowsAndDies == Produces /\ DiesTerminating /\ Crash

-------------------------------------------------------------------------------
(* OscarProducer::endRun (stopG4) and the destructor.                          *)

StopG4 ==
  /\ phase = "inRun" /\ ~DiesTerminating
  /\ phase' = "idle"
  /\ TerminateRun
  /\ UNCHANGED <<failed, runNumber, nextEvent, iov, stopFile, watcher, world>>

StopG4Dies == phase = "inRun" /\ DiesTerminating /\ Crash

Destroy ==
  /\ phase = "idle" /\ ~DiesTerminating
  /\ phase' = "over"
  /\ TerminateRun
  /\ UNCHANGED <<failed, runNumber, nextEvent, iov, stopFile, watcher, world>>

Finished == phase \in {"over", "crashed"} /\ UNCHANGED vars

Next == \/ CreateStopFile \/ RemoveStopFile
        \/ RefuseRun \/ InitFails \/ InitG4 \/ InitG4Dies \/ InitG4Again
        \/ Produce \/ ProduceDies \/ PutProducts \/ ProduceThrows \/ ProduceThrowsAndDies
        \/ StopG4 \/ StopG4Dies \/ Destroy
        \/ Finished

Spec == Init /\ [][Next]_vars

-------------------------------------------------------------------------------
(* Properties.                                                                 *)

FlagsType == [initialized : BOOLEAN, runInitialized : BOOLEAN, terminated : BOOLEAN,
              aborted : BOOLEAN, firstRun : BOOLEAN]
Seen == [geometry : IOVs \cup {None}, field : IOVs \cup {None}]

\* Every variable has its type, and the flags agree: a run is initialised only
\* by an initialised manager and not after its termination.
TypeOK ==
  /\ phase \in {"idle", "inRun", "put", "over", "crashed"} /\ failed \in BOOLEAN
  /\ runNumber \in 0 .. NumRuns /\ nextEvent \in 1 .. MaxEvents + 1
  /\ iov \in Records /\ stopFile \in BOOLEAN /\ watcher \in Seen /\ world \in Seen
  /\ flags \in FlagsType
  /\ flags.runInitialized => flags.initialized /\ ~flags.terminated
  /\ flags.initialized <=> ~flags.firstRun
  /\ live \in [run : BOOLEAN, runAction : BOOLEAN]
  /\ simEvent \in Events /\ stored \in Events
  /\ signals \in [begun : SUBSET (1 .. NumRuns), ended : SUBSET (0 .. NumRuns)]

\* The products an event gets are its own: m_simEvent was neither deleted by a
\* termination nested in its processing nor left over from an event before it,
\* also after exceptions, aborted runs and runs that were never initialised.
EventGetsItsOwnTracks == phase = "put" => simEvent = nextEvent - 1 /\ stored = simEvent

\* An event is simulated in the geometry and the field of its run, although
\* only the first run builds them.
SimulatedInItsGeometry ==
  phase = "put" => /\ world.geometry = iov.geometry
                   /\ UseMagneticField => world.field = iov.field

\* A RunAction ends exactly the run it began, and a job that ends without a
\* crash leaves no begun run without its EndOfRun (stopG4 after an exception,
\* stopG4 at the end of the run and the destructor all try).
EndedOnce ==
  /\ signals.ended \subseteq signals.begun
  /\ live.runAction <=> signals.begun \ signals.ended # {}
  /\ phase = "over" => signals.begun = signals.ended
===============================================================================
