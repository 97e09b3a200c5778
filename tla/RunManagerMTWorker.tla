-------------------------- MODULE RunManagerMTWorker --------------------------
(* SimG4Core/Application: the simulation workers.  OscarMTProducer has one     *)
(* RunManagerMTWorker per stream, Geant4 keeps its state per thread (m_tls),   *)
(* and the framework runs any stream on any idle thread.  A worker therefore   *)
(* initialises the thread it finds itself on, notices there that the run       *)
(* changed, and ends the run of whatever thread executes its endRun.           *)
EXTENDS Naturals, FiniteSets

CONSTANTS Threads,     \* the threads of the framework's pool
          MainThread,  \* the one that constructs and destroys the modules
          Streams,     \* one worker each
          NumRuns,     \* bound: runs of the job, numbered from 1
          MaxEvents,   \* bound: events of the job
          None         \* a null pointer

ASSUME MainThreadAssumption == MainThread \in Threads
ASSUME NoneAssumption == None \notin Streams
ASSUME BoundsAssumption == NumRuns \in Nat /\ MaxEvents \in Nat

VARIABLES hasWatchers, \* parameter Watchers is not empty
          built,      \* streams whose worker has been constructed
          phase,      \* of the framework: "between" runs, "events", "ending", "over";
                      \* or "crashed"
          stopping,   \* the framework starts no further event or run
          run,        \* the current run, 0 before the first
          nextEvent,  \* number of the next event
          endedStreams, \* streams whose endRun was called for the current run
          task,       \* task[t]: the stream a thread works for, the event and the stage
          tls,        \* tls[t]: m_tls of the thread
          engine,     \* engine[t]: the stream whose random engine Geant4 uses there
          simEvent,   \* simEvent[s]: event of worker s's m_simEvent, 0 if null
          tracks,     \* tracks[s]: event whose tracks were stored in it, 0 if none
          history     \* history[t]: the runs initialised and terminated on the thread,
                      \* and those whose BeginOfRun and EndOfRun were signalled there

framework == <<hasWatchers, built, phase, stopping, run, nextEvent, endedStreams>>
vars == <<framework, task, tls, engine, simEvent, tracks, history>>

Runs   == 0 .. NumRuns
Events == 0 .. MaxEvents
NoTask == [stage |-> "none", stream |-> None, event |-> 0]
Idle(t) == task[t].stage = "none"
Busy(s) == \E t \in Threads : task[t].stream = s

\* No m_tls yet, and TLSData as it is created.
NoTLS  == [exists |-> FALSE, initialized |-> FALSE, runAction |-> FALSE,
           currentRunNumber |-> 0, runTerminated |-> FALSE, worker |-> None,
           event |-> 0, watchers |-> FALSE]
NewTLS(watchers) == [NoTLS EXCEPT !.exists = TRUE, !.watchers = watchers]

NoHistory == [opened |-> {}, closed |-> {}, begun |-> {}, ended |-> {}]

Init == /\ hasWatchers \in BOOLEAN
        /\ built = {} /\ phase = "between" /\ stopping = FALSE
        /\ run = 0 /\ nextEvent = 1 /\ endedStreams = {}
        /\ task = [t \in Threads |-> NoTask]
        /\ tls = [t \in Threads |-> NoTLS]
        /\ engine = [t \in Threads |-> None]
        /\ simEvent = [s \in Streams |-> 0] /\ tracks = [s \in Streams |-> 0]
        /\ history = [t \in Threads |-> NoHistory]

-------------------------------------------------------------------------------
(* Ending a run on a thread.                                                   *)

Terminable(t) == tls[t].exists /\ ~tls[t].runTerminated

\* What terminateRun leaves in m_tls and signals.
Terminated(t) == [tls[t] EXCEPT !.runAction = FALSE, !.event = 0, !.runTerminated = TRUE]

TerminatedHistory(t) ==
  [history[t] EXCEPT !.closed = @ \cup {tls[t].currentRunNumber},
                     !.ended = IF tls[t].runAction THEN @ \cup {tls[t].currentRunNumber} ELSE @]

\* terminateRun of worker s on thread t.
TerminateRun(s, t) ==
  IF Terminable(t)
    THEN /\ tls' = [tls EXCEPT ![t] = Terminated(t)]
         /\ history' = [history EXCEPT ![t] = TerminatedHistory(t)]
         /\ simEvent' = [simEvent EXCEPT ![s] = 0]
         /\ tracks' = [tracks EXCEPT ![s] = 0]
    ELSE UNCHANGED <<tls, history, simEvent, tracks>>

-------------------------------------------------------------------------------
(* Construction and destruction of the workers, on the main thread.            *)

\* The constructor calls initializeTLS before it stores m_hasWatchers: whether
\* the first worker creates the watchers of the main thread is undefined.
NewWorker ==
  \E garbage \in BOOLEAN :
    tls' = IF tls[MainThread].exists THEN tls
           ELSE [tls EXCEPT ![MainThread] = NewTLS(hasWatchers /\ garbage)]

\* The producer of a stream constructs its worker.
Construct(s) ==
  /\ phase = "between" /\ run = 0 /\ s \notin built
  /\ built' = built \cup {s}
  /\ NewWorker
  /\ UNCHANGED <<hasWatchers, phase, stopping, run, nextEvent, endedStreams, task, engine,
                 simEvent, tracks, history>>

Destroy(s) ==
  /\ phase = "over" /\ s \in built
  /\ built' = built \ {s}
  /\ TerminateRun(s, MainThread)
  /\ UNCHANGED <<hasWatchers, phase, stopping, run, nextEvent, endedStreams, task, engine>>

-------------------------------------------------------------------------------
(* The framework: runs one after the other, streams on whatever thread is idle.*)

OpenRun ==
  /\ phase = "between" /\ built = Streams /\ run < NumRuns /\ ~stopping
  /\ phase' = "events" /\ run' = run + 1 /\ endedStreams' = {}
  /\ UNCHANGED <<hasWatchers, built, stopping, nextEvent, task, tls, engine, simEvent, tracks, history>>

EndOfEvents ==
  /\ phase = "events" /\ \A t \in Threads : Idle(t)
  /\ phase' = "ending"
  /\ UNCHANGED <<hasWatchers, built, stopping, run, nextEvent, endedStreams, task, tls, engine,
                 simEvent, tracks, history>>

\* OscarMTProducer::endRun of stream s, on thread t.
StreamEndRun(s, t) ==
  /\ phase = "ending" /\ s \notin endedStreams /\ Idle(t)
  /\ endedStreams' = endedStreams \cup {s}
  /\ TerminateRun(s, t)
  /\ UNCHANGED <<hasWatchers, built, phase, stopping, run, nextEvent, task, engine>>

CloseRun ==
  /\ phase = "ending" /\ endedStreams = Streams
  /\ phase' \in {"between", "over"}
  /\ phase' = "between" => run < NumRuns /\ ~stopping
  /\ UNCHANGED <<hasWatchers, built, stopping, run, nextEvent, endedStreams, task, tls, engine,
                 simEvent, tracks, history>>

-------------------------------------------------------------------------------
(* OscarMTProducer::produce of stream s on thread t, in four stages.  The      *)
(* stages of different threads interleave.                                     *)

\* Variant with a fault: an exception leaves the stream's engine in place.
EngineKept(t) == engine

EngineRestored(t) == [engine EXCEPT ![t] = None]

LeaveProduce(t) ==
  /\ task' = [task EXCEPT ![t] = NoTask]
  /\ engine' = [engine EXCEPT ![t] = None]

\* An exception leaves produce; the framework stops or skips the event.
Throw(t) ==
  /\ task' = [task EXCEPT ![t] = NoTask]
  /\ engine' = EngineRestored(t)
  /\ stopping' \in {stopping, TRUE}

To(t, stage) == /\ task' = [task EXCEPT ![t].stage = stage]
                /\ UNCHANGED <<engine, stopping>>

At(s, t, stage) ==
  phase = "events" /\ task[t].stage = stage /\ task[t].stream = s

\* The producer takes the stream's random engine and asks for the thread's
\* detectors, which creates m_tls; watchers are refused on any thread but the
\* first (a Configuration exception, which stops the job).
StartEvent(s, t) ==
  /\ phase = "events" /\ nextEvent <= MaxEvents /\ ~stopping
  /\ Idle(t) /\ ~Busy(s)
  /\ nextEvent' = nextEvent + 1
  /\ tls' = IF tls[t].exists THEN tls
            ELSE [tls EXCEPT ![t] = NewTLS(hasWatchers /\ t = MainThread)]
  /\ IF hasWatchers /\ ~tls[t].exists /\ t # MainThread
       THEN stopping' = TRUE /\ UNCHANGED <<task, engine>>
       ELSE /\ task' = [task EXCEPT ![t] = [stage |-> "init", stream |-> s, event |-> nextEvent]]
            /\ engine' = [engine EXCEPT ![t] = s]
            /\ stopping' = stopping
  /\ UNCHANGED <<hasWatchers, built, phase, run, endedStreams, simEvent, tracks, history>>

\* initializeThread, when the thread was not initialised; it throws when the
\* session type is unknown or Geant4's kernel does not initialise.
InitializeThread(s, t) ==
  /\ At(s, t, "init")
  /\ \/ /\ ~tls[t].initialized
        /\ tls' = [tls EXCEPT ![t].initialized = TRUE, ![t].runAction = TRUE]
        /\ To(t, "run")
     \/ tls[t].initialized /\ tls' = tls /\ To(t, "run")
     \/ ~tls[t].initialized /\ tls' = tls /\ Throw(t)
  /\ UNCHANGED <<hasWatchers, built, phase, run, nextEvent, endedStreams, simEvent, tracks, history>>

\* Variant with a fault: only a thread that has no run yet is given one.
FirstRunOnly(t) == tls[t].currentRunNumber = 0

RunChanged(t) == tls[t].currentRunNumber # run

MustTerminate(t) == tls[t].currentRunNumber # 0 /\ ~tls[t].runTerminated

\* The run of the event differs from the run of the thread: terminate that run
\* if nobody did, and initialise the new one (initializeRun).
ChangeRun(s, t) ==
  LET old  == IF MustTerminate(t) THEN Terminated(t) ELSE tls[t]
      hist == IF MustTerminate(t) THEN TerminatedHistory(t) ELSE history[t]
  IN  /\ At(s, t, "run")
      /\ RunChanged(t)
      /\ tls' = [tls EXCEPT ![t] = [old EXCEPT !.currentRunNumber = run]]
      /\ history' = [history EXCEPT ![t] =
                       [hist EXCEPT !.opened = @ \cup {run},
                                    !.begun = IF old.runAction THEN @ \cup {run} ELSE @]]
      /\ IF MustTerminate(t)
           THEN simEvent' = [simEvent EXCEPT ![s] = 0] /\ tracks' = [tracks EXCEPT ![s] = 0]
           ELSE UNCHANGED <<simEvent, tracks>>
      /\ To(t, "generate")
      /\ UNCHANGED <<hasWatchers, built, phase, run, nextEvent, endedStreams>>

SameRun(s, t) ==
  /\ At(s, t, "run")
  /\ ~RunChanged(t)
  /\ To(t, "generate")
  /\ UNCHANGED <<hasWatchers, built, phase, run, nextEvent, endedStreams, tls, simEvent, tracks, history>>

\* Variant with a fault: m_tls->runInterface keeps the worker it knew.
FirstWorkerKept(s, t) == IF tls[t].worker = None THEN s ELSE tls[t].worker

WorkerOfThread(s, t) == s

\* setRunManagerMTWorker, generateEvent and a new G4SimEvent; an event without
\* primary vertices is refused with an exception.
GenerateEvent(s, t) ==
  /\ At(s, t, "generate")
  /\ tls' = [tls EXCEPT ![t].worker = WorkerOfThread(s, t), ![t].event = task[t].event]
  /\ simEvent' = [simEvent EXCEPT ![s] = task[t].event]
  /\ tracks' = [tracks EXCEPT ![s] = 0]
  /\ To(t, "simulate") \/ Throw(t)
  /\ UNCHANGED <<hasWatchers, built, phase, run, nextEvent, endedStreams, history>>

\* ProcessOneEvent: EndOfEventAction stores the tracks in the simEvent() of the
\* worker the thread's run interface knows.  Geant4 may throw (SimG4Exception).
Simulate(s, t) ==
  /\ At(s, t, "simulate")
  /\ \/ /\ tracks' = [tracks EXCEPT ![tls[t].worker] = tls[t].event]
        /\ To(t, "put")
     \/ tracks' = tracks /\ Throw(t)
  /\ UNCHANGED <<hasWatchers, built, phase, run, nextEvent, endedStreams, tls, simEvent, history>>

\* The producer loads m_simEvent of its worker into the event.
PutProducts(s, t) ==
  /\ At(s, t, "put")
  /\ LeaveProduce(t)
  /\ UNCHANGED <<framework, tls, simEvent, tracks, history>>

-------------------------------------------------------------------------------
(* abortRun: a stop file turns up and a user action of the thread's first run  *)
(* looks for it.  The run is deleted, terminateRun follows from inside the     *)
(* action, and EndOfRunAction reads the deleted run through a null pointer.    *)

LooksForStopFile(s, t) ==
  \/ At(s, t, "simulate")
  \/ At(s, t, "run") /\ RunChanged(t)
  \/ phase = "ending" /\ s \notin endedStreams /\ Idle(t)
  \/ phase = "over" /\ s \in built /\ t = MainThread

StopFileFound(s, t) ==
  /\ Terminable(t) /\ tls[t].runAction
  /\ LooksForStopFile(s, t)
  /\ phase' = "crashed"
  /\ UNCHANGED <<hasWatchers, built, stopping, run, nextEvent, endedStreams, task, tls, engine,
                 simEvent, tracks, history>>

Finished == \/ phase = "over" /\ built = {} /\ UNCHANGED vars
            \/ phase = "crashed" /\ UNCHANGED vars

Next == \/ \E s \in Streams : Construct(s) \/ Destroy(s)
        \/ \E s \in Streams, t \in Threads :
             \/ StartEvent(s, t) \/ InitializeThread(s, t) \/ ChangeRun(s, t) \/ SameRun(s, t)
             \/ GenerateEvent(s, t) \/ Simulate(s, t) \/ PutProducts(s, t)
             \/ StreamEndRun(s, t)
             \/ StopFileFound(s, t)
        \/ OpenRun \/ EndOfEvents \/ CloseRun
        \/ Finished

Spec == Init /\ [][Next]_vars

-------------------------------------------------------------------------------
(* Properties.                                                                 *)

TLSType == [exists : BOOLEAN, initialized : BOOLEAN, runAction : BOOLEAN,
            currentRunNumber : Runs, runTerminated : BOOLEAN, worker : Streams \cup {None},
            event : Events, watchers : BOOLEAN]

Stages == {"none", "init", "run", "generate", "simulate", "put"}

\* The products a stream puts into an event are those of that event, whichever
\* thread simulated it and whatever the other streams do meanwhile: the tracks
\* reach m_simEvent of the worker that waits for them (per-thread run interface
\* against per-stream m_simEvent).
EventGetsItsOwnTracks ==
  \A t \in Threads : task[t].stage = "put" =>
    /\ simEvent[task[t].stream] = task[t].event
    /\ tracks[task[t].stream] = task[t].event

\* Geant4 draws from the engine of the stream while it works for it and from
\* no stream's engine otherwise, also after an exception ("the one we use for
\* OscarMTProducer is unique to OscarMTProducer").
EngineOfTheStream == \A t \in Threads : engine[t] = task[t].stream

\* A thread simulates events in the run it has been initialised for, its
\* RunAction ends only what it began, and of the runs the thread was in before
\* every one that had begun has ended; except on a thread that ended a stream's
\* run before it ever simulated, whose runTerminated is set in advance
\* (initializeRun, terminateRun).
RunSignalsPaired ==
  \A t \in Threads :
    /\ task[t].stage \in {"generate", "simulate", "put"} => tls[t].currentRunNumber = run
    /\ history[t].ended \subseteq history[t].begun
    /\ 0 \notin history[t].closed =>
         history[t].begun \ history[t].ended \subseteq {tls[t].currentRunNumber}

===============================================================================
