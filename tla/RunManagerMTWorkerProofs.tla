----------------------- MODULE RunManagerMTWorkerProofs ------------------------
(* Proofs about RunManagerMTWorker, for any number of threads, streams, runs   *)
(* and events: what is kept per thread (m_tls, Geant4's engine) and what is    *)
(* kept per stream (m_simEvent) belong together while an event is simulated.   *)
EXTENDS RunManagerMTWorker, TLAPS

\* One conjunct per variable, for the proofs of type correctness.
TaskType    == task \in [Threads -> [stage : Stages, stream : Streams \cup {None}, event : Events]]
SimType     == simEvent \in [Streams -> Events] /\ tracks \in [Streams -> Events]
HistoryType == history \in [Threads -> [opened : SUBSET Runs, closed : SUBSET Runs,
                                        begun : SUBSET Runs, ended : SUBSET Runs]]
FrameType   == /\ hasWatchers \in BOOLEAN /\ stopping \in BOOLEAN
               /\ built \subseteq Streams /\ endedStreams \subseteq Streams
               /\ phase \in {"between", "events", "ending", "over", "crashed"}
               /\ run \in Runs /\ nextEvent \in 1 .. MaxEvents + 1
               /\ phase = "events" => run # 0
ThreadType  == tls \in [Threads -> TLSType] /\ engine \in [Threads -> Streams \cup {None}]
Types       == FrameType /\ TaskType /\ SimType /\ HistoryType /\ ThreadType

\* A thread works in the phase of the events only, for a stream that no other
\* thread works for, with the engine of that stream.
TaskInv ==
  /\ \A t \in Threads : task[t].stage = "none" <=> task[t].stream = None
  /\ phase \in {"between", "ending", "over"} => \A t \in Threads : Idle(t)
  /\ \A t, u \in Threads : t # u /\ task[t].stream = task[u].stream => task[t].stream = None
  /\ EngineOfTheStream

\* While Geant4 works the thread's run interface leads to the stream's worker,
\* whose m_simEvent is the one of the event; afterwards it holds its tracks.
StageInv ==
  \A t \in Threads :
    /\ task[t].stage = "simulate" =>
         /\ tls[t].worker = task[t].stream /\ tls[t].event = task[t].event
         /\ simEvent[task[t].stream] = task[t].event
    /\ task[t].stage = "put" =>
         /\ simEvent[task[t].stream] = task[t].event
         /\ tracks[task[t].stream] = task[t].event

\* What a thread's signals and flags say of the runs it was in.
SignalOf(t) ==
  LET l == tls[t]
      h == history[t]
      stage == task[t].stage
  IN /\ ~l.exists => ~l.initialized /\ stage = "none"
     /\ ~l.initialized => l.currentRunNumber = 0 /\ ~l.runAction
     /\ stage \in {"run", "generate", "simulate", "put"} => l.initialized
     /\ stage \in {"generate", "simulate", "put"} => l.currentRunNumber = run
     /\ l.runAction => l.currentRunNumber \in h.begun \/ (l.currentRunNumber = 0 /\ stage = "run")
     /\ l.currentRunNumber = 0 => h.begun = {}
     /\ h.ended \subseteq h.begun
     /\ 0 \notin h.closed => /\ h.begun \ h.ended \subseteq {l.currentRunNumber}
                             /\ ~l.runAction => h.begun \subseteq h.ended
                             /\ l.runTerminated => ~l.runAction /\ l.initialized

SignalInv == \A t \in Threads : SignalOf(t)

IInv == Types /\ TaskInv /\ StageInv /\ SignalInv

\* The records that the actions build have their types.
LEMMA Records ==
  /\ NoTask \in [stage : Stages, stream : Streams \cup {None}, event : Events]
  /\ NoTLS \in TLSType
  /\ \A w \in BOOLEAN : NewTLS(w) \in TLSType
  /\ NoHistory \in [opened : SUBSET Runs, closed : SUBSET Runs, begun : SUBSET Runs, ended : SUBSET Runs]
<1> USE BoundsAssumption DEF Events, Runs
<1>1. NoTask \in [stage : Stages, stream : Streams \cup {None}, event : Events]
  BY DEF NoTask, Stages
<1>2. NoTLS \in TLSType
  BY DEF NoTLS, TLSType
<1>3. \A w \in BOOLEAN : NewTLS(w) \in TLSType
  BY <1>2 DEF NewTLS, TLSType
<1>4. NoHistory \in [opened : SUBSET Runs, closed : SUBSET Runs, begun : SUBSET Runs, ended : SUBSET Runs]
  BY DEF NoHistory
<1> QED
  BY <1>1, <1>2, <1>3, <1>4

\* The first state satisfies the invariant.
LEMMA InitIInv == Init => IInv
<1> SUFFICES ASSUME Init PROVE IInv
  OBVIOUS
<1> USE BoundsAssumption DEF Init
<1>1. Types
  <2>1. FrameType
    <3>1. run \in Runs /\ nextEvent \in 1 .. MaxEvents + 1
      BY DEF Runs
    <3> QED
      BY <3>1 DEF FrameType
  <2>2. TaskType /\ ThreadType /\ HistoryType
    BY Records DEF TaskType, ThreadType, HistoryType
  <2>3. SimType
    BY DEF SimType, Events
  <2> QED
    BY <2>1, <2>2, <2>3 DEF Types
<1>2. TaskInv
  BY DEF TaskInv, NoTask, Idle, EngineOfTheStream
<1>3. StageInv /\ SignalInv
  BY DEF StageInv, SignalInv, SignalOf, NoTask, NoTLS, NoHistory
<1> QED
  BY <1>1, <1>2, <1>3 DEF IInv

\* The framework's steps change no thread and no worker.
LEMMA FrameworkStep ==
  ASSUME IInv, OpenRun \/ EndOfEvents \/ CloseRun
  PROVE  IInv'
<1>1. /\ UNCHANGED <<task, tls, engine, simEvent, tracks, history>>
      /\ hasWatchers' \in BOOLEAN /\ stopping' \in BOOLEAN
      /\ \A t \in Threads : Idle(t)
  BY DEF OpenRun, EndOfEvents, CloseRun, IInv, Types, FrameType, TaskInv
<1>2. FrameType'
  BY BoundsAssumption DEF OpenRun, EndOfEvents, CloseRun, IInv, Types, FrameType, Runs
<1>3. Types'
  BY <1>1, <1>2 DEF IInv, Types, TaskType, SimType, HistoryType, ThreadType
<1>4. TaskInv' /\ StageInv' /\ SignalInv'
  BY <1>1 DEF IInv, TaskInv, StageInv, SignalInv, SignalOf, Idle, EngineOfTheStream
<1> QED
  BY <1>3, <1>4 DEF IInv

\* What terminateRun leaves of a thread and its history, by component.
LEMMA TerminatedParts ==
  ASSUME Types, NEW t \in Threads
  PROVE  /\ Terminated(t) \in TLSType
         /\ Terminated(t).exists = tls[t].exists
         /\ Terminated(t).initialized = tls[t].initialized /\ ~Terminated(t).runAction
         /\ Terminated(t).currentRunNumber = tls[t].currentRunNumber
         /\ Terminated(t).runTerminated /\ Terminated(t).watchers = tls[t].watchers
         /\ TerminatedHistory(t) \in [opened : SUBSET Runs, closed : SUBSET Runs, begun : SUBSET Runs, ended : SUBSET Runs]
         /\ TerminatedHistory(t).begun = history[t].begun
         /\ TerminatedHistory(t).closed = history[t].closed \cup {tls[t].currentRunNumber}
         /\ TerminatedHistory(t).ended = IF tls[t].runAction THEN history[t].ended \cup {tls[t].currentRunNumber}
                                         ELSE history[t].ended
<1>1. tls[t] \in TLSType /\ history[t] \in [opened : SUBSET Runs, closed : SUBSET Runs, begun : SUBSET Runs, ended : SUBSET Runs]
  BY DEF Types, ThreadType, HistoryType
<1>2. /\ Terminated(t) \in TLSType
      /\ Terminated(t).exists = tls[t].exists
      /\ Terminated(t).initialized = tls[t].initialized /\ Terminated(t).runAction = FALSE
      /\ Terminated(t).currentRunNumber = tls[t].currentRunNumber
      /\ Terminated(t).runTerminated = TRUE /\ Terminated(t).watchers = tls[t].watchers
  <2>1. 0 \in Events
    BY BoundsAssumption DEF Events
  <2> QED
    BY <1>1, <2>1 DEF Terminated, TLSType
<1>3. CASE tls[t].runAction
  <2>1. TerminatedHistory(t) = [history[t] EXCEPT !.closed = @ \cup {tls[t].currentRunNumber},
                                                  !.ended = @ \cup {tls[t].currentRunNumber}]
    BY <1>3 DEF TerminatedHistory
  <2>2. tls[t].currentRunNumber \in Runs
    BY <1>1 DEF TLSType
  <2>3. /\ TerminatedHistory(t).begun = history[t].begun
        /\ TerminatedHistory(t).closed = history[t].closed \cup {tls[t].currentRunNumber}
        /\ TerminatedHistory(t).ended = history[t].ended \cup {tls[t].currentRunNumber}
        /\ TerminatedHistory(t).opened = history[t].opened
    BY <1>1, <2>1
  <2>4. TerminatedHistory(t) \in [opened : SUBSET Runs, closed : SUBSET Runs, begun : SUBSET Runs, ended : SUBSET Runs]
    BY <1>1, <2>1, <2>2, ZenonT(30)
  <2> QED
    BY <1>2, <1>3, <2>3, <2>4
<1>4. CASE ~tls[t].runAction
  <2>1. TerminatedHistory(t) = [history[t] EXCEPT !.closed = @ \cup {tls[t].currentRunNumber}, !.ended = @]
    BY <1>4 DEF TerminatedHistory
  <2>2. tls[t].currentRunNumber \in Runs
    BY <1>1 DEF TLSType
  <2> QED
    BY <1>1, <1>2, <1>4, <2>1, <2>2, ZenonT(30)
<1> QED
  BY <1>2, <1>3, <1>4

\* terminateRun while no thread is at work: from endRun of a stream and from
\* the destructors.
LEMMA TerminateStep ==
  ASSUME IInv, NEW s \in Streams, NEW t \in Threads, TerminateRun(s, t),
         \A u \in Threads : Idle(u),
         FrameType', UNCHANGED <<task, engine>>, phase' = phase
  PROVE  IInv'
<1> USE DEF IInv
<1>1. CASE ~Terminable(t)
  <2>1. UNCHANGED <<tls, history, simEvent, tracks>>
    BY <1>1 DEF TerminateRun
  <2>2. Types'
    BY <2>1 DEF Types, TaskType, SimType, HistoryType, ThreadType
  <2>3. TaskInv' /\ StageInv' /\ SignalInv'
    BY <2>1 DEF TaskInv, StageInv, SignalInv, SignalOf, Idle, EngineOfTheStream
  <2> QED
    BY <2>2, <2>3
<1>2. CASE Terminable(t)
  <2>1. /\ tls' = [tls EXCEPT ![t] = Terminated(t)]
        /\ history' = [history EXCEPT ![t] = TerminatedHistory(t)]
        /\ simEvent' = [simEvent EXCEPT ![s] = 0] /\ tracks' = [tracks EXCEPT ![s] = 0]
    BY <1>2 DEF TerminateRun
  <2>2. Types'
    <3>1. SimType'
      BY <2>1, BoundsAssumption DEF Types, SimType, Events
    <3>2. ThreadType' /\ HistoryType' /\ TaskType'
      BY <2>1, TerminatedParts DEF Types, ThreadType, HistoryType, TaskType
    <3> QED
      BY <3>1, <3>2 DEF Types
  <2>3. TaskInv' /\ StageInv'
    BY DEF TaskInv, StageInv, Idle, EngineOfTheStream
  <2>4. SignalInv'
    <3>1. tls'[t] = Terminated(t) /\ history'[t] = TerminatedHistory(t)
      BY <2>1 DEF Types, ThreadType, HistoryType
    <3>2. \A u \in Threads \ {t} : tls'[u] = tls[u] /\ history'[u] = history[u]
      BY <2>1 DEF Types, ThreadType, HistoryType
    <3>3. \A u \in Threads : task[u].stage = "none" /\ task'[u].stage = "none"
      BY DEF Idle
    <3>4. tls'[t].exists = tls[t].exists /\ tls'[t].initialized = tls[t].initialized /\ ~tls'[t].runAction /\ tls'[t].runTerminated
          /\ tls'[t].currentRunNumber = tls[t].currentRunNumber
      BY <3>1, TerminatedParts
    <3>5. history'[t].begun = history[t].begun /\ history'[t].closed = history[t].closed \cup {tls[t].currentRunNumber}
          /\ history'[t].ended = IF tls[t].runAction THEN history[t].ended \cup {tls[t].currentRunNumber} ELSE history[t].ended
      BY <3>1, TerminatedParts
    <3>6. SignalOf(t)'
      BY <3>3, <3>4, <3>5 DEF SignalInv, SignalOf
    <3>7. \A u \in Threads \ {t} : SignalOf(u)'
      BY <3>2, <3>3 DEF SignalInv, SignalOf
    <3> QED
      BY <3>6, <3>7 DEF SignalInv
  <2> QED
    BY <2>2, <2>3, <2>4
<1> QED
  BY <1>1, <1>2

\* A thread changes only its own task and engine.
LEMMA TaskStep ==
  ASSUME IInv, NEW t \in Threads, phase' = "events",
         \A u \in Threads \ {t} : task'[u] = task[u] /\ engine'[u] = engine[u],
         task'[t].stage = "none" <=> task'[t].stream = None,
         engine'[t] = task'[t].stream,
         task'[t].stream = None \/ \A u \in Threads \ {t} : task[u].stream # task'[t].stream
  PROVE  TaskInv'
  BY DEF IInv, TaskInv, EngineOfTheStream, Idle

\* The stages of produce, by what they leave in task and engine.
LEMMA Moves ==
  ASSUME IInv, NEW s \in Streams, NEW t \in Threads, NEW from \in Stages, At(s, t, from), from # "none",
         FrameType, phase' = phase,
         \/ \E to \in Stages \ {"none"} : To(t, to)
         \/ Throw(t)
         \/ LeaveProduce(t)
  PROVE  /\ TaskType' /\ TaskInv'
         /\ engine' \in [Threads -> Streams \cup {None}]
         /\ \A u \in Threads \ {t} : task'[u] = task[u]
         /\ \/ task'[t].stage = "none"
            \/ /\ task'[t].stream = s /\ task'[t].event = task[t].event
               /\ \A to \in Stages : To(t, to) => task'[t].stage = to
<1> USE DEF IInv
<1>1. /\ task[t].stream = s /\ task[t].stage = from /\ engine[t] = s /\ phase' = "events"
      /\ \A u \in Threads \ {t} : task[u].stream # s
  BY NoneAssumption DEF At, TaskInv, EngineOfTheStream
<1>2. CASE \E to \in Stages \ {"none"} : To(t, to)
  <2>1. PICK to \in Stages \ {"none"} : task' = [task EXCEPT ![t].stage = to] /\ engine' = engine
    BY <1>2 DEF To
  <2>2. /\ task'[t] = [task[t] EXCEPT !.stage = to]
        /\ \A u \in Threads \ {t} : task'[u] = task[u]
    BY <2>1 DEF Types, TaskType
  <2>3. TaskType'
    BY <2>1 DEF Types, TaskType
  <2>4. task'[t].stage = to /\ task'[t].stream = s /\ task'[t].event = task[t].event
    BY <1>1, <2>2 DEF Types, TaskType
  <2>5. TaskInv'
    BY <1>1, <2>1, <2>2, <2>4, TaskStep, NoneAssumption
  <2>6. \A other \in Stages : To(t, other) => task'[t].stage = other
    BY <2>2 DEF To, Types, TaskType
  <2> QED
    BY <2>1, <2>2, <2>3, <2>4, <2>5, <2>6 DEF Types, ThreadType
<1>3. CASE Throw(t) \/ LeaveProduce(t)
  <2>1. task' = [task EXCEPT ![t] = NoTask] /\ engine' = [engine EXCEPT ![t] = None]
    BY <1>3 DEF Throw, LeaveProduce, EngineRestored
  <2>2. TaskType' /\ engine' \in [Threads -> Streams \cup {None}]
    BY <2>1, Records DEF Types, TaskType, ThreadType
  <2>3. task'[t] = NoTask /\ engine'[t] = None
        /\ \A u \in Threads \ {t} : task'[u] = task[u] /\ engine'[u] = engine[u]
    BY <2>1 DEF Types, TaskType, ThreadType
  <2>4. TaskInv'
    BY <1>1, <2>3, TaskStep DEF NoTask
  <2> QED
    BY <2>2, <2>3, <2>4 DEF NoTask
<1> QED
  BY <1>2, <1>3

\* The signals of the threads that an action leaves alone.
LEMMA OthersSignal ==
  ASSUME IInv, NEW t \in Threads, run' = run,
         \A u \in Threads \ {t} : task'[u] = task[u] /\ tls'[u] = tls[u] /\ history'[u] = history[u],
         SignalOf(t)'
  PROVE  SignalInv'
  BY DEF IInv, SignalInv, SignalOf

\* The constructor of a worker creates the main thread's m_tls.
LEMMA ConstructStep ==
  ASSUME IInv, NEW s \in Streams, Construct(s)
  PROVE  IInv'
<1> USE MainThreadAssumption DEF IInv, Construct, NewWorker
<1>1. FrameType'
  BY DEF Types, FrameType
<1>2. UNCHANGED <<task, engine, simEvent, tracks, history, run, phase>>
  OBVIOUS
<1>3. CASE tls' = tls
  <2>1. Types'
    BY <1>1, <1>2, <1>3 DEF Types, TaskType, SimType, HistoryType, ThreadType
  <2>2. TaskInv' /\ StageInv' /\ SignalInv'
    BY <1>2, <1>3 DEF TaskInv, StageInv, SignalInv, SignalOf, Idle, EngineOfTheStream
  <2> QED
    BY <2>1, <2>2
<1>4. CASE tls' # tls
  <2>1. PICK w \in BOOLEAN : tls' = [tls EXCEPT ![MainThread] = NewTLS(w)] /\ ~tls[MainThread].exists
    BY <1>4 DEF Types, FrameType
  <2>2. Types'
    BY <1>1, <1>2, <2>1, Records DEF Types, TaskType, SimType, HistoryType, ThreadType
  <2>3. tls'[MainThread] = NewTLS(w) /\ \A u \in Threads \ {MainThread} : tls'[u] = tls[u]
    BY <2>1 DEF Types, ThreadType
  <2>4. TaskInv' /\ StageInv'
    BY <1>2, <2>3 DEF TaskInv, StageInv, Idle, EngineOfTheStream
  <2>5. task[MainThread].stage = "none"
    BY DEF TaskInv, Idle
  <2>6. NewTLS(w).exists /\ ~NewTLS(w).initialized /\ NewTLS(w).currentRunNumber = 0 /\ ~NewTLS(w).runAction /\ ~NewTLS(w).runTerminated
    BY DEF NewTLS, NoTLS
  <2>7. SignalOf(MainThread)'
    BY <1>2, <2>1, <2>3, <2>5, <2>6 DEF SignalInv, SignalOf
  <2>8. SignalInv'
    BY <1>2, <2>3, <2>7, OthersSignal
  <2> QED
    BY <2>2, <2>4, <2>8
<1> QED
  BY <1>3, <1>4
\* A stream starts an event on an idle thread.
LEMMA StartEventStep ==
  ASSUME IInv, NEW s \in Streams, NEW t \in Threads, StartEvent(s, t)
  PROVE  IInv'
<1> USE NoneAssumption DEF IInv, StartEvent
<1>1. FrameType'
  <2>1. nextEvent' \in 1 .. MaxEvents + 1
    BY BoundsAssumption DEF Types, FrameType
  <2>2. stopping' \in BOOLEAN
    BY DEF Types, FrameType
  <2> QED
    BY <2>1, <2>2 DEF Types, FrameType
<1>2. /\ UNCHANGED <<simEvent, tracks, history, run>> /\ phase' = "events" /\ phase = "events"
      /\ task[t].stage = "none" /\ \A u \in Threads : task[u].stream # s
  BY DEF Idle, Busy
<1>3. /\ tls' \in [Threads -> TLSType] /\ \A u \in Threads \ {t} : tls'[u] = tls[u]
      /\ tls'[t].exists /\ \/ tls'[t] = tls[t]
                           \/ \E w \in BOOLEAN : tls'[t] = NewTLS(w) /\ ~tls[t].exists
  <2>1. CASE tls[t].exists
    BY <2>1 DEF Types, ThreadType
  <2>2. CASE ~tls[t].exists
    <3>1. PICK w \in BOOLEAN : tls' = [tls EXCEPT ![t] = NewTLS(w)]
      BY <2>2 DEF Types, FrameType
    <3>2. NewTLS(w) \in TLSType /\ NewTLS(w).exists
      BY Records DEF NewTLS, NoTLS
    <3>3. tls'[t] = NewTLS(w) /\ tls' \in [Threads -> TLSType] /\ \A u \in Threads \ {t} : tls'[u] = tls[u]
      BY <3>1, <3>2 DEF Types, ThreadType
    <3> QED
      BY <2>2, <3>2, <3>3
  <2> QED
    BY <2>1, <2>2
<1>4. CASE UNCHANGED <<task, engine>>
  <2>1. Types'
    BY <1>1, <1>2, <1>3, <1>4 DEF Types, TaskType, SimType, HistoryType, ThreadType
  <2>2. TaskInv' /\ StageInv'
    BY <1>2, <1>3, <1>4 DEF TaskInv, StageInv, EngineOfTheStream
  <2>3. SignalOf(t)'
    BY <1>2, <1>3, <1>4 DEF SignalInv, SignalOf, NewTLS, NoTLS
  <2> QED
    BY <1>2, <1>3, <1>4, <2>1, <2>2, <2>3, OthersSignal
<1>5. CASE /\ task' = [task EXCEPT ![t] = [stage |-> "init", stream |-> s, event |-> nextEvent]]
           /\ engine' = [engine EXCEPT ![t] = s]
  <2>1. nextEvent \in Events
    BY BoundsAssumption DEF Types, FrameType, Events
  <2>2. TaskType' /\ engine' \in [Threads -> Streams \cup {None}]
    BY <1>5, <2>1 DEF Types, TaskType, ThreadType, Stages
  <2>3. Types'
    BY <1>1, <1>2, <1>3, <2>2 DEF Types, SimType, HistoryType, ThreadType
  <2>4. /\ task'[t].stage = "init" /\ task'[t].stream = s /\ engine'[t] = s
        /\ \A u \in Threads \ {t} : task'[u] = task[u] /\ engine'[u] = engine[u]
    BY <1>5 DEF Types, TaskType, ThreadType
  <2>5. TaskInv'
    BY <1>2, <2>4, TaskStep
  <2>6. StageInv'
    BY <1>2, <1>3, <2>4 DEF StageInv
  <2>7. SignalOf(t)'
    BY <1>2, <1>3, <2>4 DEF SignalInv, SignalOf, NewTLS, NoTLS
  <2> QED
    BY <1>2, <1>3, <2>3, <2>4, <2>5, <2>6, <2>7, OthersSignal
<1> QED
  BY <1>4, <1>5

\* A thread is initialised: Geant4's kernel and a RunAction of its own.
LEMMA InitializeThreadStep ==
  ASSUME IInv, NEW s \in Streams, NEW t \in Threads, InitializeThread(s, t)
  PROVE  IInv'
<1> USE DEF IInv, InitializeThread
<1>1. FrameType' /\ FrameType
  BY DEF Types, FrameType, To, Throw
<1>2. /\ UNCHANGED <<simEvent, tracks, history, run, phase>> /\ "init" \in Stages /\ "run" \in Stages
      /\ task[t].stage = "init" /\ task[t].stream = s
  BY DEF At, Stages
<1>3. /\ TaskType' /\ TaskInv' /\ engine' \in [Threads -> Streams \cup {None}]
      /\ \A u \in Threads \ {t} : task'[u] = task[u]
      /\ task'[t].stage \in {"none", "run"}
      /\ task'[t].stage = "run" => To(t, "run")
  <2>1. To(t, "run") \/ Throw(t)
    OBVIOUS
  <2>2. /\ \/ \E to \in Stages \ {"none"} : To(t, to)
           \/ Throw(t) \/ LeaveProduce(t)
        /\ At(s, t, "init") /\ phase' = phase
    BY <1>2, <2>1
  <2>3. /\ TaskType' /\ TaskInv' /\ engine' \in [Threads -> Streams \cup {None}]
        /\ \A u \in Threads \ {t} : task'[u] = task[u]
    BY <1>1, <1>2, <2>2, Moves
  <2>4. CASE To(t, "run")
    <3>1. task'[t].stage = "run"
      BY <2>4 DEF To, Types, TaskType
    <3> QED
      BY <2>3, <2>4, <3>1
  <2>5. CASE Throw(t)
    <3>1. task'[t].stage = "none"
      BY <2>5 DEF Throw, NoTask, Types, TaskType
    <3> QED
      BY <2>3, <3>1
  <2> QED
    BY <2>1, <2>4, <2>5
<1>4. /\ tls' \in [Threads -> TLSType] /\ \A u \in Threads \ {t} : tls'[u] = tls[u]
      /\ \/ tls'[t] = tls[t] /\ (tls[t].initialized \/ task'[t].stage = "none")
         \/ /\ tls'[t] = [tls[t] EXCEPT !.initialized = TRUE, !.runAction = TRUE]
            /\ ~tls[t].initialized /\ tls'[t].initialized /\ To(t, "run")
  <2>1. CASE tls' = [tls EXCEPT ![t].initialized = TRUE, ![t].runAction = TRUE] /\ ~tls[t].initialized /\ To(t, "run")
    <3>1. tls[t] \in TLSType /\ tls' = [tls EXCEPT ![t] = [tls[t] EXCEPT !.initialized = TRUE, !.runAction = TRUE]]
      BY <2>1 DEF Types, ThreadType
    <3>2. [tls[t] EXCEPT !.initialized = TRUE, !.runAction = TRUE] \in TLSType
      BY <3>1 DEF TLSType
    <3>3. tls'[t] = [tls[t] EXCEPT !.initialized = TRUE, !.runAction = TRUE]
          /\ tls' \in [Threads -> TLSType] /\ \A u \in Threads \ {t} : tls'[u] = tls[u]
      BY <3>1, <3>2 DEF Types, ThreadType
    <3>4. tls'[t].initialized
      BY <3>1, <3>3 DEF TLSType
    <3> QED
      BY <2>1, <3>3, <3>4
  <2>2. CASE tls[t].initialized /\ tls' = tls /\ To(t, "run")
    BY <2>2 DEF Types, ThreadType
  <2>3. CASE ~tls[t].initialized /\ tls' = tls /\ Throw(t)
    <3>1. task'[t].stage = "none"
      BY <2>3 DEF Throw, NoTask, Types, TaskType
    <3> QED
      BY <2>3, <3>1 DEF Types, ThreadType
  <2> QED
    BY <2>1, <2>2, <2>3
<1>5. Types'
  BY <1>1, <1>2, <1>3, <1>4 DEF Types, SimType, HistoryType, ThreadType
<1>6. StageInv'
  BY <1>2, <1>3, <1>4 DEF StageInv
<1>7. SignalOf(t)'
  <2>1. CASE tls'[t] = tls[t]
    <3>1. history'[t] = history[t] /\ run' = run /\ SignalOf(t)
      BY <1>2 DEF SignalInv
    <3>2. tls[t].initialized \/ task'[t].stage = "none"
      BY <1>4, <2>1
    <3> QED
      BY <1>2, <1>3, <2>1, <3>1, <3>2 DEF SignalOf
  <2>2. CASE tls'[t] = [tls[t] EXCEPT !.initialized = TRUE, !.runAction = TRUE] /\ ~tls[t].initialized /\ To(t, "run")
    <3>1. task'[t].stage = "run"
      BY <2>2 DEF To, Types, TaskType
    <3>2. /\ tls'[t].initialized /\ tls'[t].exists = tls[t].exists /\ tls'[t].runTerminated = tls[t].runTerminated
          /\ tls'[t].currentRunNumber = tls[t].currentRunNumber
      BY <2>2 DEF Types, ThreadType, TLSType
    <3> QED
      BY <1>2, <2>2, <3>1, <3>2 DEF SignalInv, SignalOf
  <2> QED
    BY <1>4, <2>1, <2>2
<1> QED
  BY <1>2, <1>3, <1>4, <1>5, <1>6, <1>7, OthersSignal
\* A thread whose run differs from the event's: terminateRun if nobody called
\* it, and initializeRun.
LEMMA ChangeRunStep ==
  ASSUME IInv, NEW s \in Streams, NEW t \in Threads, ChangeRun(s, t)
  PROVE  IInv'
<1> USE DEF IInv
<1>1. /\ FrameType /\ FrameType' /\ UNCHANGED <<run, phase>> /\ At(s, t, "run") /\ To(t, "generate")
      /\ {"run", "generate"} \subseteq Stages \ {"none"}
  BY DEF ChangeRun, Types, FrameType, To, Stages
<1>2. /\ TaskType' /\ TaskInv' /\ engine' \in [Threads -> Streams \cup {None}]
      /\ \A u \in Threads \ {t} : task'[u] = task[u]
  BY <1>1, Moves
<1>3. task'[t].stage = "generate" /\ task[t].stage = "run" /\ task[t].stream = s /\ run \in Runs /\ run # 0
  BY <1>1 DEF To, At, Types, TaskType, FrameType
<1>4. \A u \in Threads \ {t} : task[u].stream # s
  BY <1>1, <1>3, NoneAssumption DEF TaskInv
<1> DEFINE old  == IF MustTerminate(t) THEN Terminated(t) ELSE tls[t]
<1> DEFINE hist == IF MustTerminate(t) THEN TerminatedHistory(t) ELSE history[t]
<1> DEFINE new  == [hist EXCEPT !.opened = @ \cup {run},
                               !.begun = IF old.runAction THEN @ \cup {run} ELSE @]
<1>5. /\ tls' = [tls EXCEPT ![t] = [old EXCEPT !.currentRunNumber = run]]
      /\ history' = [history EXCEPT ![t] = new]
  BY DEF ChangeRun
<1>6. /\ old \in TLSType /\ old.exists = tls[t].exists /\ old.initialized = tls[t].initialized
      /\ hist \in [opened : SUBSET Runs, closed : SUBSET Runs, begun : SUBSET Runs, ended : SUBSET Runs]
  BY TerminatedParts DEF Types, ThreadType, HistoryType
<1> HIDE DEF old, hist
<1>7. /\ tls' \in [Threads -> TLSType] /\ \A u \in Threads \ {t} : tls'[u] = tls[u]
      /\ tls'[t].exists = old.exists /\ tls'[t].initialized = old.initialized
      /\ tls'[t].runAction = old.runAction /\ tls'[t].runTerminated = old.runTerminated
      /\ tls'[t].currentRunNumber = run
  BY <1>3, <1>5, <1>6 DEF Types, ThreadType, TLSType
<1>8. /\ new \in [opened : SUBSET Runs, closed : SUBSET Runs, begun : SUBSET Runs, ended : SUBSET Runs]
      /\ new.ended = hist.ended /\ new.closed = hist.closed
      /\ new.begun = IF old.runAction THEN hist.begun \cup {run} ELSE hist.begun
  <2>1. CASE old.runAction
    <3>1. new = [hist EXCEPT !.opened = @ \cup {run}, !.begun = @ \cup {run}]
      BY <2>1
    <3> HIDE DEF new
    <3> QED
      BY <1>3, <1>6, <2>1, <3>1
  <2>2. CASE ~old.runAction
    <3>1. new = [hist EXCEPT !.opened = @ \cup {run}, !.begun = @]
      BY <2>2
    <3> HIDE DEF new
    <3> QED
      BY <1>3, <1>6, <2>2, <3>1
  <2> QED
    BY <2>1, <2>2
<1> HIDE DEF new
<1>9. history' \in [Threads -> [opened : SUBSET Runs, closed : SUBSET Runs, begun : SUBSET Runs, ended : SUBSET Runs]]
      /\ history'[t] = new /\ \A u \in Threads \ {t} : history'[u] = history[u]
  BY <1>5, <1>8 DEF Types, HistoryType
<1>10. /\ SimType'
       /\ \A x \in Streams \ {s} : simEvent'[x] = simEvent[x] /\ tracks'[x] = tracks[x]
  BY BoundsAssumption DEF ChangeRun, Types, SimType, Events
<1>11. Types'
  BY <1>1, <1>2, <1>7, <1>9, <1>10 DEF Types, HistoryType, ThreadType
<1>12. StageInv'
  <2>1. \A u \in Threads \ {t} : task[u].stage \in {"simulate", "put"} => task[u].stream \in Streams \ {s}
    BY <1>4 DEF Types, TaskType, TaskInv
  <2> QED
    BY <1>2, <1>3, <1>7, <1>10, <2>1 DEF StageInv
<1>13. SignalOf(t)'
  <2> USE <1>1, <1>3, <1>6, <1>7, <1>8, <1>9
  <2>1. SignalOf(t)
    BY DEF SignalInv
  <2>2. CASE MustTerminate(t)
    <3>1. /\ ~old.runAction /\ hist.begun = history[t].begun
          /\ hist.closed = history[t].closed \cup {tls[t].currentRunNumber}
          /\ hist.ended = IF tls[t].runAction THEN history[t].ended \cup {tls[t].currentRunNumber} ELSE history[t].ended
          /\ tls[t].currentRunNumber # 0
      BY <2>2, TerminatedParts DEF old, hist, MustTerminate
    <3> QED
      BY <2>1, <3>1 DEF SignalOf
  <2>3. CASE ~MustTerminate(t)
    <3>1. old = tls[t] /\ hist = history[t] /\ (tls[t].currentRunNumber = 0 \/ tls[t].runTerminated)
      BY <2>3 DEF old, hist, MustTerminate
    <3> QED
      BY <2>1, <3>1 DEF SignalOf
  <2> QED
    BY <2>2, <2>3
<1> QED
  BY <1>1, <1>2, <1>7, <1>9, <1>11, <1>12, <1>13, OthersSignal
\* The event's run is the thread's.
LEMMA SameRunStep ==
  ASSUME IInv, NEW s \in Streams, NEW t \in Threads, SameRun(s, t)
  PROVE  IInv'
<1> USE DEF IInv, SameRun
<1>1. /\ FrameType /\ FrameType' /\ {"run", "generate"} \subseteq Stages \ {"none"}
      /\ UNCHANGED <<tls, simEvent, tracks, history, run, phase>>
  BY DEF Types, FrameType, To, Stages
<1>2. /\ TaskType' /\ TaskInv' /\ engine' \in [Threads -> Streams \cup {None}]
      /\ \A u \in Threads \ {t} : task'[u] = task[u]
  BY <1>1, Moves
<1>3. task'[t].stage = "generate" /\ task[t].stage = "run" /\ tls[t].currentRunNumber = run
  BY DEF To, At, Types, TaskType, RunChanged
<1>4. Types'
  BY <1>1, <1>2 DEF Types, SimType, HistoryType, ThreadType
<1>5. StageInv'
  BY <1>1, <1>2, <1>3 DEF StageInv
<1>6. SignalOf(t)'
  <2>1. run # 0
    BY DEF At, Types, FrameType
  <2> QED
    BY <1>1, <1>3, <2>1 DEF SignalInv, SignalOf
<1> QED
  BY <1>1, <1>2, <1>4, <1>5, <1>6, OthersSignal

\* The run interface of the thread leads to the stream's worker, which gets a
\* new m_simEvent.
LEMMA GenerateEventStep ==
  ASSUME IInv, NEW s \in Streams, NEW t \in Threads, GenerateEvent(s, t)
  PROVE  IInv'
<1> USE DEF IInv, GenerateEvent
<1>1. /\ FrameType /\ FrameType' /\ {"generate", "simulate"} \subseteq Stages \ {"none"}
      /\ UNCHANGED <<history, run, phase>>
  BY DEF Types, FrameType, To, Throw, Stages
<1>2. /\ TaskType' /\ TaskInv' /\ engine' \in [Threads -> Streams \cup {None}]
      /\ \A u \in Threads \ {t} : task'[u] = task[u]
      /\ \/ task'[t].stage = "none"
         \/ task'[t].stage = "simulate" /\ task'[t].stream = s /\ task'[t].event = task[t].event
  <2>1. CASE To(t, "simulate")
    BY <1>1, <2>1, Moves
  <2>2. CASE Throw(t)
    <3>1. task'[t].stage = "none"
      BY <2>2 DEF Throw, NoTask, Types, TaskType
    <3> QED
      BY <1>1, <2>2, <3>1, Moves
  <2> QED
    BY <2>1, <2>2
<1>3. task[t].stage = "generate" /\ task[t].stream = s /\ task[t].event \in Events
  BY DEF At, Types, TaskType
<1>4. /\ tls' \in [Threads -> TLSType] /\ \A u \in Threads \ {t} : tls'[u] = tls[u]
      /\ tls'[t] = [tls[t] EXCEPT !.worker = s, !.event = task[t].event]
  <2>1. tls' = [tls EXCEPT ![t] = [tls[t] EXCEPT !.worker = s, !.event = task[t].event]] /\ tls[t] \in TLSType
    BY DEF WorkerOfThread, Types, ThreadType
  <2>2. [tls[t] EXCEPT !.worker = s, !.event = task[t].event] \in TLSType
    BY <1>3, <2>1 DEF TLSType
  <2> QED
    BY <2>1, <2>2 DEF Types, ThreadType
<1>5. /\ tls'[t].worker = s /\ tls'[t].event = task[t].event /\ tls'[t].exists = tls[t].exists
      /\ tls'[t].initialized = tls[t].initialized /\ tls'[t].runAction = tls[t].runAction
      /\ tls'[t].runTerminated = tls[t].runTerminated /\ tls'[t].currentRunNumber = tls[t].currentRunNumber
  BY <1>4, ZenonT(30) DEF Types, ThreadType, TLSType
<1>6. /\ SimType' /\ simEvent'[s] = task[t].event
      /\ \A x \in Streams \ {s} : simEvent'[x] = simEvent[x] /\ tracks'[x] = tracks[x]
  BY <1>3, BoundsAssumption DEF Types, SimType, Events
<1>7. Types'
  BY <1>1, <1>2, <1>4, <1>6 DEF Types, HistoryType, ThreadType
<1>8. StageInv'
  <2>1. \A u \in Threads \ {t} : task[u].stage \in {"simulate", "put"} => task[u].stream \in Streams \ {s}
    BY <1>3, NoneAssumption DEF Types, TaskType, TaskInv
  <2>2. \A u \in Threads \ {t} : tls'[u] = tls[u] /\ task'[u] = task[u]
    BY <1>2, <1>4
  <2>3. task'[t].stage = "simulate" =>
          tls'[t].worker = task'[t].stream /\ tls'[t].event = task'[t].event /\ simEvent'[task'[t].stream] = task'[t].event
    BY <1>2, <1>5, <1>6
  <2>4. task'[t].stage # "put"
    BY <1>2
  <2> HIDE DEF GenerateEvent
  <2>5. \A u \in Threads \ {t} : task'[u].stage = "simulate" =>
          /\ tls'[u].worker = task'[u].stream /\ tls'[u].event = task'[u].event
          /\ simEvent'[task'[u].stream] = task'[u].event
    BY <1>6, <2>1, <2>2 DEF StageInv
  <2>6. \A u \in Threads \ {t} : task'[u].stage = "put" =>
          simEvent'[task'[u].stream] = task'[u].event /\ tracks'[task'[u].stream] = task'[u].event
    BY <1>6, <2>1, <2>2 DEF StageInv
  <2> QED
    BY <2>3, <2>4, <2>5, <2>6 DEF StageInv
<1>9. SignalOf(t)'
  <2>1. SignalOf(t) /\ history'[t] = history[t] /\ run' = run
    BY <1>1 DEF SignalInv
  <2>2. task'[t].stage \in {"none", "simulate"}
    BY <1>2
  <2> QED
    BY <1>3, <1>5, <2>1, <2>2 DEF SignalOf
<1> QED
  BY <1>1, <1>2, <1>4, <1>7, <1>8, <1>9, OthersSignal

\* Geant4's tracks go to the worker that the thread's run interface knows.
LEMMA SimulateStep ==
  ASSUME IInv, NEW s \in Streams, NEW t \in Threads, Simulate(s, t)
  PROVE  IInv'
<1> USE DEF IInv, Simulate
<1>1. /\ FrameType /\ FrameType' /\ {"simulate", "put"} \subseteq Stages \ {"none"}
      /\ UNCHANGED <<tls, simEvent, history, run, phase>>
  BY DEF Types, FrameType, To, Throw, Stages
<1>2. /\ TaskType' /\ TaskInv' /\ engine' \in [Threads -> Streams \cup {None}]
      /\ \A u \in Threads \ {t} : task'[u] = task[u]
      /\ \/ task'[t].stage = "none" /\ tracks' = tracks
         \/ /\ task'[t].stage = "put" /\ task'[t].stream = s /\ task'[t].event = task[t].event
            /\ tracks' = [tracks EXCEPT ![tls[t].worker] = tls[t].event]
  <2>1. CASE To(t, "put") /\ tracks' = [tracks EXCEPT ![tls[t].worker] = tls[t].event]
    <3>1. /\ TaskType' /\ TaskInv' /\ engine' \in [Threads -> Streams \cup {None}]
          /\ \A u \in Threads \ {t} : task'[u] = task[u]
          /\ \/ task'[t].stage = "none"
             \/ task'[t].stream = s /\ task'[t].event = task[t].event
      BY <1>1, <2>1, Moves
    <3>2. task'[t].stage = "put"
      BY <2>1 DEF To, Types, TaskType
    <3> QED
      BY <2>1, <3>1, <3>2
  <2>2. CASE Throw(t) /\ tracks' = tracks
    <3>1. task'[t].stage = "none"
      BY <2>2 DEF Throw, NoTask, Types, TaskType
    <3> QED
      BY <1>1, <2>2, <3>1, Moves
  <2> QED
    BY <2>1, <2>2
<1>3. /\ task[t].stage = "simulate" /\ task[t].stream = s /\ task[t].event \in Events
      /\ tls[t].worker = s /\ tls[t].event = task[t].event /\ simEvent[s] = task[t].event
  BY DEF At, Types, TaskType, StageInv
<1>4. /\ SimType' /\ \A x \in Streams \ {s} : tracks'[x] = tracks[x]
      /\ task'[t].stage = "put" => tracks'[s] = task[t].event
  BY <1>1, <1>2, <1>3 DEF Types, SimType
<1>5. Types'
  BY <1>1, <1>2, <1>4 DEF Types, HistoryType, ThreadType
<1>6. StageInv'
  <2>1. \A u \in Threads \ {t} : task[u].stage \in {"simulate", "put"} => task[u].stream \in Streams \ {s}
    BY <1>3, NoneAssumption DEF Types, TaskType, TaskInv
  <2> QED
    BY <1>1, <1>2, <1>3, <1>4, <2>1 DEF StageInv
<1>7. SignalOf(t)'
  BY <1>1, <1>2, <1>3 DEF SignalInv, SignalOf
<1> QED
  BY <1>1, <1>2, <1>5, <1>6, <1>7, OthersSignal

\* The products are put and the stream handed back.
LEMMA PutProductsStep ==
  ASSUME IInv, NEW s \in Streams, NEW t \in Threads, PutProducts(s, t)
  PROVE  IInv'
<1> USE DEF IInv, PutProducts
<1>1. /\ FrameType /\ FrameType' /\ "put" \in Stages
      /\ UNCHANGED <<tls, simEvent, tracks, history, run, phase>>
  BY DEF Types, FrameType, framework, Stages
<1>2. /\ TaskType' /\ TaskInv' /\ engine' \in [Threads -> Streams \cup {None}]
      /\ \A u \in Threads \ {t} : task'[u] = task[u]
  BY <1>1, Moves
<1>3. task'[t].stage = "none" /\ task[t].stage = "put"
  BY DEF LeaveProduce, NoTask, At, Types, TaskType
<1>4. Types'
  BY <1>1, <1>2 DEF Types, SimType, HistoryType, ThreadType
<1>5. StageInv'
  BY <1>1, <1>2, <1>3 DEF StageInv
<1>6. SignalOf(t)'
  BY <1>1, <1>3 DEF SignalInv, SignalOf
<1> QED
  BY <1>1, <1>2, <1>4, <1>5, <1>6, OthersSignal

\* Every step preserves the invariant.
LEMMA StepIInv ==
  ASSUME IInv, [Next]_vars
  PROVE  IInv'
<1>1. ASSUME NEW s \in Streams, Destroy(s) PROVE IInv'
  <2>1. FrameType' /\ UNCHANGED <<task, engine, phase>> /\ TerminateRun(s, MainThread) /\ \A u \in Threads : Idle(u)
    BY <1>1 DEF Destroy, IInv, Types, FrameType, TaskInv
  <2> QED
    BY <2>1, TerminateStep, MainThreadAssumption
<1>2. ASSUME NEW s \in Streams, NEW t \in Threads, StreamEndRun(s, t) PROVE IInv'
  <2>1. FrameType' /\ UNCHANGED <<task, engine, phase>> /\ TerminateRun(s, t) /\ \A u \in Threads : Idle(u)
    BY <1>2 DEF StreamEndRun, IInv, Types, FrameType, TaskInv
  <2> QED
    BY <2>1, TerminateStep
<1>3. ASSUME NEW s \in Streams, NEW t \in Threads, StopFileFound(s, t) PROVE IInv'
  <2>1. /\ phase' = "crashed"
        /\ UNCHANGED <<hasWatchers, built, stopping, run, nextEvent, endedStreams, task, tls, engine,
                       simEvent, tracks, history>>
    BY <1>3 DEF StopFileFound
  <2>2. Types'
    BY <2>1 DEF IInv, Types, FrameType, TaskType, SimType, HistoryType, ThreadType
  <2>3. TaskInv' /\ StageInv' /\ SignalInv'
    BY <2>1 DEF IInv, TaskInv, StageInv, SignalInv, SignalOf, Idle, EngineOfTheStream
  <2> QED
    BY <2>2, <2>3 DEF IInv
<1>4. CASE UNCHANGED vars
  <2>1. UNCHANGED <<hasWatchers, built, phase, stopping, run, nextEvent, endedStreams, task, tls, engine,
                    simEvent, tracks, history>>
    BY <1>4 DEF vars, framework
  <2>2. Types'
    BY <2>1 DEF IInv, Types, FrameType, TaskType, SimType, HistoryType, ThreadType
  <2>3. TaskInv' /\ StageInv' /\ SignalInv'
    BY <2>1 DEF IInv, TaskInv, StageInv, SignalInv, SignalOf, Idle, EngineOfTheStream
  <2> QED
    BY <2>2, <2>3 DEF IInv
<1> QED
  BY <1>1, <1>2, <1>3, <1>4, FrameworkStep, ConstructStep, StartEventStep, InitializeThreadStep, ChangeRunStep,
     SameRunStep, GenerateEventStep, SimulateStep, PutProductsStep DEF Next, Finished

\* What is kept per thread and what is kept per stream agree in every state.
THEOREM WorkersInvariant == Spec => []IInv
  BY InitIInv, StepIInv, PTL DEF Spec

\* The products that a stream puts into an event are the event's own, for any
\* number of threads and streams and whatever exceptions came before.
THEOREM ProductsAreOfTheEvent == Spec => []EventGetsItsOwnTracks
<1>1. IInv => EventGetsItsOwnTracks
  BY DEF IInv, StageInv, EventGetsItsOwnTracks
<1> QED
  BY <1>1, WorkersInvariant, PTL

\* Geant4 uses a stream's random engine exactly while it works for the stream.
THEOREM EngineIsOfTheStream == Spec => []EngineOfTheStream
<1>1. IInv => EngineOfTheStream
  BY DEF IInv, TaskInv
<1> QED
  BY <1>1, WorkersInvariant, PTL

\* The run of a thread is the run of its events, and its run signals are paired.
THEOREM RunSignals == Spec => []RunSignalsPaired
<1>1. IInv => RunSignalsPaired
  BY DEF IInv, SignalInv, SignalOf, RunSignalsPaired
<1> QED
  BY <1>1, WorkersInvariant, PTL
===============================================================================
