------------------------- MODULE OscarMTMasterThread --------------------------
(* SimG4Core/Application: the Geant4 master thread of a multi-threaded job and *)
(* the framework threads that drive it.  The owner (the framework thread that  *)
(* builds and destroys the global cache) constructs the object and stops it;   *)
(* the task of each run r calls beginRun and endRun.  They talk to the master  *)
(* thread through m_threadMutex, two condition variables and the flags         *)
(* m_masterCanProceed and m_mainCanProceed; m_protectMutex serialises callers. *)
(* A condition variable is the set of threads blocked in it; a thread out of   *)
(* the set competes for the mutex and tests its predicate again.               *)
EXTENDS Naturals, FiniteSets

CONSTANTS Runs,             \* the runs of the job; run r's global transitions are one task
          Owner, Master,    \* the thread that owns the object; the thread it spawns
          IOVs,             \* intervals of validity of the geometry and the field records
          UseMagneticField, \* parameter UseMagneticField
          MaxOpenRuns,      \* how many runs the framework keeps between begin and end
          None              \* no thread; a record never seen

ASSUME ThreadsAssumption ==
  /\ Owner \notin Runs /\ Master \notin Runs /\ Owner # Master
  /\ None \notin Runs \cup {Owner, Master} \cup IOVs
ASSUME MaxOpenRunsAssumption == MaxOpenRuns \in Nat \ {0}
ASSUME UseMagneticFieldAssumption == UseMagneticField \in BOOLEAN

Threads == Runs \cup {Owner, Master}

VARIABLES pc,                  \* pc[t]: where thread or task t is
          threadMutex,         \* holder of m_threadMutex
          protectMutex,        \* holder of m_protectMutex
          waitMain,            \* threads blocked in m_notifyMainCv
          waitMaster,          \* threads blocked in m_notifyMasterCv
          masterThreadState,   \* m_masterThreadState
          masterCanProceed, mainCanProceed, firstRun, stopped,
          geomIOV, magIOV,     \* the records each run is in (the EventSetup)
          geomWatcher, magWatcher, \* the records the ESWatchers saw last
          pDD, pMF,            \* m_pDD, m_pMF: the records their products come from
          isG4Alive,           \* the master thread's local flag
          manager,             \* the RunManagerMT object
          owners,              \* who holds a shared_ptr to it
          destroyedBy,         \* the thread that dropped the last of them
          terminated           \* std::terminate was called

esVars     == <<firstRun, geomWatcher, magWatcher, pDD, pMF>>
iovVars    == <<geomIOV, magIOV>>
masterVars == <<isG4Alive, manager, owners, destroyedBy, terminated>>
syncVars   == <<threadMutex, protectMutex, waitMain, waitMaster,
                masterThreadState, masterCanProceed, mainCanProceed>>
vars == <<pc, syncVars, esVars, iovVars, masterVars, stopped>>

CallerPcs == {"idle", "beginProtect", "beginLock", "readES", "beginWait", "open",
              "failed", "endProtect", "endLock", "endRequest", "endWait", "closed"}
OwnerPcs  == {"construct", "initWait", "running", "endJob", "endJobJoin",
              "jobEnded", "dtor", "dtorJoin", "destroyed"}
MasterPcs == {"unborn", "start", "wait", "act", "done", "joined"}

\* A RunManagerMT as its constructor leaves it: m_userRunAction is not set.
NewManager == [initialized |-> FALSE, runTerminated |-> FALSE, runAction |-> "garbage",
               world |-> None, field |-> None]

Init == /\ pc = [t \in Threads |-> IF t = Owner THEN "construct"
                                ELSE IF t = Master THEN "unborn" ELSE "idle"]
        /\ threadMutex = None /\ protectMutex = None
        /\ waitMain = {} /\ waitMaster = {}
        /\ masterThreadState = "NotExist"
        /\ masterCanProceed = FALSE /\ mainCanProceed = FALSE
        /\ firstRun = TRUE /\ stopped = FALSE
        /\ geomIOV \in [Runs -> IOVs] /\ magIOV \in [Runs -> IOVs]
        /\ geomWatcher = None /\ magWatcher = None
        /\ pDD = None /\ pMF = None
        /\ isG4Alive = FALSE
        /\ manager = NewManager /\ owners = {} /\ destroyedBy = None
        /\ terminated = FALSE

-------------------------------------------------------------------------------
(* Mutexes and condition variables.                                            *)

Goto(t, from, to) == pc[t] = from /\ pc' = [pc EXCEPT ![t] = to]

NotifyOne(waiting, left) == \/ waiting = {} /\ left = {}
                            \/ \E t \in waiting : left = waiting \ {t}

\* Variant with a fault: beginRun and endRun do not take m_protectMutex.
NoProtection(r) == protectMutex = protectMutex

LockProtect(r) == protectMutex = None

-------------------------------------------------------------------------------
(* The framework: when it calls what.  Runs are begun while the job goes well, *)
(* at most MaxOpenRuns at a time; every begun run is ended; the job ends, with *)
(* or without endJob, when no run is open.                                     *)

Active(r) == pc[r] \notin {"idle", "failed", "closed"}
Quiet     == \A r \in Runs : ~Active(r)

GlobalBeginRun(r) ==
  /\ pc[Owner] = "running"
  /\ \A s \in Runs : pc[s] # "failed"
  /\ Cardinality({s \in Runs : Active(s)}) < MaxOpenRuns
  /\ Goto(r, "idle", "beginProtect")
  /\ UNCHANGED <<syncVars, esVars, iovVars, masterVars, stopped>>

GlobalEndRun(r) ==
  /\ Goto(r, "open", "endProtect")
  /\ UNCHANGED <<syncVars, esVars, iovVars, masterVars, stopped>>

GlobalEndJob ==
  /\ Quiet
  /\ Goto(Owner, "running", "endJob")
  /\ UNCHANGED <<syncVars, esVars, iovVars, masterVars, stopped>>

-------------------------------------------------------------------------------
(* beginRun and endRun, on the task of run r.                                  *)

Protect(r, from, to) ==
  /\ Goto(r, from, to)
  /\ LockProtect(r)
  /\ protectMutex' = r
  /\ UNCHANGED <<threadMutex, waitMain, waitMaster, masterThreadState,
                 masterCanProceed, mainCanProceed,
                 esVars, iovVars, masterVars, stopped>>

LockThread(r, from, to) ==
  /\ Goto(r, from, to)
  /\ threadMutex = None
  /\ threadMutex' = r
  /\ UNCHANGED <<protectMutex, waitMain, waitMaster, masterThreadState,
                 masterCanProceed, mainCanProceed,
                 esVars, iovVars, masterVars, stopped>>

GeomChanged(r) == geomWatcher # geomIOV[r]
MagChanged(r)  == UseMagneticField /\ magWatcher # magIOV[r]

\* readES throws: the geometry changed, the field changed (looked at only when
\* the geometry did not), or a record of the first run is missing.
ReadESThrows(r) ==
  /\ Goto(r, "readES", "failed")
  /\ \/ ~firstRun /\ GeomChanged(r) /\ magWatcher' = magWatcher
     \/ /\ ~firstRun /\ ~GeomChanged(r) /\ MagChanged(r)
        /\ magWatcher' = magIOV[r]
     \/ firstRun /\ magWatcher' = IF UseMagneticField THEN magIOV[r] ELSE magWatcher
  /\ geomWatcher' = geomIOV[r]
  /\ threadMutex' = None /\ protectMutex' = None
  /\ UNCHANGED <<waitMain, waitMaster, masterThreadState, masterCanProceed,
                 mainCanProceed, firstRun, pDD, pMF, iovVars, masterVars, stopped>>

\* Variant with a fault: the field watcher is not asked.
FieldIgnored(r) == firstRun \/ ~GeomChanged(r)

ESUnchanged(r) == firstRun \/ (~GeomChanged(r) /\ ~MagChanged(r))

ReadES(r) ==
  /\ ESUnchanged(r)
  /\ geomWatcher' = geomIOV[r]
  /\ magWatcher' = IF UseMagneticField THEN magIOV[r] ELSE magWatcher
  /\ pDD' = IF firstRun THEN geomIOV[r] ELSE pDD
  /\ pMF' = IF firstRun /\ UseMagneticField THEN magIOV[r] ELSE pMF
  /\ firstRun' = FALSE

\* Variant with a fault: the request is posted but the master is not allowed on.
ForgottenSignal(r, state) ==
  /\ masterThreadState' = state
  /\ masterCanProceed' = masterCanProceed
  /\ mainCanProceed' = FALSE

SignalMaster(r, state) ==
  /\ masterThreadState' = state
  /\ masterCanProceed' = TRUE
  /\ mainCanProceed' = FALSE

\* Post the request, notify the master and block in m_notifyMainCv (its
\* predicate has just been made false, so wait() always releases the mutex).
Request(r, state) ==
  /\ SignalMaster(r, state)
  /\ NotifyOne(waitMaster, waitMaster')
  /\ waitMain' = waitMain \cup {r}
  /\ threadMutex' = None
  /\ protectMutex' = protectMutex

BeginRequest(r) ==
  /\ Goto(r, "readES", "beginWait")
  /\ ReadES(r)
  /\ Request(r, "BeginRun")
  /\ UNCHANGED <<iovVars, masterVars, stopped>>

EndRequest(r) ==
  /\ Goto(r, "endRequest", "endWait")
  /\ Request(r, "EndRun")
  /\ UNCHANGED <<esVars, iovVars, masterVars, stopped>>

\* A woken caller gets the mutex and tests m_mainCanProceed.
Return(r, from, to) ==
  /\ r \notin waitMain
  /\ threadMutex = None
  /\ \/ mainCanProceed /\ Goto(r, from, to) /\ protectMutex' = None /\ waitMain' = waitMain
     \/ /\ ~mainCanProceed /\ pc[r] = from
        /\ waitMain' = waitMain \cup {r}
        /\ UNCHANGED <<pc, protectMutex>>
  /\ UNCHANGED <<threadMutex, waitMaster, masterThreadState, masterCanProceed,
                 mainCanProceed, esVars, iovVars, masterVars, stopped>>

Caller(r) ==
  \/ Protect(r, "beginProtect", "beginLock")
  \/ LockThread(r, "beginLock", "readES")
  \/ ReadESThrows(r)
  \/ BeginRequest(r)
  \/ Return(r, "beginWait", "open")
  \/ Protect(r, "endProtect", "endLock")
  \/ LockThread(r, "endLock", "endRequest")
  \/ EndRequest(r)
  \/ Return(r, "endWait", "closed")

-------------------------------------------------------------------------------
(* Constructor, stopThread and destructor, on the owner's thread.              *)

\* The owner holds the mutex while it spawns the thread and until it waits.
Construct ==
  /\ pc[Owner] = "construct"
  /\ pc' = [pc EXCEPT ![Owner] = "initWait", ![Master] = "start"]
  /\ mainCanProceed' = FALSE
  /\ waitMain' = waitMain \cup {Owner}
  /\ UNCHANGED <<threadMutex, protectMutex, waitMaster, masterThreadState,
                 masterCanProceed, esVars, iovVars, masterVars, stopped>>

Constructed ==
  /\ Owner \notin waitMain /\ threadMutex = None
  /\ \/ mainCanProceed /\ Goto(Owner, "initWait", "running") /\ waitMain' = waitMain
     \/ /\ ~mainCanProceed /\ pc[Owner] = "initWait"
        /\ waitMain' = waitMain \cup {Owner} /\ pc' = pc
  /\ UNCHANGED <<threadMutex, protectMutex, waitMaster, masterThreadState,
                 masterCanProceed, mainCanProceed, esVars, iovVars, masterVars, stopped>>

\* Whoever drops the last shared_ptr runs ~RunManagerMT in its own thread.
Release(t, holders) ==
  /\ owners' = holders
  /\ destroyedBy' = IF owners # {} /\ holders = {} THEN t ELSE destroyedBy

\* Variant with a fault: stopThread keeps m_runManagerMaster.
KeepManager == UNCHANGED <<owners, destroyedBy>>

ReleaseForMaster == Release(Owner, owners \ {Owner})

\* stopThread returns at once when m_stopped is set.
StopRequest(from, to) ==
  /\ ~stopped
  /\ Goto(Owner, from, to)
  /\ threadMutex = None
  /\ ReleaseForMaster
  /\ masterThreadState' = "Destruct"
  /\ masterCanProceed' = TRUE
  /\ NotifyOne(waitMaster, waitMaster')
  /\ UNCHANGED <<threadMutex, protectMutex, waitMain, mainCanProceed,
                 esVars, iovVars, isG4Alive, manager, terminated, stopped>>

Join(from, to) ==
  /\ pc[Owner] = from
  /\ pc[Master] = "done"
  /\ pc' = [pc EXCEPT ![Owner] = to, ![Master] = "joined"]
  /\ stopped' = TRUE
  /\ UNCHANGED <<syncVars, esVars, iovVars, masterVars>>

\* The destructor: stopThread unless it has been called, then the members.
DestructorCall ==
  /\ Quiet
  /\ ~stopped
  /\ Goto(Owner, "running", "dtor")
  /\ UNCHANGED <<syncVars, esVars, iovVars, masterVars, stopped>>

MembersDestroyed(from) ==
  /\ stopped
  /\ Goto(Owner, from, "destroyed")
  /\ Release(Owner, owners \ {Owner})
  /\ UNCHANGED <<syncVars, esVars, iovVars, isG4Alive, manager, terminated, stopped>>

OwnerStep ==
  \/ Construct
  \/ Constructed
  \/ StopRequest("endJob", "endJobJoin")
  \/ Join("endJobJoin", "jobEnded")
  \/ StopRequest("dtor", "dtorJoin")
  \/ Join("dtorJoin", "jobEnded")
  \/ MembersDestroyed("jobEnded")

-------------------------------------------------------------------------------
(* The master thread.                                                          *)

\* RunManagerMT::initG4: the first call builds everything, later ones return.
InitG4 ==
  manager' = IF manager.initialized THEN manager
             ELSE [manager EXCEPT !.initialized = TRUE, !.runAction = "live",
                                  !.world = pDD, !.field = pMF]

\* RunManagerMT::terminateRun, from stopG4 and from the destructor.
TerminateRun(m) == [m EXCEPT !.runAction = "null", !.runTerminated = TRUE]

StopG4 == manager' = IF manager.runTerminated THEN manager ELSE TerminateRun(manager)

\* The top of the state loop: signal the main thread and wait.
LoopTop ==
  /\ Goto(Master, pc[Master], "wait")
  /\ mainCanProceed' = TRUE
  /\ NotifyOne(waitMain, waitMain')
  /\ masterCanProceed' = FALSE
  /\ waitMaster' = waitMaster \cup {Master}
  /\ threadMutex' = None

MasterStart ==
  /\ pc[Master] = "start"
  /\ threadMutex = None
  /\ owners' = {Master, Owner}
  /\ LoopTop
  /\ UNCHANGED <<protectMutex, masterThreadState, esVars, iovVars,
                 isG4Alive, manager, destroyedBy, terminated, stopped>>

MayProceed == masterCanProceed

MasterWake ==
  /\ pc[Master] = "wait" /\ Master \notin waitMaster
  /\ threadMutex = None
  /\ \/ /\ MayProceed
        /\ Goto(Master, "wait", "act")
        /\ threadMutex' = Master
        /\ waitMaster' = waitMaster
     \/ /\ ~MayProceed
        /\ waitMaster' = waitMaster \cup {Master}
        /\ UNCHANGED <<pc, threadMutex>>
  /\ UNCHANGED <<protectMutex, waitMain, masterThreadState, masterCanProceed,
                 mainCanProceed, esVars, iovVars, masterVars, stopped>>

MasterBeginRun ==
  /\ pc[Master] = "act" /\ masterThreadState = "BeginRun"
  /\ InitG4
  /\ isG4Alive' = TRUE
  /\ LoopTop
  /\ UNCHANGED <<protectMutex, masterThreadState, esVars, iovVars,
                 owners, destroyedBy, terminated, stopped>>

\* Variant with a fault: the flag survives the end of the run.
AliveAfterStop == isG4Alive

NotAlive == FALSE

MasterEndRun ==
  /\ pc[Master] = "act" /\ masterThreadState = "EndRun"
  /\ StopG4
  /\ isG4Alive' = NotAlive
  /\ LoopTop
  /\ UNCHANGED <<protectMutex, masterThreadState, esVars, iovVars,
                 owners, destroyedBy, terminated, stopped>>

\* An exception leaves the thread function: initG4 fails, Geant4 is still alive
\* at Destruct, or the state is none of the three.
MasterThrows ==
  /\ pc[Master] = "act"
  /\ \/ masterThreadState = "BeginRun" /\ ~manager.initialized
     \/ masterThreadState = "Destruct" /\ isG4Alive
     \/ masterThreadState \notin {"BeginRun", "EndRun", "Destruct"}
  /\ terminated' = TRUE
  /\ UNCHANGED <<pc, syncVars, esVars, iovVars, isG4Alive, manager, owners,
                 destroyedBy, stopped>>

\* The destructor of a manager that never ran initG4 reads m_userRunAction
\* before anything was stored in it: it may be taken for null or crash.
MasterDestruct ==
  /\ pc[Master] = "act" /\ masterThreadState = "Destruct" /\ ~isG4Alive
  /\ Goto(Master, "act", "done")
  /\ Release(Master, owners \ {Master})
  /\ manager' = IF owners = {Master} /\ ~manager.runTerminated
                  THEN TerminateRun(manager) ELSE manager
  /\ terminated' \in (IF owners = {Master} /\ ~manager.runTerminated
                         /\ manager.runAction = "garbage"
                        THEN BOOLEAN ELSE {FALSE})
  /\ threadMutex' = None
  /\ UNCHANGED <<protectMutex, waitMain, waitMaster, masterThreadState,
                 masterCanProceed, mainCanProceed, esVars, iovVars, isG4Alive, stopped>>

MasterStep == MasterStart \/ MasterWake \/ MasterBeginRun \/ MasterEndRun
              \/ MasterThrows \/ MasterDestruct

-------------------------------------------------------------------------------
(* A condition variable may wake a thread that nobody notified.                *)
SpuriousWakeup ==
  /\ \/ \E t \in waitMain : waitMain' = waitMain \ {t} /\ waitMaster' = waitMaster
     \/ waitMaster # {} /\ waitMaster' = {} /\ waitMain' = waitMain
  /\ UNCHANGED <<pc, threadMutex, protectMutex, masterThreadState, masterCanProceed,
                 mainCanProceed, esVars, iovVars, masterVars, stopped>>

Finished == terminated \/ pc[Owner] = "destroyed"

Done == Finished /\ UNCHANGED vars

Next == \/ /\ ~terminated
           /\ \/ \E r \in Runs : GlobalBeginRun(r) \/ GlobalEndRun(r) \/ Caller(r)
              \/ GlobalEndJob \/ DestructorCall
              \/ OwnerStep
              \/ MasterStep
              \/ SpuriousWakeup
        \/ Done

Safety == Init /\ [][Next]_vars

\* The operating system runs every thread that can run, and the framework ends
\* what it began; whether it begins another run is its choice.
Fairness ==
  /\ \A r \in Runs : WF_vars(~terminated /\ Caller(r)) /\ WF_vars(~terminated /\ GlobalEndRun(r))
  /\ WF_vars(~terminated /\ (GlobalEndJob \/ DestructorCall))
  /\ WF_vars(~terminated /\ OwnerStep)
  /\ WF_vars(~terminated /\ MasterStep)

Spec == Safety /\ Fairness

-------------------------------------------------------------------------------
(* Properties.                                                                 *)

ManagerType == [initialized : BOOLEAN, runTerminated : BOOLEAN,
                runAction : {"garbage", "live", "null"},
                world : IOVs \cup {None}, field : IOVs \cup {None}]

PcType ==
  /\ pc \in [Threads -> CallerPcs \cup OwnerPcs \cup MasterPcs]
  /\ \A r \in Runs : pc[r] \in CallerPcs
  /\ pc[Owner] \in OwnerPcs /\ pc[Master] \in MasterPcs

SyncType ==
  /\ threadMutex \in Threads \cup {None} /\ protectMutex \in Runs \cup {None}
  /\ waitMain \subseteq Runs \cup {Owner} /\ waitMaster \subseteq {Master}
  /\ masterThreadState \in {"NotExist", "BeginRun", "EndRun", "Destruct"}
  /\ masterCanProceed \in BOOLEAN /\ mainCanProceed \in BOOLEAN

ESType ==
  /\ firstRun \in BOOLEAN /\ stopped \in BOOLEAN
  /\ geomIOV \in [Runs -> IOVs] /\ magIOV \in [Runs -> IOVs]
  /\ geomWatcher \in IOVs \cup {None} /\ magWatcher \in IOVs \cup {None}
  /\ pDD \in IOVs \cup {None} /\ pMF \in IOVs \cup {None}

GeantType ==
  /\ isG4Alive \in BOOLEAN /\ terminated \in BOOLEAN
  /\ manager \in ManagerType
  /\ owners \subseteq {Owner, Master} /\ destroyedBy \in Threads \cup {None}

\* Every thread is at a point of its own code, every variable has its type.
TypeOK == PcType /\ SyncType /\ ESType /\ GeantType

\* When the master thread acts, the state it reads is the request of the one
\* caller that is waiting for it under m_protectMutex (or of the owner that is
\* joining it): no request is overwritten, lost or served after its caller left
\* (beginRun, endRun, stopThread against the state loop).
MasterServesTheWaitingCaller ==
  pc[Master] = "act" =>
    \/ \E r \in Runs : /\ protectMutex = r
                       /\ \/ masterThreadState = "BeginRun" /\ pc[r] = "beginWait"
                          \/ masterThreadState = "EndRun" /\ pc[r] = "endWait"
    \/ masterThreadState = "Destruct" /\ pc[Owner] \in {"endJobJoin", "dtorJoin"}

\* The inductive invariant of the handshake, in named parts.
Waiting(r)     == pc[r] \in {"beginWait", "endWait"}
RequestOf(r)   == IF pc[r] = "beginWait" THEN "BeginRun" ELSE "EndRun"
Joining        == pc[Owner] \in {"endJobJoin", "dtorJoin"}
BeingServed(r) == \/ pc[r] = "beginWait" /\ mainCanProceed
                  \/ pc[r] \in {"open", "endProtect", "endLock", "endRequest"}
                  \/ pc[r] = "endWait" /\ ~mainCanProceed

ProtectInv == \A r \in Runs :
  pc[r] \in {"beginLock", "readES", "beginWait", "endLock", "endRequest", "endWait"}
    <=> protectMutex = r

ThreadMutexInv ==
  /\ threadMutex # Owner
  /\ threadMutex = Master <=> pc[Master] = "act"
  /\ \A r \in Runs : pc[r] \in {"readES", "endRequest"} <=> threadMutex = r

RequestInv ==
  /\ masterCanProceed =>
       \/ \E r \in Runs : Waiting(r) /\ ~mainCanProceed /\ masterThreadState = RequestOf(r)
       \/ masterThreadState = "Destruct" /\ pc[Owner] \in {"endJobJoin", "dtorJoin", "jobEnded", "destroyed"}
  /\ pc[Master] = "act" => masterCanProceed
  /\ \A r \in Runs : Waiting(r) /\ ~mainCanProceed => masterCanProceed

LifeInv ==
  /\ pc[Owner] = "construct" <=> pc[Master] = "unborn"
  /\ pc[Master] = "start" => pc[Owner] = "initWait" /\ ~mainCanProceed
  /\ pc[Master] = "done" => Joining
  /\ pc[Owner] \in {"jobEnded", "destroyed"} <=> pc[Master] = "joined"
  /\ pc[Owner] \in {"construct", "initWait"} => \A r \in Runs : pc[r] = "idle"
  /\ pc[Owner] \notin {"construct", "initWait", "running"} => Quiet

AliveInv == isG4Alive => manager.initialized /\ \E r \in Runs : BeingServed(r)

OwnersInv ==
  /\ pc[Master] \in {"unborn", "start"} => owners = {} /\ destroyedBy = None
  /\ pc[Master] \in {"wait", "act"} => Master \in owners /\ destroyedBy = None
  /\ pc[Master] \in {"done", "joined"} => owners = {} /\ destroyedBy = Master
  /\ pc[Owner] \in {"endJobJoin", "dtorJoin"} => Owner \notin owners

Handshake == ProtectInv /\ ThreadMutexInv /\ RequestInv /\ LifeInv /\ AliveInv

\* Who holds which mutex, whose request is pending, which thread lives and who
\* owns the manager agree at every point of the code: the inductive invariant
\* that the proofs of the properties below rest on.
IInv == TypeOK /\ Handshake /\ OwnersInv

\* With one open run at a time, the strengthening that OpenRunIsReady needs.
OneRun == \A r, s \in Runs : Active(r) /\ Active(s) => r = s

Refused    == \E r \in Runs : pc[r] = "failed"
BeforeES   == {"idle", "beginProtect", "beginLock", "readES"}
InGeometry == {"beginWait", "open", "endProtect", "endLock", "endRequest", "endWait"}

\* What readES saw, what it handed to the master and what the open run is in:
\* a refused run moves the watchers, but no run is begun after it.
WorldInv ==
  /\ Refused => Quiet
  /\ ~Refused /\ firstRun => ~manager.initialized /\ \A r \in Runs : pc[r] \in BeforeES
  /\ ~Refused /\ ~firstRun => geomWatcher = pDD /\ (UseMagneticField => magWatcher = pMF)
  /\ ~Refused /\ manager.initialized =>
       manager.world = pDD /\ (UseMagneticField => manager.field = pMF)
  /\ \A r \in Runs : pc[r] \in InGeometry =>
       geomIOV[r] = pDD /\ (UseMagneticField => magIOV[r] = pMF)
  /\ \A r \in Runs : pc[r] = "open" \/ (pc[r] = "beginWait" /\ mainCanProceed) =>
       manager.initialized /\ isG4Alive

\* Events of an open run are simulated in the geometry and the field of that
\* run: beginRun returns only after initG4 built them, and a run with another
\* geometry or field is refused (readES, "the geometry must stay unchanged").
OpenRunHasItsGeometry ==
  \A r \in Runs : pc[r] = "open" =>
    /\ manager.initialized
    /\ manager.world = geomIOV[r]
    /\ UseMagneticField => manager.field = magIOV[r]

\* Geant4 is alive as long as a run is open (with one open run at a time):
\* endRun of one run never reaches the master after beginRun of the next.
OpenRunKeepsG4Alive == \A r \in Runs : pc[r] = "open" => isG4Alive

\* Whoever simulates in an open run finds Geant4 alive, initialised for that run.
OpenRunIsReady == OpenRunHasItsGeometry /\ OpenRunKeepsG4Alive

\* The master thread never meets Destruct with Geant4 alive ("Geant4 is still
\* alive, master thread state must be set to EndRun before Destruct").
DestructFindsG4Stopped ==
  ~(pc[Master] = "act" /\ masterThreadState = "Destruct" /\ isG4Alive)

\* The last shared_ptr to RunManagerMT is dropped by the master thread ("must
\* be done in this thread, segfault otherwise").
ManagerDiesOnMaster == destroyedBy \in {None, Master}

\* The job ends: the master thread is joined and the object destroyed.
JobEnds == <>Finished

\* The threads implement the service the framework relies on.
CallOf(r) ==
  IF pc[r] \in {"beginProtect", "beginLock", "readES"} THEN "beginCalled"
  ELSE IF pc[r] = "beginWait" THEN (IF mainCanProceed THEN "begun" ELSE "beginCalled")
  ELSE IF pc[r] \in {"endProtect", "endLock", "endRequest"} THEN "endCalled"
  ELSE IF pc[r] = "endWait" THEN (IF mainCanProceed THEN "ended" ELSE "endCalled")
  ELSE pc[r]

ServiceCall == [r \in Runs |-> CallOf(r)]

ServiceState == IF terminated THEN "crashed"
                ELSE IF pc[Master] \in {"done", "joined"} THEN "down" ELSE "up"

Service == INSTANCE G4RunService
             WITH call <- ServiceCall, g4Alive <- isG4Alive, service <- ServiceState

ServiceSafety == Service!Safety

ServiceSpec == Service!Spec
===============================================================================
