---------------------- MODULE OscarMTMasterThreadProofs -----------------------
(* Proofs about OscarMTMasterThread, for every set of runs, every set of       *)
(* records and every bound on the open runs.                                   *)
EXTENDS OscarMTMasterThread, FiniteSetTheorems, TLAPS

USE ThreadsAssumption DEF Threads

\* Every step of the specification is a step of one of the threads, of the
\* framework, or a stutter (used by every invariance proof below).
LEMMA Steps ==
  ASSUME [Next]_vars
  PROVE  \/ \E r \in Runs : GlobalBeginRun(r) \/ GlobalEndRun(r) \/ Caller(r)
         \/ GlobalEndJob \/ DestructorCall
         \/ OwnerStep
         \/ MasterStep
         \/ SpuriousWakeup
         \/ UNCHANGED vars
  BY DEF Next, Done

\* Notifying removes at most one thread from the wait set.
LEMMA NotifySubset ==
  ASSUME NEW waiting, NEW left, NotifyOne(waiting, left)
  PROVE  left \subseteq waiting
  BY DEF NotifyOne

\* Type correctness of all variables of the handshake.
THEOREM Typing == Safety => []TypeOK
<1> USE DEF TypeOK
<1>1. Init => TypeOK
  <2> SUFFICES ASSUME Init PROVE TypeOK
    OBVIOUS
  <2>1. PcType
    BY DEF Init, NewManager, PcType, CallerPcs, OwnerPcs, MasterPcs
  <2>2. SyncType
    BY DEF Init, NewManager, SyncType
  <2>3. ESType
    BY DEF Init, NewManager, ESType
  <2>4. GeantType
    BY DEF Init, NewManager, GeantType, ManagerType
  <2> QED
    BY <2>1, <2>2, <2>3, <2>4
<1>2. TypeOK /\ [Next]_vars => TypeOK'
  <2> SUFFICES ASSUME TypeOK, [Next]_vars PROVE TypeOK'
    OBVIOUS
  <2> USE DEF syncVars, esVars, iovVars, masterVars, Goto
  <2>1. ASSUME NEW r \in Runs, GlobalBeginRun(r) \/ GlobalEndRun(r) PROVE TypeOK'
    BY <2>1 DEF GlobalBeginRun, GlobalEndRun, PcType, CallerPcs, SyncType, ESType, GeantType
  <2>2. ASSUME NEW r \in Runs, Caller(r) PROVE TypeOK'
    <3>1. CASE Protect(r, "beginProtect", "beginLock")
      <4>1. PcType'
        BY <3>1 DEF Protect, PcType, CallerPcs, OwnerPcs, MasterPcs
      <4>2. SyncType'
        BY <3>1 DEF Protect, SyncType
      <4>3. ESType'
        BY <3>1 DEF Protect, ESType
      <4>4. GeantType'
        BY <3>1 DEF Protect, GeantType, ManagerType
      <4> QED
        BY <4>1, <4>2, <4>3, <4>4
    <3>2. CASE LockThread(r, "beginLock", "readES")
      <4>1. PcType'
        BY <3>2 DEF LockThread, PcType, CallerPcs, OwnerPcs, MasterPcs
      <4>2. SyncType'
        BY <3>2 DEF LockThread, SyncType
      <4>3. ESType'
        BY <3>2 DEF LockThread, ESType
      <4>4. GeantType'
        BY <3>2 DEF LockThread, GeantType, ManagerType
      <4> QED
        BY <4>1, <4>2, <4>3, <4>4
    <3>3. CASE ReadESThrows(r)
      <4>1. PcType'
        BY <3>3 DEF ReadESThrows, PcType, CallerPcs, OwnerPcs, MasterPcs
      <4>2. SyncType'
        BY <3>3 DEF ReadESThrows, SyncType
      <4>3. ESType'
        BY <3>3 DEF ReadESThrows, ESType
      <4>4. GeantType'
        BY <3>3 DEF ReadESThrows, GeantType, ManagerType
      <4> QED
        BY <4>1, <4>2, <4>3, <4>4
    <3>4. CASE BeginRequest(r)
      <4>1. PcType'
        BY <3>4, NotifySubset DEF BeginRequest, ReadES, Request, SignalMaster, PcType, CallerPcs, OwnerPcs, MasterPcs
      <4>2. SyncType'
        BY <3>4, NotifySubset DEF BeginRequest, ReadES, Request, SignalMaster, SyncType
      <4>3. ESType'
        BY <3>4, NotifySubset DEF BeginRequest, ReadES, Request, SignalMaster, ESType
      <4>4. GeantType'
        BY <3>4, NotifySubset DEF BeginRequest, ReadES, Request, SignalMaster, GeantType, ManagerType
      <4> QED
        BY <4>1, <4>2, <4>3, <4>4
    <3>5. CASE Return(r, "beginWait", "open")
      <4>1. PcType'
        BY <3>5 DEF Return, PcType, CallerPcs, OwnerPcs, MasterPcs
      <4>2. SyncType'
        BY <3>5 DEF Return, SyncType
      <4>3. ESType'
        BY <3>5 DEF Return, ESType
      <4>4. GeantType'
        BY <3>5 DEF Return, GeantType, ManagerType
      <4> QED
        BY <4>1, <4>2, <4>3, <4>4
    <3>6. CASE Protect(r, "endProtect", "endLock")
      <4>1. PcType'
        BY <3>6 DEF Protect, PcType, CallerPcs, OwnerPcs, MasterPcs
      <4>2. SyncType'
        BY <3>6 DEF Protect, SyncType
      <4>3. ESType'
        BY <3>6 DEF Protect, ESType
      <4>4. GeantType'
        BY <3>6 DEF Protect, GeantType, ManagerType
      <4> QED
        BY <4>1, <4>2, <4>3, <4>4
    <3>7. CASE LockThread(r, "endLock", "endRequest")
      <4>1. PcType'
        BY <3>7 DEF LockThread, PcType, CallerPcs, OwnerPcs, MasterPcs
      <4>2. SyncType'
        BY <3>7 DEF LockThread, SyncType
      <4>3. ESType'
        BY <3>7 DEF LockThread, ESType
      <4>4. GeantType'
        BY <3>7 DEF LockThread, GeantType, ManagerType
      <4> QED
        BY <4>1, <4>2, <4>3, <4>4
    <3>8. CASE EndRequest(r)
      <4>1. PcType'
        BY <3>8, NotifySubset DEF EndRequest, Request, SignalMaster, PcType, CallerPcs, OwnerPcs, MasterPcs
      <4>2. SyncType'
        BY <3>8, NotifySubset DEF EndRequest, Request, SignalMaster, SyncType
      <4>3. ESType'
        BY <3>8, NotifySubset DEF EndRequest, Request, SignalMaster, ESType
      <4>4. GeantType'
        BY <3>8, NotifySubset DEF EndRequest, Request, SignalMaster, GeantType, ManagerType
      <4> QED
        BY <4>1, <4>2, <4>3, <4>4
    <3>9. CASE Return(r, "endWait", "closed")
      <4>1. PcType'
        BY <3>9 DEF Return, PcType, CallerPcs, OwnerPcs, MasterPcs
      <4>2. SyncType'
        BY <3>9 DEF Return, SyncType
      <4>3. ESType'
        BY <3>9 DEF Return, ESType
      <4>4. GeantType'
        BY <3>9 DEF Return, GeantType, ManagerType
      <4> QED
        BY <4>1, <4>2, <4>3, <4>4
    <3> QED
      BY <2>2, <3>1, <3>2, <3>3, <3>4, <3>5, <3>6, <3>7, <3>8, <3>9 DEF Caller
  <2>3. CASE GlobalEndJob \/ DestructorCall
    BY <2>3 DEF GlobalEndJob, DestructorCall, PcType, OwnerPcs, SyncType, ESType, GeantType
  <2>4. CASE OwnerStep
    <3>1. CASE Construct
      <4>1. PcType'
        BY <3>1 DEF Construct, PcType, CallerPcs, OwnerPcs, MasterPcs
      <4>2. SyncType'
        BY <3>1 DEF Construct, SyncType
      <4>3. ESType'
        BY <3>1 DEF Construct, ESType
      <4>4. GeantType'
        BY <3>1 DEF Construct, GeantType, ManagerType
      <4> QED
        BY <4>1, <4>2, <4>3, <4>4
    <3>2. CASE Constructed
      <4>1. PcType'
        BY <3>2 DEF Constructed, PcType, CallerPcs, OwnerPcs, MasterPcs
      <4>2. SyncType'
        BY <3>2 DEF Constructed, SyncType
      <4>3. ESType'
        BY <3>2 DEF Constructed, ESType
      <4>4. GeantType'
        BY <3>2 DEF Constructed, GeantType, ManagerType
      <4> QED
        BY <4>1, <4>2, <4>3, <4>4
    <3>3. ASSUME NEW from, NEW to \in OwnerPcs, StopRequest(from, to) PROVE TypeOK'
      <4>1. PcType'
        BY <3>3, NotifySubset DEF StopRequest, ReleaseForMaster, Release, PcType, CallerPcs, OwnerPcs, MasterPcs
      <4>2. SyncType'
        BY <3>3, NotifySubset DEF StopRequest, ReleaseForMaster, Release, SyncType
      <4>3. ESType'
        BY <3>3, NotifySubset DEF StopRequest, ReleaseForMaster, Release, ESType
      <4>4. GeantType'
        BY <3>3, NotifySubset DEF StopRequest, ReleaseForMaster, Release, GeantType, ManagerType
      <4> QED
        BY <4>1, <4>2, <4>3, <4>4
    <3>4. ASSUME NEW from, NEW to \in OwnerPcs, Join(from, to) PROVE TypeOK'
      <4>1. PcType'
        BY <3>4 DEF Join, PcType, CallerPcs, OwnerPcs, MasterPcs
      <4>2. SyncType'
        BY <3>4 DEF Join, SyncType
      <4>3. ESType'
        BY <3>4 DEF Join, ESType
      <4>4. GeantType'
        BY <3>4 DEF Join, GeantType, ManagerType
      <4> QED
        BY <4>1, <4>2, <4>3, <4>4
    <3>5. CASE MembersDestroyed("jobEnded")
      <4>1. PcType'
        BY <3>5 DEF MembersDestroyed, Release, PcType, CallerPcs, OwnerPcs, MasterPcs
      <4>2. SyncType'
        BY <3>5 DEF MembersDestroyed, Release, SyncType
      <4>3. ESType'
        BY <3>5 DEF MembersDestroyed, Release, ESType
      <4>4. GeantType'
        BY <3>5 DEF MembersDestroyed, Release, GeantType, ManagerType
      <4> QED
        BY <4>1, <4>2, <4>3, <4>4
    <3> QED
      BY <2>4, <3>1, <3>2, <3>3, <3>4, <3>5 DEF OwnerStep, OwnerPcs
  <2>5. CASE MasterStep
    <3>1. CASE MasterStart
      <4>1. PcType'
        BY <3>1, NotifySubset DEF MasterStart, LoopTop, PcType, CallerPcs, OwnerPcs, MasterPcs
      <4>2. SyncType'
        BY <3>1, NotifySubset DEF MasterStart, LoopTop, SyncType
      <4>3. ESType'
        BY <3>1, NotifySubset DEF MasterStart, LoopTop, ESType
      <4>4. GeantType'
        BY <3>1, NotifySubset DEF MasterStart, LoopTop, GeantType, ManagerType
      <4> QED
        BY <4>1, <4>2, <4>3, <4>4
    <3>2. CASE MasterWake
      <4>1. PcType'
        BY <3>2 DEF MasterWake, MayProceed, PcType, CallerPcs, OwnerPcs, MasterPcs
      <4>2. SyncType'
        BY <3>2 DEF MasterWake, MayProceed, SyncType
      <4>3. ESType'
        BY <3>2 DEF MasterWake, MayProceed, ESType
      <4>4. GeantType'
        BY <3>2 DEF MasterWake, MayProceed, GeantType, ManagerType
      <4> QED
        BY <4>1, <4>2, <4>3, <4>4
    <3>3. CASE MasterBeginRun
      <4>1. PcType'
        BY <3>3, NotifySubset DEF MasterBeginRun, InitG4, LoopTop, PcType, CallerPcs, OwnerPcs, MasterPcs
      <4>2. SyncType'
        BY <3>3, NotifySubset DEF MasterBeginRun, InitG4, LoopTop, SyncType
      <4>3. ESType'
        BY <3>3, NotifySubset DEF MasterBeginRun, InitG4, LoopTop, ESType
      <4>4. GeantType'
        BY <3>3, NotifySubset DEF MasterBeginRun, InitG4, LoopTop, ESType, GeantType, ManagerType
      <4> QED
        BY <4>1, <4>2, <4>3, <4>4
    <3>4. CASE MasterEndRun
      <4>1. PcType'
        BY <3>4, NotifySubset DEF MasterEndRun, StopG4, TerminateRun, NotAlive, LoopTop, PcType, CallerPcs, OwnerPcs, MasterPcs
      <4>2. SyncType'
        BY <3>4, NotifySubset DEF MasterEndRun, StopG4, TerminateRun, NotAlive, LoopTop, SyncType
      <4>3. ESType'
        BY <3>4, NotifySubset DEF MasterEndRun, StopG4, TerminateRun, NotAlive, LoopTop, ESType
      <4>4. GeantType'
        BY <3>4, NotifySubset DEF MasterEndRun, StopG4, TerminateRun, NotAlive, LoopTop, GeantType, ManagerType
      <4> QED
        BY <4>1, <4>2, <4>3, <4>4
    <3>5. CASE MasterThrows
      <4>1. PcType'
        BY <3>5 DEF MasterThrows, PcType, CallerPcs, OwnerPcs, MasterPcs
      <4>2. SyncType'
        BY <3>5 DEF MasterThrows, SyncType
      <4>3. ESType'
        BY <3>5 DEF MasterThrows, ESType
      <4>4. GeantType'
        BY <3>5 DEF MasterThrows, GeantType, ManagerType
      <4> QED
        BY <4>1, <4>2, <4>3, <4>4
    <3>6. CASE MasterDestruct
      <4>1. PcType'
        BY <3>6 DEF MasterDestruct, TerminateRun, Release, PcType, CallerPcs, OwnerPcs, MasterPcs
      <4>2. SyncType'
        BY <3>6 DEF MasterDestruct, TerminateRun, Release, SyncType
      <4>3. ESType'
        BY <3>6 DEF MasterDestruct, TerminateRun, Release, ESType
      <4>4. GeantType'
        <5>1. terminated' \in BOOLEAN /\ isG4Alive' = isG4Alive
          BY <3>6 DEF MasterDestruct, GeantType
        <5>2. manager' \in ManagerType
          BY <3>6 DEF MasterDestruct, TerminateRun, GeantType, ManagerType
        <5>3. owners' \subseteq {Owner, Master} /\ destroyedBy' \in Threads \cup {None}
          BY <3>6 DEF MasterDestruct, Release, GeantType
        <5> QED
          BY <5>1, <5>2, <5>3 DEF GeantType
      <4> QED
        BY <4>1, <4>2, <4>3, <4>4
    <3> QED
      BY <2>5, <3>1, <3>2, <3>3, <3>4, <3>5, <3>6 DEF MasterStep
  <2>6. CASE SpuriousWakeup
    BY <2>6 DEF SpuriousWakeup, PcType, SyncType, ESType, GeantType
  <2>7. CASE UNCHANGED vars
    BY <2>7 DEF vars, PcType, SyncType, ESType, GeantType
  <2> QED
    BY Steps, <2>1, <2>2, <2>3, <2>4, <2>5, <2>6, <2>7
<1> QED
  BY <1>1, <1>2, PTL DEF Safety

-------------------------------------------------------------------------------
(* The handshake.                                                              *)

LEMMA HandshakeStep ==
  ASSUME IInv, [Next]_vars, TypeOK'
  PROVE  IInv'
<1> USE DEF IInv, TypeOK, PcType, SyncType, Handshake, ProtectInv, ThreadMutexInv, RequestInv,
       LifeInv, AliveInv, OwnersInv, Waiting, RequestOf, Joining, Quiet, Active, BeingServed,
       syncVars, esVars, iovVars, masterVars, Goto, CallerPcs, OwnerPcs, MasterPcs
<1>1. ASSUME NEW r \in Runs, GlobalBeginRun(r) \/ GlobalEndRun(r) PROVE IInv'
  <2>1. CASE GlobalBeginRun(r)
    BY <2>1 DEF GlobalBeginRun
  <2>2. CASE GlobalEndRun(r)
    BY <2>2 DEF GlobalEndRun
  <2> QED
    BY <1>1, <2>1, <2>2
<1>2. ASSUME NEW r \in Runs, Caller(r) PROVE IInv'
  <2>1. CASE Protect(r, "beginProtect", "beginLock")
    BY <2>1 DEF Protect, LockProtect
  <2>2. CASE LockThread(r, "beginLock", "readES")
    BY <2>2 DEF LockThread
  <2>3. CASE ReadESThrows(r)
    BY <2>3 DEF ReadESThrows
  <2>4. CASE BeginRequest(r)
    BY <2>4 DEF BeginRequest, Request, SignalMaster
  <2>5. CASE Return(r, "beginWait", "open")
    BY <2>5 DEF Return
  <2>6. CASE Protect(r, "endProtect", "endLock")
    BY <2>6 DEF Protect, LockProtect
  <2>7. CASE LockThread(r, "endLock", "endRequest")
    BY <2>7 DEF LockThread
  <2>8. CASE EndRequest(r)
    BY <2>8 DEF EndRequest, Request, SignalMaster
  <2>9. CASE Return(r, "endWait", "closed")
    BY <2>9 DEF Return
  <2> QED
    BY <1>2, <2>1, <2>2, <2>3, <2>4, <2>5, <2>6, <2>7, <2>8, <2>9 DEF Caller
<1>3. CASE GlobalEndJob \/ DestructorCall
  BY <1>3 DEF GlobalEndJob, DestructorCall
<1>4. CASE OwnerStep
  <2>1. CASE Construct
    BY <2>1 DEF Construct
  <2>2. CASE Constructed
    BY <2>2 DEF Constructed
  <2>3. CASE StopRequest("endJob", "endJobJoin")
    BY <2>3 DEF StopRequest, ReleaseForMaster, Release
  <2>4. CASE StopRequest("dtor", "dtorJoin")
    BY <2>4 DEF StopRequest, ReleaseForMaster, Release
  <2>5. CASE Join("endJobJoin", "jobEnded")
    BY <2>5 DEF Join
  <2>6. CASE Join("dtorJoin", "jobEnded")
    BY <2>6 DEF Join
  <2>7. CASE MembersDestroyed("jobEnded")
    BY <2>7 DEF MembersDestroyed, Release
  <2> QED
    BY <1>4, <2>1, <2>2, <2>3, <2>4, <2>5, <2>6, <2>7 DEF OwnerStep
<1>5. CASE MasterStep
  <2>1. CASE MasterStart
    BY <2>1 DEF MasterStart, LoopTop
  <2>2. CASE MasterWake
    BY <2>2 DEF MasterWake, MayProceed
  <2>3. CASE MasterBeginRun
    BY <2>3 DEF MasterBeginRun, InitG4, LoopTop
  <2>4. CASE MasterEndRun
    BY <2>4 DEF MasterEndRun, NotAlive, LoopTop
  <2>5. CASE MasterThrows
    BY <2>5 DEF MasterThrows
  <2>6. CASE MasterDestruct
    <3>1. Joining
      BY <2>6 DEF MasterDestruct
    <3>2. /\ Master \in owners /\ Owner \notin owners
          /\ owners \subseteq {Owner, Master} /\ destroyedBy = None
      BY <2>6, <3>1 DEF MasterDestruct, GeantType
    <3>3. owners # {} /\ owners \ {Master} = {}
      BY <3>2
    <3>4. owners' = {} /\ destroyedBy' = Master
      BY <2>6, <3>3 DEF MasterDestruct, Release
    <3> QED
      BY <2>6, <3>1, <3>4 DEF MasterDestruct
  <2> QED
    BY <1>5, <2>1, <2>2, <2>3, <2>4, <2>5, <2>6 DEF MasterStep
<1>6. CASE SpuriousWakeup
  BY <1>6 DEF SpuriousWakeup
<1>7. CASE UNCHANGED vars
  BY <1>7 DEF vars
<1> QED
  BY Steps, <1>1, <1>2, <1>3, <1>4, <1>5, <1>6, <1>7

\* The handshake is an invariant of every execution.
THEOREM HandshakeInvariant == Safety => []IInv
<1>1. Init => IInv
  <2> SUFFICES ASSUME Init PROVE IInv
    OBVIOUS
  <2>1. TypeOK
    BY DEF Init, NewManager, TypeOK, PcType, SyncType, ESType, GeantType, ManagerType,
           CallerPcs, OwnerPcs, MasterPcs
  <2>2. Handshake /\ OwnersInv
    BY DEF Init, Handshake, ProtectInv, ThreadMutexInv, RequestInv, LifeInv, AliveInv,
           OwnersInv, Waiting, RequestOf, Joining, Quiet, Active, BeingServed
  <2> QED
    BY <2>1, <2>2 DEF IInv
<1>2. IInv /\ [Next]_vars /\ TypeOK' => IInv'
  BY HandshakeStep
<1> QED
  BY <1>1, <1>2, Typing, PTL DEF Safety

\* The request the master reads is that of the caller that waits for it: no
\* request of beginRun, endRun or stopThread is overwritten or served late.
THEOREM RequestsAreServedWhileAwaited == Safety => []MasterServesTheWaitingCaller
<1>1. IInv => MasterServesTheWaitingCaller
  BY DEF IInv, Handshake, ProtectInv, RequestInv, LifeInv, Waiting, RequestOf, Joining,
         MasterServesTheWaitingCaller
<1> QED
  BY <1>1, HandshakeInvariant, PTL

\* The exception "Geant4 is still alive" is never thrown at Destruct.
THEOREM DestructIsOrderly == Safety => []DestructFindsG4Stopped
<1>1. IInv => DestructFindsG4Stopped
  BY DEF IInv, Handshake, RequestInv, LifeInv, AliveInv, BeingServed, Quiet, Active, Waiting,
         RequestOf, Joining, DestructFindsG4Stopped
<1> QED
  BY <1>1, HandshakeInvariant, PTL

\* RunManagerMT is destroyed in the master thread ("must be done in this
\* thread, segfault otherwise"): stopThread drops its shared_ptr first.
THEOREM ManagerDestroyedByMaster == Safety => []ManagerDiesOnMaster
<1>1. IInv => ManagerDiesOnMaster
  BY DEF IInv, TypeOK, PcType, MasterPcs, OwnersInv, ManagerDiesOnMaster
<1> QED
  BY <1>1, HandshakeInvariant, PTL


-------------------------------------------------------------------------------
(* One open run at a time: an open run is simulated in its own geometry.       *)

\* The framework begins a run only when no run is open.
LEMMA NoneOpen ==
  ASSUME OneRun, MaxOpenRuns = 1, Cardinality({s \in Runs : Active(s)}) < MaxOpenRuns
  PROVE  Quiet
<1> SUFFICES ASSUME NEW r \in Runs, Active(r) PROVE FALSE
  BY DEF Quiet
<1>1. {s \in Runs : Active(s)} = {r}
  BY DEF OneRun
<1>2. Cardinality({r}) = 1
  BY FS_Singleton
<1> QED
  BY <1>1, <1>2

\* Whoever is active stays alone: only GlobalBeginRun makes a run active.
LEMMA OneRunStep ==
  ASSUME MaxOpenRuns = 1, IInv, OneRun, [Next]_vars
  PROVE  OneRun'
<1> USE DEF IInv, TypeOK, PcType, OneRun, Active, Goto, CallerPcs, OwnerPcs, MasterPcs
<1>1. ASSUME NEW r \in Runs, GlobalBeginRun(r) PROVE OneRun'
  <2>1. Quiet
    BY <1>1, NoneOpen DEF GlobalBeginRun
  <2> QED
    BY <1>1, <2>1 DEF GlobalBeginRun, Quiet
<1>2. ASSUME NEW r \in Runs, GlobalEndRun(r) PROVE OneRun'
  BY <1>2 DEF GlobalEndRun
<1>3. ASSUME NEW r \in Runs, Caller(r) PROVE OneRun'
  <2>1. pc' = pc \/ (Active(r) /\ \E to : pc' = [pc EXCEPT ![r] = to])
    BY <1>3 DEF Caller, Protect, LockThread, ReadESThrows, BeginRequest, EndRequest, Return
  <2> QED
    BY <2>1
<1>4. CASE GlobalEndJob \/ DestructorCall
  BY <1>4 DEF GlobalEndJob, DestructorCall
<1>5. CASE OwnerStep
  BY <1>5 DEF OwnerStep, Construct, Constructed, StopRequest, Join, MembersDestroyed
<1>6. CASE MasterStep
  BY <1>6 DEF MasterStep, MasterStart, MasterWake, MasterBeginRun, MasterEndRun,
              MasterThrows, MasterDestruct, LoopTop
<1>7. CASE SpuriousWakeup \/ UNCHANGED vars
  BY <1>7 DEF SpuriousWakeup, vars
<1> QED
  BY Steps, <1>1, <1>2, <1>3, <1>4, <1>5, <1>6, <1>7

\* readES, the request, initG4 and the return to the framework keep the open run
\* in the geometry of the records it is in.
LEMMA WorldStep ==
  ASSUME MaxOpenRuns = 1, IInv, OneRun, WorldInv, [Next]_vars, OneRun', TypeOK'
  PROVE  WorldInv'
<1> USE DEF IInv, TypeOK, PcType, Goto, CallerPcs, OwnerPcs, MasterPcs, WorldInv, Refused,
            BeforeES, InGeometry, Quiet, Active, esVars, iovVars, masterVars, syncVars
<1>1. ASSUME NEW r \in Runs, GlobalBeginRun(r) PROVE WorldInv'
  BY <1>1 DEF GlobalBeginRun
<1>2. ASSUME NEW r \in Runs, GlobalEndRun(r) PROVE WorldInv'
  BY <1>2 DEF GlobalEndRun
<1>3. ASSUME NEW r \in Runs, Caller(r) PROVE WorldInv'
  <2>1. CASE Protect(r, "beginProtect", "beginLock")
    BY <2>1 DEF Protect
  <2>2. CASE LockThread(r, "beginLock", "readES")
    BY <2>2 DEF LockThread
  <2>3. CASE ReadESThrows(r)
    BY <2>3 DEF ReadESThrows, OneRun
  <2>4. CASE BeginRequest(r)
    <3>1. ~Refused
      BY <2>4 DEF BeginRequest
    <3> QED
      BY <2>4, <3>1 DEF BeginRequest, ReadES, Request, SignalMaster, ESUnchanged, GeomChanged,
                  MagChanged, OneRun
  <2>5. CASE Return(r, "beginWait", "open")
    BY <2>5 DEF Return
  <2>6. CASE Protect(r, "endProtect", "endLock")
    BY <2>6 DEF Protect
  <2>7. CASE LockThread(r, "endLock", "endRequest")
    BY <2>7 DEF LockThread
  <2>8. CASE EndRequest(r)
    BY <2>8 DEF EndRequest, Request, SignalMaster, OneRun
  <2>9. CASE Return(r, "endWait", "closed")
    BY <2>9 DEF Return
  <2> QED
    BY <1>3, <2>1, <2>2, <2>3, <2>4, <2>5, <2>6, <2>7, <2>8, <2>9 DEF Caller
<1>4. CASE GlobalEndJob \/ DestructorCall
  BY <1>4 DEF GlobalEndJob, DestructorCall
<1>5. CASE OwnerStep
  BY <1>5 DEF OwnerStep, Construct, Constructed, StopRequest, Join, MembersDestroyed,
              Handshake, LifeInv
<1>6. CASE MasterStep
  <2> USE DEF Handshake, RequestInv, LifeInv, AliveInv, Waiting, RequestOf, Joining, BeingServed
  <2>1. CASE MasterStart
    BY <2>1 DEF MasterStart, LoopTop
  <2>2. CASE MasterWake
    BY <2>2 DEF MasterWake
  <2>3. CASE MasterBeginRun
    <3>1. PICK r \in Runs : pc[r] = "beginWait" /\ ~mainCanProceed
      BY <2>3 DEF MasterBeginRun
    <3>2. ~Refused /\ ~firstRun
      BY <3>1
    <3>3. manager' = IF manager.initialized THEN manager
                     ELSE [manager EXCEPT !.initialized = TRUE, !.runAction = "live",
                                          !.world = pDD, !.field = pMF]
      BY <2>3 DEF MasterBeginRun, InitG4
    <3>4. manager'.initialized /\ manager'.world = pDD
          /\ (UseMagneticField => manager'.field = pMF)
      BY <3>2, <3>3 DEF GeantType, ManagerType
    <3>5. \A s \in Runs : pc'[s] = pc[s]
      BY <2>3 DEF MasterBeginRun, LoopTop
    <3>6. isG4Alive' /\ UNCHANGED <<esVars, iovVars>>
      BY <2>3 DEF MasterBeginRun
    <3> QED
      BY <3>2, <3>4, <3>5, <3>6
  <2>4. CASE MasterEndRun
    <3>1. PICK r \in Runs : pc[r] = "endWait" /\ ~mainCanProceed
      BY <2>4 DEF MasterEndRun
    <3>2. /\ manager'.initialized = manager.initialized
          /\ manager'.world = manager.world /\ manager'.field = manager.field
      BY <2>4 DEF MasterEndRun, StopG4, TerminateRun, GeantType, ManagerType
    <3>3. \A s \in Runs : pc'[s] = pc[s]
      BY <2>4 DEF MasterEndRun, LoopTop
    <3>4. \A s \in Runs : s # r => ~Active(s)
      BY <3>1 DEF OneRun
    <3>5. UNCHANGED <<esVars, iovVars>>
      BY <2>4 DEF MasterEndRun
    <3>6. \A s \in Runs : pc'[s] # "open" /\ pc'[s] # "beginWait"
      BY <3>1, <3>3, <3>4
    <3> QED
      BY <3>2, <3>3, <3>5, <3>6
  <2>5. CASE MasterThrows
    BY <2>5 DEF MasterThrows
  <2>6. CASE MasterDestruct
    <3>1. /\ manager'.initialized = manager.initialized
          /\ manager'.world = manager.world /\ manager'.field = manager.field
      BY <2>6 DEF MasterDestruct, TerminateRun, GeantType, ManagerType
    <3> QED
      BY <2>6, <3>1 DEF MasterDestruct
  <2> QED
    BY <1>6, <2>1, <2>2, <2>3, <2>4, <2>5, <2>6 DEF MasterStep
<1>7. CASE SpuriousWakeup \/ UNCHANGED vars
  BY <1>7 DEF SpuriousWakeup, vars
<1> QED
  BY Steps, <1>1, <1>2, <1>3, <1>4, <1>5, <1>6, <1>7

\* With one open run at a time, events of an open run are simulated with Geant4
\* alive, in the geometry and the field of that run, whatever the records of the
\* other runs are and whichever of them readES refuses.
THEOREM OpenRunsAreReady == ASSUME MaxOpenRuns = 1 PROVE Safety => []OpenRunIsReady
<1>1. Init => OneRun /\ WorldInv
  <2> SUFFICES ASSUME Init PROVE OneRun /\ WorldInv
    OBVIOUS
  <2>1. \A r \in Runs : pc[r] = "idle"
    BY DEF Init
  <2> QED
    BY <2>1 DEF Init, OneRun, WorldInv, Active, Quiet, Refused, BeforeES, InGeometry, NewManager
<1>2. IInv /\ TypeOK' /\ OneRun /\ WorldInv /\ [Next]_vars => OneRun' /\ WorldInv'
  BY OneRunStep, WorldStep
<1>3. IInv /\ WorldInv => OpenRunIsReady
  <2> SUFFICES ASSUME IInv, WorldInv, NEW r \in Runs, pc[r] = "open"
        PROVE  /\ manager.initialized /\ manager.world = geomIOV[r] /\ isG4Alive
               /\ UseMagneticField => manager.field = magIOV[r]
    BY DEF OpenRunIsReady, OpenRunHasItsGeometry, OpenRunKeepsG4Alive
  <2>1. ~Refused
    BY DEF WorldInv, Quiet, Active
  <2> QED
    BY <2>1 DEF WorldInv, InGeometry
<1> QED
  BY <1>1, <1>2, <1>3, Typing, HandshakeInvariant, PTL DEF Safety

-------------------------------------------------------------------------------
(* Refinement: the threads implement G4RunService.                             *)

\* A step that changes run r's view only moves the service's call r.
LEMMA CallMoves ==
  ASSUME NEW r \in Runs, NEW from, NEW to, CallOf(r) = from, CallOf(r)' = to,
         \A s \in Runs \ {r} : CallOf(s)' = CallOf(s)
  PROVE  ServiceCall' = [ServiceCall EXCEPT ![r] = to] /\ ServiceCall[r] = from
  BY DEF ServiceCall

\* The service's view is a function of each run's own view.
LEMMA CallStays ==
  ASSUME \A s \in Runs : CallOf(s)' = CallOf(s)
  PROVE  ServiceCall' = ServiceCall
  BY DEF ServiceCall

\* The caller's steps inside its critical sections are invisible; readES may
\* refuse the run, and waking up with the answer returns the call.
LEMMA CallerImplements ==
  ASSUME IInv, ~terminated, NEW r \in Runs, Caller(r)
  PROVE  \/ Service!Refuse(r) \/ Service!Return(r) \/ UNCHANGED Service!vars
<1> USE DEF IInv, TypeOK, PcType, SyncType, Handshake, ProtectInv, ThreadMutexInv, LifeInv,
       CallOf, ServiceState, Goto, CallerPcs, OwnerPcs, MasterPcs, syncVars, esVars, iovVars, masterVars
<1>1. CASE Protect(r, "beginProtect", "beginLock")
  <2>1. \A s \in Runs : CallOf(s)' = CallOf(s)
    BY <1>1 DEF Protect
  <2>2. ServiceState' = ServiceState /\ isG4Alive' = isG4Alive
    BY <1>1 DEF Protect
  <2> QED
    BY <2>1, <2>2, CallStays DEF Service!vars
<1>2. CASE LockThread(r, "beginLock", "readES")
  <2>1. \A s \in Runs : CallOf(s)' = CallOf(s)
    BY <1>2 DEF LockThread
  <2>2. ServiceState' = ServiceState /\ isG4Alive' = isG4Alive
    BY <1>2 DEF LockThread
  <2> QED
    BY <2>1, <2>2, CallStays DEF Service!vars
<1>3. CASE BeginRequest(r)
  <2>1. \A s \in Runs : CallOf(s)' = CallOf(s)
    BY <1>3 DEF BeginRequest, Request, SignalMaster
  <2>2. ServiceState' = ServiceState /\ isG4Alive' = isG4Alive
    BY <1>3 DEF BeginRequest, Request, SignalMaster
  <2> QED
    BY <2>1, <2>2, CallStays DEF Service!vars
<1>4. CASE Protect(r, "endProtect", "endLock")
  <2>1. \A s \in Runs : CallOf(s)' = CallOf(s)
    BY <1>4 DEF Protect
  <2>2. ServiceState' = ServiceState /\ isG4Alive' = isG4Alive
    BY <1>4 DEF Protect
  <2> QED
    BY <2>1, <2>2, CallStays DEF Service!vars
<1>5. CASE LockThread(r, "endLock", "endRequest")
  <2>1. \A s \in Runs : CallOf(s)' = CallOf(s)
    BY <1>5 DEF LockThread
  <2>2. ServiceState' = ServiceState /\ isG4Alive' = isG4Alive
    BY <1>5 DEF LockThread
  <2> QED
    BY <2>1, <2>2, CallStays DEF Service!vars
<1>6. CASE EndRequest(r)
  <2>1. \A s \in Runs : CallOf(s)' = CallOf(s)
    BY <1>6 DEF EndRequest, Request, SignalMaster
  <2>2. ServiceState' = ServiceState /\ isG4Alive' = isG4Alive
    BY <1>6 DEF EndRequest, Request, SignalMaster
  <2> QED
    BY <2>1, <2>2, CallStays DEF Service!vars
<1>7. CASE ReadESThrows(r)
  <2>1. \A s \in Runs \ {r} : CallOf(s)' = CallOf(s)
    BY <1>7 DEF ReadESThrows
  <2>2. CallOf(r) = "beginCalled" /\ CallOf(r)' = "failed"
    BY <1>7 DEF ReadESThrows
  <2>3. ServiceState = "up" /\ ServiceState' = "up" /\ isG4Alive' = isG4Alive
    BY <1>7 DEF ReadESThrows, Quiet, Active, Joining
  <2>4. ServiceCall' = [ServiceCall EXCEPT ![r] = "failed"] /\ ServiceCall[r] = "beginCalled"
    BY <2>1, <2>2, CallMoves
  <2> QED
    BY <2>3, <2>4 DEF Service!Refuse, Service!Move
<1>8. CASE Return(r, "beginWait", "open")
  <2>1. ServiceState' = ServiceState /\ isG4Alive' = isG4Alive
    BY <1>8 DEF Return
  <2>2. CASE ~mainCanProceed
    <3>1. \A s \in Runs : CallOf(s)' = CallOf(s)
      BY <1>8, <2>2 DEF Return
    <3> QED
      BY <2>1, <3>1, CallStays DEF Service!vars
  <2>3. CASE mainCanProceed
    <3>1. \A s \in Runs \ {r} : CallOf(s)' = CallOf(s)
      BY <1>8, <2>3 DEF Return
    <3>2. CallOf(r) = "begun" /\ CallOf(r)' = "open"
      BY <1>8, <2>3 DEF Return
    <3>3. ServiceState = "up"
      BY <1>8 DEF Return, Quiet, Active, Joining
    <3>4. ServiceCall' = [ServiceCall EXCEPT ![r] = "open"] /\ ServiceCall[r] = "begun"
      BY <3>1, <3>2, CallMoves
    <3> QED
      BY <2>1, <3>3, <3>4 DEF Service!Return, Service!ReturnBegin, Service!Move
  <2> QED
    BY <2>2, <2>3
<1>9. CASE Return(r, "endWait", "closed")
  <2>1. ServiceState' = ServiceState /\ isG4Alive' = isG4Alive
    BY <1>9 DEF Return
  <2>2. CASE ~mainCanProceed
    <3>1. \A s \in Runs : CallOf(s)' = CallOf(s)
      BY <1>9, <2>2 DEF Return
    <3> QED
      BY <2>1, <3>1, CallStays DEF Service!vars
  <2>3. CASE mainCanProceed
    <3>1. \A s \in Runs \ {r} : CallOf(s)' = CallOf(s)
      BY <1>9, <2>3 DEF Return
    <3>2. CallOf(r) = "ended" /\ CallOf(r)' = "closed"
      BY <1>9, <2>3 DEF Return
    <3>3. ServiceState = "up"
      BY <1>9 DEF Return, Quiet, Active, Joining
    <3>4. ServiceCall' = [ServiceCall EXCEPT ![r] = "closed"] /\ ServiceCall[r] = "ended"
      BY <3>1, <3>2, CallMoves
    <3> QED
      BY <2>1, <3>3, <3>4 DEF Service!Return, Service!ReturnEnd, Service!Move
  <2> QED
    BY <2>2, <2>3
<1> QED
  BY <1>1, <1>2, <1>3, <1>4, <1>5, <1>6, <1>7, <1>8, <1>9 DEF Caller

\* The master serves the waiting caller: its answer takes the one call in
\* progress forward.
LEMMA MasterImplements ==
  ASSUME IInv, IInv', ~terminated, MasterStep
  PROVE  \/ \E r \in Runs : Service!Serve(r)
         \/ Service!Shutdown \/ Service!Crash \/ UNCHANGED Service!vars
<1> USE DEF IInv, TypeOK, PcType, SyncType, GeantType, Handshake, ProtectInv, RequestInv, LifeInv,
       Waiting, RequestOf, Joining, Quiet, Active,
       CallOf, ServiceState, Goto, CallerPcs, OwnerPcs, MasterPcs, syncVars, esVars, iovVars, masterVars
<1>1. CASE MasterStart
  <2>1. \A s \in Runs : CallOf(s)' = CallOf(s)
    BY <1>1 DEF MasterStart, LoopTop
  <2>2. ServiceState' = ServiceState /\ isG4Alive' = isG4Alive
    BY <1>1 DEF MasterStart, LoopTop
  <2> QED
    BY <2>1, <2>2, CallStays DEF Service!vars
<1>2. CASE MasterWake
  <2>1. \A s \in Runs : CallOf(s)' = CallOf(s)
    BY <1>2 DEF MasterWake
  <2>2. ServiceState' = ServiceState /\ isG4Alive' = isG4Alive
    BY <1>2 DEF MasterWake
  <2> QED
    BY <2>1, <2>2, CallStays DEF Service!vars
<1>3. CASE MasterBeginRun
  <2>1. PICK r \in Runs : pc[r] = "beginWait" /\ ~mainCanProceed /\ protectMutex = r
    BY <1>3 DEF MasterBeginRun
  <2>2. \A s \in Runs \ {r} : CallOf(s)' = CallOf(s)
    BY <1>3, <2>1 DEF MasterBeginRun, LoopTop
  <2>3. CallOf(r) = "beginCalled" /\ CallOf(r)' = "begun"
    BY <1>3, <2>1 DEF MasterBeginRun, LoopTop
  <2>4. ServiceState = "up" /\ ServiceState' = "up"
    BY <1>3 DEF MasterBeginRun, LoopTop
  <2>5. ServiceCall' = [ServiceCall EXCEPT ![r] = "begun"] /\ ServiceCall[r] = "beginCalled"
    BY <2>2, <2>3, CallMoves
  <2>6. Service!Begin(r)
    BY <1>3, <2>4, <2>5 DEF MasterBeginRun, NotAlive, Service!Begin, Service!Move
  <2> QED
    BY <2>6 DEF Service!Serve
<1>4. CASE MasterEndRun
  <2>1. PICK r \in Runs : pc[r] = "endWait" /\ ~mainCanProceed /\ protectMutex = r
    BY <1>4 DEF MasterEndRun
  <2>2. \A s \in Runs \ {r} : CallOf(s)' = CallOf(s)
    BY <1>4, <2>1 DEF MasterEndRun, LoopTop
  <2>3. CallOf(r) = "endCalled" /\ CallOf(r)' = "ended"
    BY <1>4, <2>1 DEF MasterEndRun, LoopTop
  <2>4. ServiceState = "up" /\ ServiceState' = "up"
    BY <1>4 DEF MasterEndRun, LoopTop
  <2>5. ServiceCall' = [ServiceCall EXCEPT ![r] = "ended"] /\ ServiceCall[r] = "endCalled"
    BY <2>2, <2>3, CallMoves
  <2>6. Service!End(r)
    BY <1>4, <2>4, <2>5 DEF MasterEndRun, NotAlive, Service!End, Service!Move
  <2> QED
    BY <2>6 DEF Service!Serve
<1>5. CASE MasterThrows
  <2>1. \A s \in Runs : CallOf(s)' = CallOf(s)
    BY <1>5 DEF MasterThrows
  <2>2. ServiceState = "up" /\ ServiceState' = "crashed" /\ isG4Alive' = isG4Alive
    BY <1>5 DEF MasterThrows
  <2>3. ~isG4Alive
    BY <1>5 DEF MasterThrows, AliveInv, BeingServed
  <2> QED
    BY <2>1, <2>2, <2>3, CallStays DEF Service!Crash
<1>6. CASE MasterDestruct
  <2>1. \A s \in Runs : CallOf(s)' = CallOf(s)
    BY <1>6 DEF MasterDestruct
  <2>2. ServiceState = "up" /\ ~isG4Alive /\ isG4Alive' = isG4Alive
    BY <1>6 DEF MasterDestruct
  <2>3. Joining
    BY <1>6 DEF MasterDestruct
  <2>4. \A s \in Runs : CallOf(s) \in {"idle", "failed", "closed"}
    BY <2>3
  <2>5. CASE terminated'
    BY <2>1, <2>2, <2>5, CallStays DEF Service!Crash
  <2>6. CASE ~terminated'
    <3>1. ServiceState' = "down"
      BY <1>6, <2>6 DEF MasterDestruct
    <3>2. \A s \in Runs : ServiceCall[s] \in {"idle", "failed", "closed"}
      BY <2>4 DEF ServiceCall
    <3> QED
      BY <2>1, <2>2, <3>1, <3>2, CallStays DEF Service!Shutdown, Service!InProgress
  <2> QED
    BY <2>5, <2>6
<1> QED
  BY <1>1, <1>2, <1>3, <1>4, <1>5, <1>6 DEF MasterStep

\* The framework's calls are the service's requests.
LEMMA FrameworkImplements ==
  ASSUME IInv, ~terminated, NEW r \in Runs, GlobalBeginRun(r) \/ GlobalEndRun(r)
  PROVE  Service!RequestBegin(r) \/ Service!RequestEnd(r)
<1> USE DEF IInv, TypeOK, PcType, Handshake, LifeInv,
       CallOf, ServiceState, Goto, CallerPcs, OwnerPcs, MasterPcs, syncVars, esVars, iovVars, masterVars
<1>1. CASE GlobalBeginRun(r)
  <2>1. /\ ServiceState = "up" /\ ServiceState' = "up" /\ isG4Alive' = isG4Alive
        /\ CallOf(r) = "idle" /\ CallOf(r)' = "beginCalled"
        /\ \A s \in Runs \ {r} : CallOf(s)' = CallOf(s)
    BY <1>1 DEF GlobalBeginRun, Joining
  <2>2. ServiceCall' = [ServiceCall EXCEPT ![r] = "beginCalled"] /\ ServiceCall[r] = "idle"
    BY <2>1, CallMoves
  <2> QED
    BY <2>1, <2>2 DEF Service!RequestBegin, Service!Move
<1>2. CASE GlobalEndRun(r)
  <2>1. /\ ServiceState = "up" /\ ServiceState' = "up" /\ isG4Alive' = isG4Alive
        /\ CallOf(r) = "open" /\ CallOf(r)' = "endCalled"
        /\ \A s \in Runs \ {r} : CallOf(s)' = CallOf(s)
    BY <1>2 DEF GlobalEndRun, Joining, Quiet, Active
  <2>2. ServiceCall' = [ServiceCall EXCEPT ![r] = "endCalled"] /\ ServiceCall[r] = "open"
    BY <2>1, CallMoves
  <2> QED
    BY <2>1, <2>2 DEF Service!RequestEnd, Service!Move
<1> QED
  BY <1>1, <1>2

\* What the owner does is invisible to the service: it is the master thread
\* that shuts it down.
LEMMA OwnerStutters ==
  ASSUME IInv, IInv', ~terminated, GlobalEndJob \/ DestructorCall \/ OwnerStep \/ SpuriousWakeup
  PROVE  UNCHANGED Service!vars
<1> USE DEF IInv, TypeOK, PcType, SyncType, Handshake, LifeInv, Joining,
       CallOf, ServiceState, Goto, CallerPcs, OwnerPcs, MasterPcs, syncVars, esVars, iovVars, masterVars
<1>1. ServiceState' = ServiceState /\ isG4Alive' = isG4Alive
  BY DEF GlobalEndJob, DestructorCall, OwnerStep, SpuriousWakeup, Construct, Constructed,
         StopRequest, Join, MembersDestroyed
<1>2. \A s \in Runs : CallOf(s)' = CallOf(s)
  BY DEF GlobalEndJob, DestructorCall, OwnerStep, SpuriousWakeup, Construct, Constructed,
         StopRequest, Join, MembersDestroyed
<1> QED
  BY <1>1, <1>2, CallStays DEF Service!vars

\* The handshake of mutexes, flags and condition variables implements the
\* service: every call is served exactly once between request and return.
THEOREM ImplementsService == Safety => ServiceSafety
<1>1. Init => Service!Init
  <2> SUFFICES ASSUME Init PROVE Service!Init
    OBVIOUS
  <2>1. \A r \in Runs : pc[r] = "idle" /\ pc[Master] = "unborn"
    BY DEF Init
  <2>2. ServiceCall = [r \in Runs |-> "idle"]
    BY <2>1 DEF ServiceCall, CallOf
  <2>3. ServiceState = "up" /\ isG4Alive = FALSE
    BY DEF Init, ServiceState
  <2> QED
    BY <2>2, <2>3 DEF Service!Init
<1>2. IInv /\ IInv' /\ [Next]_vars => [Service!Next]_(Service!vars)
  <2> SUFFICES ASSUME IInv, IInv', [Next]_vars PROVE [Service!Next]_(Service!vars)
    OBVIOUS
  <2>1. CASE UNCHANGED vars
    <3>1. ServiceState' = ServiceState /\ isG4Alive' = isG4Alive
      BY <2>1 DEF vars, masterVars, ServiceState
    <3>2. \A s \in Runs : CallOf(s)' = CallOf(s)
      BY <2>1 DEF vars, syncVars, CallOf
    <3> QED
      BY <3>1, <3>2, CallStays DEF Service!vars
  <2>2. ASSUME ~terminated, NEW r \in Runs, GlobalBeginRun(r) \/ GlobalEndRun(r) \/ Caller(r)
        PROVE  [Service!Next]_(Service!vars)
    BY <2>2, FrameworkImplements, CallerImplements DEF Service!Next, Service!Serve
  <2>3. ASSUME ~terminated, GlobalEndJob \/ DestructorCall \/ OwnerStep \/ SpuriousWakeup
        PROVE  [Service!Next]_(Service!vars)
    BY <2>3, OwnerStutters
  <2>4. ASSUME ~terminated, MasterStep PROVE [Service!Next]_(Service!vars)
    BY <2>4, MasterImplements DEF Service!Next
  <2> QED
    BY <2>1, <2>2, <2>3, <2>4 DEF Next, Done
<1> QED
  BY <1>1, <1>2, HandshakeInvariant, PTL DEF Safety, ServiceSafety, Service!Safety

===============================================================================
