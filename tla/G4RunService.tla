----------------------------- MODULE G4RunService -----------------------------
(* What the Geant4 master thread promises to the framework: a service that     *)
(* begins and ends runs one at a time.  A call takes effect exactly once,      *)
(* between its request and its return; a run that was refused (the geometry or *)
(* the magnetic field changed) never reaches Geant4; the service shuts down    *)
(* only when no call is in progress and Geant4 is not alive.  The threads,     *)
(* mutexes and condition variables of OscarMTMasterThread implement it.        *)
CONSTANT Runs

VARIABLES call,     \* call[r]: idle, beginCalled, begun, open or failed, endCalled, ended, closed
          g4Alive,  \* a run has been begun and not ended since
          service   \* "up", then "down" (orderly) or "crashed" (std::terminate)

vars == <<call, g4Alive, service>>

InProgress(r) == call[r] \in {"beginCalled", "begun", "endCalled", "ended"}

Init == /\ call = [r \in Runs |-> "idle"]
        /\ g4Alive = FALSE
        /\ service = "up"

Move(r, from, to) == /\ service = "up"
                     /\ call[r] = from
                     /\ call' = [call EXCEPT ![r] = to]
                     /\ service' = service

RequestBegin(r) == Move(r, "idle", "beginCalled") /\ g4Alive' = g4Alive
Begin(r)        == Move(r, "beginCalled", "begun") /\ g4Alive' = TRUE
Refuse(r)       == Move(r, "beginCalled", "failed") /\ g4Alive' = g4Alive
ReturnBegin(r)  == Move(r, "begun", "open") /\ g4Alive' = g4Alive
RequestEnd(r)   == Move(r, "open", "endCalled") /\ g4Alive' = g4Alive
End(r)          == Move(r, "endCalled", "ended") /\ g4Alive' = FALSE
ReturnEnd(r)    == Move(r, "ended", "closed") /\ g4Alive' = g4Alive

Shutdown == /\ service = "up"
            /\ ~g4Alive
            /\ \A r \in Runs : ~InProgress(r) /\ call[r] # "open"
            /\ service' = "down"
            /\ UNCHANGED <<call, g4Alive>>

\* Geant4 may fail to initialise for the first run; a service that never began
\* a run may also die while it is being destroyed.
Crash == /\ service = "up"
         /\ ~g4Alive
         /\ service' = "crashed"
         /\ UNCHANGED <<call, g4Alive>>

Serve(r)  == Begin(r) \/ Refuse(r) \/ End(r)
Return(r) == ReturnBegin(r) \/ ReturnEnd(r)

Next == \/ \E r \in Runs : RequestBegin(r) \/ RequestEnd(r) \/ Serve(r) \/ Return(r)
        \/ Shutdown
        \/ Crash

Safety == Init /\ [][Next]_vars

\* Every request is served and answered, unless the process dies.
Fairness == \A r \in Runs : WF_vars(Serve(r)) /\ WF_vars(Return(r))

Spec == Safety /\ Fairness
===============================================================================
