------------------------ MODULE StopLifecycleProofs -------------------------
(***************************************************************************)
(* Theorems about StopLifecycle for every set of stops, requests, hazards  *)
(* and photo kinds.  The invariants are proved in layers, each by          *)
(* induction over Next with the layers before it as known facts.           *)
(***************************************************************************)
EXTENDS StopLifecycle, TLAPS

(* Every value has its type, and exactly the idle slots have no target.    *)
LEMMA TypeInit == Init => TypeOK
<1> SUFFICES ASSUME Init PROVE TypeOK
    OBVIOUS
<1>1. /\ status \in [Stop -> StopStatus]
      /\ visit \in [Stop -> Visit]
      /\ effort \in [Stop -> EffortRow]
      /\ runStatus \in RunStatus
      /\ finishedAt \in BOOLEAN
    BY DEF Init, StopStatus, Visit, EffortRow, RunStatus
<1>2. /\ evidence \in [Stop -> SUBSET Kind]
      /\ hazards \in [Stop -> SUBSET Hazard]
    BY DEF Init
<1>3. /\ pc \in [Request -> Pc]
      /\ target \in [Request -> Stop \union {NoStop}]
      /\ given \in [Request -> SUBSET Hazard]
      /\ draft \in [Request -> EffortRow]
    BY DEF Init, Pc, EffortRow
<1>4. \A r \in Request : target[r] = NoStop <=> pc[r] = "idle"
    BY DEF Init
<1>5. QED
    BY <1>1, <1>2, <1>3, <1>4 DEF TypeOK

(* No step breaks the types, nor leaves a target in an idle slot.          *)
LEMMA TypeStep == TypeOK /\ [Next]_vars => TypeOK'
<1> SUFFICES ASSUME TypeOK, [Next]_vars PROVE TypeOK'
    OBVIOUS
<1> USE DEF TypeOK, StopStatus, Visit, EffortRow, RunStatus, Pc, StartPc, SkipPc,
            CompletePc, database, request, Goto, Answer
<1>1. ASSUME NEW r \in Request, NEW s \in Stop, Arrive(r, s) PROVE TypeOK'
    BY <1>1, StopAssumption, ReportedAssumption DEF Arrive
<1>2. ASSUME NEW r \in Request, StartUpdate(r) PROVE TypeOK'
    BY <1>2 DEF StartUpdate
<1>3. ASSUME NEW r \in Request, StartCommit(r) PROVE TypeOK'
    BY <1>3 DEF StartCommit, EnsureVisit
<1>4. ASSUME NEW r \in Request, StartLookup(r) PROVE TypeOK'
    BY <1>4 DEF StartLookup
<1>5. ASSUME NEW r \in Request, PhotoInsert(r) PROVE TypeOK'
    BY <1>5 DEF PhotoInsert
<1>6. ASSUME NEW r \in Request, SkipCount(r) PROVE TypeOK'
    BY <1>6 DEF SkipCount
<1>7. ASSUME NEW r \in Request, SkipLookup(r) PROVE TypeOK'
    BY <1>7 DEF SkipLookup
<1>8. ASSUME NEW r \in Request, SkipUpdate(r) PROVE TypeOK'
    BY <1>8 DEF SkipUpdate
<1>9. ASSUME NEW r \in Request, SkipCommit(r) PROVE TypeOK'
    BY <1>9 DEF SkipCommit, CloseVisit, EnsureVisit
<1>10. ASSUME NEW r \in Request, SkipEmit(r) PROVE TypeOK'
    BY <1>10 DEF SkipEmit
<1>11. ASSUME NEW r \in Request, SkipCheck(r) PROVE TypeOK'
    BY <1>11 DEF SkipCheck
<1>12. ASSUME NEW r \in Request, SkipFinish(r) PROVE TypeOK'
    BY <1>12 DEF SkipFinish
<1>13. ASSUME NEW r \in Request, CompleteCount(r) PROVE TypeOK'
    BY <1>13 DEF CompleteCount
<1>14. ASSUME NEW r \in Request, CompleteLock(r) PROVE TypeOK'
    BY <1>14 DEF CompleteLock
<1>15. ASSUME NEW r \in Request, CompleteWork(r) PROVE TypeOK'
    BY <1>15 DEF CompleteWork
<1>16. ASSUME NEW r \in Request, CompleteFinish(r) PROVE TypeOK'
    BY <1>16 DEF CompleteFinish
<1>17. ASSUME NEW r \in Request, CompleteCommit(r) PROVE TypeOK'
    BY <1>17 DEF CompleteCommit, CloseVisit, EnsureVisit
<1>18. ASSUME NEW r \in Request, Abort(r) PROVE TypeOK'
    BY <1>18 DEF Abort
<1>19. ASSUME StartRun PROVE TypeOK'
    BY <1>19 DEF StartRun
<1>20. ASSUME FinishRun PROVE TypeOK'
    BY <1>20 DEF FinishRun
<1>21. ASSUME UNCHANGED vars PROVE TypeOK'
    BY <1>21 DEF vars
<1>22. ASSUME NEW r \in Request, SkipConnect(r) PROVE TypeOK'
    BY <1>22 DEF SkipConnect
<1>23. ASSUME NEW r \in Request, SkipReload(r) PROVE TypeOK'
    BY <1>23 DEF SkipReload
<1>24. ASSUME NEW r \in Request, CompleteConnect(r) PROVE TypeOK'
    BY <1>24 DEF CompleteConnect
<1> HIDE DEF TypeOK
<1>25. QED
    BY <1>1, <1>2, <1>3, <1>4, <1>5, <1>6, <1>7, <1>8, <1>9, <1>10, <1>11, <1>12,
       <1>13, <1>14, <1>15, <1>16, <1>17, <1>18, <1>19, <1>20, <1>21,
       <1>22, <1>23, <1>24
       DEF Next, Handler, StartStep, SkipStep, CompleteStep

THEOREM TypeCorrect == Spec => []TypeOK
  BY TypeInit, TypeStep, PTL DEF Spec

(* Two transactions never hold the same stop's row: whoever enters the     *)
(* critical section found the row free.                                    *)
LEMMA OneLockHolderStep ==
    TypeOK /\ OneLockHolder /\ [Next]_vars => OneLockHolder'
<1> SUFFICES ASSUME TypeOK, OneLockHolder, [Next]_vars PROVE OneLockHolder'
    OBVIOUS
<1> USE DEF TypeOK, OneLockHolder, StopLocking, CompleteTxn, StopFree, Pc, database,
            request, Goto, Answer
<1>1. ASSUME NEW r \in Request, NEW s \in Stop, Arrive(r, s) PROVE OneLockHolder'
    BY <1>1 DEF Arrive
<1>2. ASSUME NEW r \in Request, StartUpdate(r) PROVE OneLockHolder'
    BY <1>2 DEF StartUpdate
<1>3. ASSUME NEW r \in Request, StartCommit(r) PROVE OneLockHolder'
    BY <1>3 DEF StartCommit, EnsureVisit
<1>4. ASSUME NEW r \in Request, StartLookup(r) PROVE OneLockHolder'
    BY <1>4 DEF StartLookup
<1>5. ASSUME NEW r \in Request, PhotoInsert(r) PROVE OneLockHolder'
    BY <1>5 DEF PhotoInsert
<1>6. ASSUME NEW r \in Request, SkipCount(r) PROVE OneLockHolder'
    BY <1>6 DEF SkipCount
<1>7. ASSUME NEW r \in Request, SkipLookup(r) PROVE OneLockHolder'
    BY <1>7 DEF SkipLookup
<1>8. ASSUME NEW r \in Request, SkipUpdate(r) PROVE OneLockHolder'
    BY <1>8 DEF SkipUpdate
<1>9. ASSUME NEW r \in Request, SkipCommit(r) PROVE OneLockHolder'
    BY <1>9 DEF SkipCommit, CloseVisit, EnsureVisit
<1>10. ASSUME NEW r \in Request, SkipEmit(r) PROVE OneLockHolder'
    BY <1>10 DEF SkipEmit
<1>11. ASSUME NEW r \in Request, SkipCheck(r) PROVE OneLockHolder'
    BY <1>11 DEF SkipCheck
<1>12. ASSUME NEW r \in Request, SkipFinish(r) PROVE OneLockHolder'
    BY <1>12 DEF SkipFinish
<1>13. ASSUME NEW r \in Request, CompleteCount(r) PROVE OneLockHolder'
    BY <1>13 DEF CompleteCount
<1>14. ASSUME NEW r \in Request, CompleteLock(r) PROVE OneLockHolder'
    BY <1>14 DEF CompleteLock
<1>15. ASSUME NEW r \in Request, CompleteWork(r) PROVE OneLockHolder'
    BY <1>15 DEF CompleteWork
<1>16. ASSUME NEW r \in Request, CompleteFinish(r) PROVE OneLockHolder'
    BY <1>16 DEF CompleteFinish
<1>17. ASSUME NEW r \in Request, CompleteCommit(r) PROVE OneLockHolder'
    BY <1>17 DEF CompleteCommit, CloseVisit, EnsureVisit
<1>18. ASSUME NEW r \in Request, Abort(r) PROVE OneLockHolder'
    BY <1>18 DEF Abort
<1>19. ASSUME StartRun PROVE OneLockHolder'
    BY <1>19 DEF StartRun
<1>20. ASSUME FinishRun PROVE OneLockHolder'
    BY <1>20 DEF FinishRun
<1>21. ASSUME UNCHANGED vars PROVE OneLockHolder'
    BY <1>21 DEF vars
<1>22. ASSUME NEW r \in Request, SkipConnect(r) PROVE OneLockHolder'
    BY <1>22 DEF SkipConnect
<1>23. ASSUME NEW r \in Request, SkipReload(r) PROVE OneLockHolder'
    BY <1>23 DEF SkipReload
<1>24. ASSUME NEW r \in Request, CompleteConnect(r) PROVE OneLockHolder'
    BY <1>24 DEF CompleteConnect
<1> HIDE DEF TypeOK, OneLockHolder
<1>25. QED
    BY <1>1, <1>2, <1>3, <1>4, <1>5, <1>6, <1>7, <1>8, <1>9, <1>10, <1>11,
       <1>12, <1>13, <1>14, <1>15, <1>16, <1>17, <1>18, <1>19, <1>20, <1>21,
       <1>22, <1>23, <1>24
       DEF Next, Handler, StartStep, SkipStep, CompleteStep

(* The stop, its visit and its photos, with what the handlers under way    *)
(* have found out about them.                                              *)
StopInv == /\ VisitMirrorsStop
           /\ EvidenceHasVisit
           /\ CheckedPhotoExists
           /\ LockedReadStillHolds

(* No step breaks the layer of the stop: commits find what the lock kept.  *)
LEMMA StopInvStep ==
    TypeOK /\ OneLockHolder /\ StopInv /\ [Next]_vars => StopInv'
<1> SUFFICES ASSUME TypeOK, OneLockHolder, StopInv, [Next]_vars PROVE StopInv'
    OBVIOUS
<1> USE DEF TypeOK, OneLockHolder, StopInv, VisitMirrorsStop, EvidenceHasVisit,
            CheckedPhotoExists, LockedReadStillHolds, PastPhotoCheck, StopLocking,
            CompleteTxn, StopFree, Terminal, StopStatus, Visit, database, request, Goto,
            Answer
<1>1. ASSUME NEW r \in Request, NEW s \in Stop, Arrive(r, s) PROVE StopInv'
    BY <1>1 DEF Arrive
<1>2. ASSUME NEW r \in Request, StartUpdate(r) PROVE StopInv'
    BY <1>2 DEF StartUpdate
<1>3. ASSUME NEW r \in Request, StartCommit(r) PROVE StopInv'
    BY <1>3 DEF StartCommit, EnsureVisit
<1>4. ASSUME NEW r \in Request, StartLookup(r) PROVE StopInv'
    BY <1>4 DEF StartLookup
<1>5. ASSUME NEW r \in Request, PhotoInsert(r) PROVE StopInv'
    BY <1>5 DEF PhotoInsert
<1>6. ASSUME NEW r \in Request, SkipCount(r) PROVE StopInv'
    BY <1>6 DEF SkipCount
<1>7. ASSUME NEW r \in Request, SkipLookup(r) PROVE StopInv'
    BY <1>7 DEF SkipLookup
<1>8. ASSUME NEW r \in Request, SkipUpdate(r) PROVE StopInv'
    BY <1>8 DEF SkipUpdate
<1>9. ASSUME NEW r \in Request, SkipCommit(r) PROVE StopInv'
    BY <1>9 DEF SkipCommit, CloseVisit, EnsureVisit
<1>10. ASSUME NEW r \in Request, SkipEmit(r) PROVE StopInv'
    BY <1>10 DEF SkipEmit
<1>11. ASSUME NEW r \in Request, SkipCheck(r) PROVE StopInv'
    BY <1>11 DEF SkipCheck
<1>12. ASSUME NEW r \in Request, SkipFinish(r) PROVE StopInv'
    BY <1>12 DEF SkipFinish
<1>13. ASSUME NEW r \in Request, CompleteCount(r) PROVE StopInv'
    BY <1>13 DEF CompleteCount
<1>14. ASSUME NEW r \in Request, CompleteLock(r) PROVE StopInv'
    BY <1>14 DEF CompleteLock
<1>15. ASSUME NEW r \in Request, CompleteWork(r) PROVE StopInv'
    BY <1>15 DEF CompleteWork
<1>16. ASSUME NEW r \in Request, CompleteFinish(r) PROVE StopInv'
    BY <1>16 DEF CompleteFinish
<1>17. ASSUME NEW r \in Request, CompleteCommit(r) PROVE StopInv'
    BY <1>17 DEF CompleteCommit, CloseVisit, EnsureVisit
<1>18. ASSUME NEW r \in Request, Abort(r) PROVE StopInv'
    BY <1>18 DEF Abort
<1>19. ASSUME StartRun PROVE StopInv'
    BY <1>19 DEF StartRun
<1>20. ASSUME FinishRun PROVE StopInv'
    BY <1>20 DEF FinishRun
<1>21. ASSUME UNCHANGED vars PROVE StopInv'
    BY <1>21 DEF vars
<1>22. ASSUME NEW r \in Request, SkipConnect(r) PROVE StopInv'
    BY <1>22 DEF SkipConnect
<1>23. ASSUME NEW r \in Request, SkipReload(r) PROVE StopInv'
    BY <1>23 DEF SkipReload
<1>24. ASSUME NEW r \in Request, CompleteConnect(r) PROVE StopInv'
    BY <1>24 DEF CompleteConnect
<1> HIDE DEF TypeOK, OneLockHolder, StopInv
<1>25. QED
    BY <1>1, <1>2, <1>3, <1>4, <1>5, <1>6, <1>7, <1>8, <1>9, <1>10, <1>11,
       <1>12, <1>13, <1>14, <1>15, <1>16, <1>17, <1>18, <1>19, <1>20, <1>21,
       <1>22, <1>23, <1>24
       DEF Next, Handler, StartStep, SkipStep, CompleteStep

(* What a step may do to the status of a stop: pending stops are only      *)
(* started, and a stop that was done or skipped stays one of the two.      *)
StatusStep ==
    \A s \in Stop :
        /\ status[s] = "pending" => status'[s] \in {"pending", "in_progress"}
        /\ status[s] \in Terminal => status'[s] \in Terminal

(* Every step of the handlers is such a step.                              *)
LEMMA StatusStepHolds == TypeOK /\ StopInv /\ [Next]_vars => StatusStep
<1> SUFFICES ASSUME TypeOK, StopInv, [Next]_vars PROVE StatusStep
    OBVIOUS
<1> USE DEF TypeOK, StopInv, VisitMirrorsStop, EvidenceHasVisit, CheckedPhotoExists,
            LockedReadStillHolds, PastPhotoCheck, CompleteTxn, StatusStep, Terminal,
            StopStatus, database
<1>1. ASSUME NEW r \in Request, NEW s \in Stop, Arrive(r, s) PROVE StatusStep
    BY <1>1 DEF Arrive
<1>2. ASSUME NEW r \in Request, StartUpdate(r) PROVE StatusStep
    BY <1>2 DEF StartUpdate
<1>3. ASSUME NEW r \in Request, StartCommit(r) PROVE StatusStep
    BY <1>3 DEF StartCommit, EnsureVisit
<1>4. ASSUME NEW r \in Request, StartLookup(r) PROVE StatusStep
    BY <1>4 DEF StartLookup
<1>5. ASSUME NEW r \in Request, PhotoInsert(r) PROVE StatusStep
    BY <1>5 DEF PhotoInsert
<1>6. ASSUME NEW r \in Request, SkipCount(r) PROVE StatusStep
    BY <1>6 DEF SkipCount
<1>7. ASSUME NEW r \in Request, SkipLookup(r) PROVE StatusStep
    BY <1>7 DEF SkipLookup
<1>8. ASSUME NEW r \in Request, SkipUpdate(r) PROVE StatusStep
    BY <1>8 DEF SkipUpdate
<1>9. ASSUME NEW r \in Request, SkipCommit(r) PROVE StatusStep
    BY <1>9 DEF SkipCommit, CloseVisit, EnsureVisit
<1>10. ASSUME NEW r \in Request, SkipEmit(r) PROVE StatusStep
    BY <1>10 DEF SkipEmit
<1>11. ASSUME NEW r \in Request, SkipCheck(r) PROVE StatusStep
    BY <1>11 DEF SkipCheck
<1>12. ASSUME NEW r \in Request, SkipFinish(r) PROVE StatusStep
    BY <1>12 DEF SkipFinish
<1>13. ASSUME NEW r \in Request, CompleteCount(r) PROVE StatusStep
    BY <1>13 DEF CompleteCount
<1>14. ASSUME NEW r \in Request, CompleteLock(r) PROVE StatusStep
    BY <1>14 DEF CompleteLock
<1>15. ASSUME NEW r \in Request, CompleteWork(r) PROVE StatusStep
    BY <1>15 DEF CompleteWork
<1>16. ASSUME NEW r \in Request, CompleteFinish(r) PROVE StatusStep
    BY <1>16 DEF CompleteFinish
<1>17. ASSUME NEW r \in Request, CompleteCommit(r) PROVE StatusStep
    BY <1>17 DEF CompleteCommit, CloseVisit, EnsureVisit
<1>18. ASSUME NEW r \in Request, Abort(r) PROVE StatusStep
    BY <1>18 DEF Abort
<1>19. ASSUME StartRun PROVE StatusStep
    BY <1>19 DEF StartRun
<1>20. ASSUME FinishRun PROVE StatusStep
    BY <1>20 DEF FinishRun
<1>21. ASSUME UNCHANGED vars PROVE StatusStep
    BY <1>21 DEF vars
<1>22. ASSUME NEW r \in Request, SkipConnect(r) PROVE StatusStep
    BY <1>22 DEF SkipConnect
<1>23. ASSUME NEW r \in Request, SkipReload(r) PROVE StatusStep
    BY <1>23 DEF SkipReload
<1>24. ASSUME NEW r \in Request, CompleteConnect(r) PROVE StatusStep
    BY <1>24 DEF CompleteConnect
<1> HIDE DEF TypeOK, StopInv, StatusStep
<1>25. QED
    BY <1>1, <1>2, <1>3, <1>4, <1>5, <1>6, <1>7, <1>8, <1>9, <1>10, <1>11,
       <1>12, <1>13, <1>14, <1>15, <1>16, <1>17, <1>18, <1>19, <1>20, <1>21,
       <1>22, <1>23, <1>24
       DEF Next, Handler, StartStep, SkipStep, CompleteStep

(* The decision to close a run.                                            *)
RunInv == /\ CountStillHolds
          /\ RunLockHolder
          /\ FinishedRunIsAllTerminal

(* A count of terminal stops stays right: no step re-opens one.            *)
LEMMA RunInvStep ==
    TypeOK /\ StopInv /\ RunInv /\ [Next]_vars => RunInv'
<1> SUFFICES ASSUME TypeOK, StopInv, RunInv, [Next]_vars PROVE RunInv'
    OBVIOUS
<1>0. StatusStep
    BY StatusStepHolds
<1> USE <1>0 DEF StatusStep, TypeOK, RunInv, CountStillHolds, RunLockHolder,
            FinishedRunIsAllTerminal, AllTerminal, RunFree, Terminal, StopStatus,
            database, request, Goto, Answer
<1>1. ASSUME NEW r \in Request, NEW s \in Stop, Arrive(r, s) PROVE RunInv'
    BY <1>1 DEF Arrive
<1>2. ASSUME NEW r \in Request, StartUpdate(r) PROVE RunInv'
    BY <1>2 DEF StartUpdate
<1>3. ASSUME NEW r \in Request, StartCommit(r) PROVE RunInv'
    BY <1>3 DEF StartCommit, EnsureVisit
<1>4. ASSUME NEW r \in Request, StartLookup(r) PROVE RunInv'
    BY <1>4 DEF StartLookup
<1>5. ASSUME NEW r \in Request, PhotoInsert(r) PROVE RunInv'
    BY <1>5 DEF PhotoInsert
<1>6. ASSUME NEW r \in Request, SkipCount(r) PROVE RunInv'
    BY <1>6 DEF SkipCount
<1>7. ASSUME NEW r \in Request, SkipLookup(r) PROVE RunInv'
    BY <1>7 DEF SkipLookup
<1>8. ASSUME NEW r \in Request, SkipUpdate(r) PROVE RunInv'
    BY <1>8 DEF SkipUpdate
<1>9. ASSUME NEW r \in Request, SkipCommit(r) PROVE RunInv'
    BY <1>9 DEF SkipCommit, CloseVisit, EnsureVisit
<1>10. ASSUME NEW r \in Request, SkipEmit(r) PROVE RunInv'
    BY <1>10 DEF SkipEmit
<1>11. ASSUME NEW r \in Request, SkipCheck(r) PROVE RunInv'
    BY <1>11 DEF SkipCheck
<1>12. ASSUME NEW r \in Request, SkipFinish(r) PROVE RunInv'
    BY <1>12 DEF SkipFinish
<1>13. ASSUME NEW r \in Request, CompleteCount(r) PROVE RunInv'
    BY <1>13 DEF CompleteCount
<1>14. ASSUME NEW r \in Request, CompleteLock(r) PROVE RunInv'
    BY <1>14 DEF CompleteLock
<1>15. ASSUME NEW r \in Request, CompleteWork(r) PROVE RunInv'
    BY <1>15 DEF CompleteWork
<1>16. ASSUME NEW r \in Request, CompleteFinish(r) PROVE RunInv'
    BY <1>16 DEF CompleteFinish
<1>17. ASSUME NEW r \in Request, CompleteCommit(r) PROVE RunInv'
    BY <1>17 DEF CompleteCommit, CloseVisit, EnsureVisit
<1>18. ASSUME NEW r \in Request, Abort(r) PROVE RunInv'
    BY <1>18 DEF Abort
<1>19. ASSUME StartRun PROVE RunInv'
    BY <1>19 DEF StartRun
<1>20. ASSUME FinishRun PROVE RunInv'
    BY <1>20 DEF FinishRun
<1>21. ASSUME UNCHANGED vars PROVE RunInv'
    BY <1>21 DEF vars
<1>22. ASSUME NEW r \in Request, SkipConnect(r) PROVE RunInv'
    BY <1>22 DEF SkipConnect
<1>23. ASSUME NEW r \in Request, SkipReload(r) PROVE RunInv'
    BY <1>23 DEF SkipReload
<1>24. ASSUME NEW r \in Request, CompleteConnect(r) PROVE RunInv'
    BY <1>24 DEF CompleteConnect
<1> HIDE DEF TypeOK, RunInv, StatusStep
<1>25. QED
    BY <1>1, <1>2, <1>3, <1>4, <1>5, <1>6, <1>7, <1>8, <1>9, <1>10, <1>11,
       <1>12, <1>13, <1>14, <1>15, <1>16, <1>17, <1>18, <1>19, <1>20, <1>21,
       <1>22, <1>23, <1>24
       DEF Next, Handler, StartStep, SkipStep, CompleteStep

(* The proof a done stop leaves behind.                                    *)
RecordInv == DoneStopHasRecord /\ DraftReady

(* Photos and effort rows are never taken back.                            *)
LEMMA RecordInvStep ==
    TypeOK /\ StopInv /\ RecordInv /\ [Next]_vars => RecordInv'
<1> SUFFICES ASSUME TypeOK, StopInv, RecordInv, [Next]_vars PROVE RecordInv'
    OBVIOUS
<1> USE DEF TypeOK, StopInv, CheckedPhotoExists, PastPhotoCheck, RecordInv,
            DoneStopHasRecord, DraftReady, CompleteTxn, database, request, Goto, Answer
<1>1. ASSUME NEW r \in Request, NEW s \in Stop, Arrive(r, s) PROVE RecordInv'
    BY <1>1 DEF Arrive
<1>2. ASSUME NEW r \in Request, StartUpdate(r) PROVE RecordInv'
    BY <1>2 DEF StartUpdate
<1>3. ASSUME NEW r \in Request, StartCommit(r) PROVE RecordInv'
    BY <1>3 DEF StartCommit, EnsureVisit
<1>4. ASSUME NEW r \in Request, StartLookup(r) PROVE RecordInv'
    BY <1>4 DEF StartLookup
<1>5. ASSUME NEW r \in Request, PhotoInsert(r) PROVE RecordInv'
    BY <1>5 DEF PhotoInsert
<1>6. ASSUME NEW r \in Request, SkipCount(r) PROVE RecordInv'
    BY <1>6 DEF SkipCount
<1>7. ASSUME NEW r \in Request, SkipLookup(r) PROVE RecordInv'
    BY <1>7 DEF SkipLookup
<1>8. ASSUME NEW r \in Request, SkipUpdate(r) PROVE RecordInv'
    BY <1>8 DEF SkipUpdate
<1>9. ASSUME NEW r \in Request, SkipCommit(r) PROVE RecordInv'
    BY <1>9 DEF SkipCommit, CloseVisit, EnsureVisit
<1>10. ASSUME NEW r \in Request, SkipEmit(r) PROVE RecordInv'
    BY <1>10 DEF SkipEmit
<1>11. ASSUME NEW r \in Request, SkipCheck(r) PROVE RecordInv'
    BY <1>11 DEF SkipCheck
<1>12. ASSUME NEW r \in Request, SkipFinish(r) PROVE RecordInv'
    BY <1>12 DEF SkipFinish
<1>13. ASSUME NEW r \in Request, CompleteCount(r) PROVE RecordInv'
    BY <1>13 DEF CompleteCount
<1>14. ASSUME NEW r \in Request, CompleteLock(r) PROVE RecordInv'
    BY <1>14 DEF CompleteLock
<1>15. ASSUME NEW r \in Request, CompleteWork(r) PROVE RecordInv'
    BY <1>15 DEF CompleteWork
<1>16. ASSUME NEW r \in Request, CompleteFinish(r) PROVE RecordInv'
    BY <1>16 DEF CompleteFinish
<1>17. ASSUME NEW r \in Request, CompleteCommit(r) PROVE RecordInv'
    BY <1>17 DEF CompleteCommit, CloseVisit, EnsureVisit
<1>18. ASSUME NEW r \in Request, Abort(r) PROVE RecordInv'
    BY <1>18 DEF Abort
<1>19. ASSUME StartRun PROVE RecordInv'
    BY <1>19 DEF StartRun
<1>20. ASSUME FinishRun PROVE RecordInv'
    BY <1>20 DEF FinishRun
<1>21. ASSUME UNCHANGED vars PROVE RecordInv'
    BY <1>21 DEF vars
<1>22. ASSUME NEW r \in Request, SkipConnect(r) PROVE RecordInv'
    BY <1>22 DEF SkipConnect
<1>23. ASSUME NEW r \in Request, SkipReload(r) PROVE RecordInv'
    BY <1>23 DEF SkipReload
<1>24. ASSUME NEW r \in Request, CompleteConnect(r) PROVE RecordInv'
    BY <1>24 DEF CompleteConnect
<1> HIDE DEF TypeOK, StopInv, RecordInv
<1>25. QED
    BY <1>1, <1>2, <1>3, <1>4, <1>5, <1>6, <1>7, <1>8, <1>9, <1>10, <1>11,
       <1>12, <1>13, <1>14, <1>15, <1>16, <1>17, <1>18, <1>19, <1>20, <1>21,
       <1>22, <1>23, <1>24
       DEF Next, Handler, StartStep, SkipStep, CompleteStep

(* The inductive invariant: every layer above.                             *)
IInv == TypeOK /\ OneLockHolder /\ StopInv /\ RunInv /\ RecordInv

(* A run just created satisfies every layer.                               *)
LEMMA IInvInit == Init => IInv
<1> SUFFICES ASSUME Init PROVE IInv
    OBVIOUS
<1>1. OneLockHolder
    BY DEF Init, OneLockHolder, StopLocking, CompleteTxn
<1>2. StopInv
    BY DEF Init, StopInv, VisitMirrorsStop, EvidenceHasVisit, CheckedPhotoExists,
           LockedReadStillHolds, PastPhotoCheck, CompleteTxn
<1>3. RunInv
    BY DEF Init, RunInv, CountStillHolds, RunLockHolder, FinishedRunIsAllTerminal
<1>4. RecordInv
    BY DEF Init, RecordInv, DoneStopHasRecord, DraftReady, CompleteTxn
<1>5. QED
    BY <1>1, <1>2, <1>3, <1>4, TypeInit DEF IInv

(* Each layer is kept with the help of those before it.                    *)
LEMMA IInvStep == IInv /\ [Next]_vars => IInv'
  BY TypeStep, OneLockHolderStep, StopInvStep, RunInvStep, RecordInvStep DEF IInv

(* The layers hold in every reachable state.                               *)
LEMMA IInvHolds == Spec => []IInv
  BY IInvInit, IInvStep, PTL DEF Spec

(* No visit before a stop is started, an open one while it is in progress, *)
(* a closed one once it is done or skipped: the separate statements of     *)
(* start, skip and complete never leave the two rows apart.                *)
THEOREM VisitCorrect == Spec => []VisitMirrorsStop
<1>1. IInv => VisitMirrorsStop
    BY DEF IInv, StopInv
<1>2. QED
    BY <1>1, IInvHolds, PTL

(* A completion or start commits over the status it checked, although skip *)
(* checks without a lock: FOR UPDATE and the conditional UPDATE suffice.   *)
THEOREM LockCorrect == Spec => []LockedReadStillHolds
<1>1. IInv => LockedReadStillHolds
    BY DEF IInv, StopInv
<1>2. QED
    BY <1>1, IInvHolds, PTL

(* A run closed by checkAndCompleteRouteRun has no stop left to do.        *)
THEOREM FinishCorrect == Spec => []FinishedRunIsAllTerminal
<1>1. IInv => FinishedRunIsAllTerminal
    BY DEF IInv, RunInv
<1>2. QED
    BY <1>1, IInvHolds, PTL

(* A done stop has a photo and an effort row.                              *)
THEOREM RecordCorrect == Spec => []DoneStopHasRecord
<1>1. IInv => DoneStopHasRecord
    BY DEF IInv, RecordInv
<1>2. QED
    BY <1>1, IInvHolds, PTL

(* A stop is serviced or skipped only after a start.                       *)
THEOREM StartedFirst == Spec => StartedBeforeServiced
<1>1. IInv /\ [Next]_vars =>
        [\A s \in Stop : status[s] = "pending" =>
             status'[s] \in {"pending", "in_progress"}]_status
    BY StatusStepHolds DEF IInv, StatusStep
<1>2. QED
    BY <1>1, IInvHolds, PTL DEF Spec, StartedBeforeServiced

(* A stop that was done or skipped is never re-opened.                     *)
THEOREM TerminalStays == Spec => TerminalIsForever
<1>1. IInv /\ [Next]_vars =>
        [\A s \in Stop : status[s] \in Terminal =>
             status'[s] \in Terminal]_status
    BY StatusStepHolds DEF IInv, StatusStep
<1>2. QED
    BY <1>1, IInvHolds, PTL DEF Spec, TerminalIsForever

-----------------------------------------------------------------------------
(* Refinement.  Start, skip and complete take effect at their commits, the *)
(* closing of a run at skip_finish or at the commit of the completion that *)
(* holds the run's lock; every other step is a stutter of StopRecord.      *)

(* A run just created is one of StopRecord.                                *)
LEMMA RecordInit == Init => Record!Init
  BY DEF Init, Record!Init

(* The commit of a start is StopRecord's Start.                            *)
LEMMA StartCommitRefines ==
    ASSUME IInv, NEW r \in Request, StartCommit(r)
    PROVE  Record!Start(target[r])
<1>1. /\ status[target[r]] = "pending"
      /\ target[r] \in Stop
    BY DEF IInv, TypeOK, StopInv, LockedReadStillHolds, StartCommit
<1>2. visit[target[r]] = "none"
    BY <1>1 DEF IInv, StopInv, VisitMirrorsStop
<1>3. QED
    BY <1>1, <1>2 DEF StartCommit, EnsureVisit, Record!Start, IInv, TypeOK

(* The commit of a skip is StopRecord's Skip.                              *)
LEMMA SkipCommitRefines ==
    ASSUME IInv, NEW r \in Request, SkipCommit(r)
    PROVE  Record!Skip(target[r])
<1>1. /\ evidence[target[r]] # {}
      /\ target[r] \in Stop
    BY DEF IInv, TypeOK, StopInv, CheckedPhotoExists, PastPhotoCheck, SkipCommit
<1>2. status[target[r]] # "pending"
    BY <1>1 DEF IInv, StopInv, EvidenceHasVisit, VisitMirrorsStop
<1>3. visit' = [visit EXCEPT ![target[r]] = Record!Closed(@, "skipped")]
    BY <1>1 DEF SkipCommit, EnsureVisit, CloseVisit, Record!Closed, IInv, TypeOK
<1>4. QED
    BY <1>2, <1>3 DEF SkipCommit, Record!Skip

(* The commit of a completion is Complete, with the run if it closes it.   *)
LEMMA CompleteCommitRefines ==
    ASSUME IInv, NEW r \in Request, CompleteCommit(r)
    PROVE  Record!Complete(target[r])
<1> DEFINE s == target[r]
<1>1. /\ evidence[s] # {}
      /\ status[s] # "done"
      /\ s \in Stop
    BY DEF IInv, TypeOK, StopInv, CheckedPhotoExists, PastPhotoCheck,
           LockedReadStillHolds, CompleteTxn, CompleteCommit
<1>2. status[s] \in {"in_progress", "skipped"}
    BY <1>1 DEF IInv, TypeOK, StopStatus, StopInv, EvidenceHasVisit, VisitMirrorsStop
<1>3. visit' = [visit EXCEPT ![s] = Record!Closed(@, "completed")]
    BY <1>1 DEF CompleteCommit, EnsureVisit, CloseVisit, Record!Closed, IInv, TypeOK
<1>4. status' = [status EXCEPT ![s] = "done"]
    BY DEF CompleteCommit
<1>5. CASE pc[r] = "complete_commit_run"
  <2>1. \A t \in Stop : status'[t] \in Record!Terminal
      BY <1>4, <1>5 DEF IInv, RunInv, CountStillHolds, AllTerminal, Terminal,
                        Record!Terminal
  <2>2. /\ runStatus \notin {"finished", "completed"}
        /\ runStatus' = "finished"
        /\ finishedAt' = TRUE
      BY <1>5 DEF CompleteCommit, IInv, RunInv, RunLockHolder
  <2>3. QED
      BY <1>2, <1>3, <1>4, <2>1, <2>2 DEF Record!Complete, Record!ClosesRun
<1>6. CASE pc[r] # "complete_commit_run"
    BY <1>2, <1>3, <1>4, <1>6 DEF CompleteCommit, Record!Complete
<1>7. QED
    BY <1>5, <1>6

(* The update of the run after a skip is AutoFinish, or nothing.           *)
LEMMA SkipFinishRefines ==
    ASSUME IInv, NEW r \in Request, SkipFinish(r)
    PROVE  [Record!Next]_(Record!vars)
<1>1. \A t \in Stop : status[t] \in Record!Terminal
    BY DEF IInv, RunInv, CountStillHolds, AllTerminal, Terminal, Record!Terminal,
           SkipFinish
<1>2. CASE runStatus \in {"finished", "completed"}
    BY <1>2 DEF SkipFinish, Record!vars
<1>3. CASE runStatus \notin {"finished", "completed"}
  <2>1. Record!AutoFinish
      BY <1>1, <1>3 DEF SkipFinish, Record!AutoFinish, Record!ClosesRun
  <2>2. QED
      BY <2>1 DEF Record!Next
<1>4. QED
    BY <1>2, <1>3

(* Every step of the handlers is a step of StopRecord or none.             *)
LEMMA StepRefines == IInv /\ [Next]_vars => [Record!Next]_(Record!vars)
<1> SUFFICES ASSUME IInv, [Next]_vars PROVE [Record!Next]_(Record!vars)
    OBVIOUS
<1>1. ASSUME NEW r \in Request, Handler(r) PROVE [Record!Next]_(Record!vars)
  <2>1. CASE StartCommit(r)
    <3>1. target[r] \in Stop
        BY <2>1 DEF StartCommit, IInv, TypeOK
    <3>2. QED
        BY <2>1, <3>1, StartCommitRefines DEF Record!Next
  <2>2. CASE SkipCommit(r)
    <3>1. target[r] \in Stop
        BY <2>2 DEF SkipCommit, IInv, TypeOK
    <3>2. QED
        BY <2>2, <3>1, SkipCommitRefines DEF Record!Next
  <2>3. CASE CompleteCommit(r)
    <3>1. target[r] \in Stop
        BY <2>3 DEF CompleteCommit, IInv, TypeOK
    <3>2. QED
        BY <2>3, <3>1, CompleteCommitRefines DEF Record!Next
  <2>4. CASE SkipFinish(r)
      BY <2>4, SkipFinishRefines
  <2>5. CASE StartUpdate(r) \/ StartLookup(r) \/ PhotoInsert(r)
      BY <2>5 DEF StartUpdate, StartLookup, PhotoInsert, database, Record!vars
  <2>6. CASE SkipCount(r) \/ SkipLookup(r) \/ SkipUpdate(r) \/ SkipConnect(r)
               \/ SkipEmit(r) \/ SkipCheck(r) \/ SkipReload(r)
      BY <2>6 DEF SkipCount, SkipLookup, SkipUpdate, SkipConnect, SkipEmit, SkipCheck,
                  SkipReload, database, Record!vars
  <2>7. CASE CompleteCount(r) \/ CompleteConnect(r) \/ CompleteLock(r)
               \/ CompleteWork(r) \/ CompleteFinish(r)
      BY <2>7 DEF CompleteCount, CompleteConnect, CompleteLock, CompleteWork,
                  CompleteFinish, database, Record!vars
  <2>8. QED
      BY <1>1, <2>1, <2>2, <2>3, <2>4, <2>5, <2>6, <2>7
         DEF Handler, StartStep, SkipStep, CompleteStep
<1>2. ASSUME NEW r \in Request, NEW s \in Stop, Arrive(r, s)
      PROVE  [Record!Next]_(Record!vars)
    BY <1>2 DEF Arrive, database, Record!vars
<1>3. CASE StartRun
    BY <1>3 DEF StartRun, Record!StartRun, Record!Next
<1>4. CASE FinishRun
    BY <1>4 DEF FinishRun, Record!FinishRun, Record!Next
<1>5. CASE UNCHANGED vars
    BY <1>5 DEF vars, database, Record!vars
<1>6. ASSUME NEW r \in Request, Abort(r) PROVE [Record!Next]_(Record!vars)
    BY <1>6 DEF Abort, database, Record!vars
<1>7. QED
    BY <1>1, <1>2, <1>3, <1>4, <1>5, <1>6 DEF Next

(* Whatever the handlers' interleaving, what the database shows is a       *)
(* behaviour of the one-step view of StopRecord.                           *)
THEOREM Refinement == Spec => ImplementsStopRecord
  BY RecordInit, IInvHolds, StepRefines, PTL
     DEF Spec, ImplementsStopRecord, Record!Spec
=============================================================================
