--------------------------- MODULE StopLifecycle ----------------------------
(***************************************************************************)
(* The backend's stop endpoints on one route run, at the grain at which    *)
(* PostgreSQL (READ COMMITTED) lets them interleave: one action per group  *)
(* of statements that no other connection can split.  A transaction's      *)
(* writes appear at its commit action; the row locks it holds meanwhile    *)
(* are read off its program counter.                                       *)
(*                                                                         *)
(*   start     POST /route-run-stops/:id/start                             *)
(*   photo     POST /route-runs/:runId/stops/:stopId/photos                *)
(*   skip      POST /route-run-stops/:id/skip-with-hazard                  *)
(*   complete  POST /route-run-stops/:id/complete                          *)
(*   run       POST /route-runs/:id/start and /finish                      *)
(***************************************************************************)
EXTENDS Naturals, FiniteSets

CONSTANTS Stop,       \* the stops of the run
          NoStop,     \* the target of a request slot that serves nothing
          Request,    \* the requests the server can be serving at one time
          Hazard,     \* hazard types a worker can report
          Reported,   \* the sets of them that a completion may carry
          Kind,       \* photo kinds
          Safety,     \* the photo kind that a skip requires
          Connections,\* size of the connection pool of db.ts
          Failures    \* may a request die between two of its statements?

ASSUME StopAssumption == /\ Stop # {}
                         /\ NoStop \notin Stop
ASSUME KindAssumption == Safety \in Kind
ASSUME ReportedAssumption == Reported \subseteq SUBSET Hazard
ASSUME ConnectionsAssumption == Connections \in Nat \ {0}
ASSUME FailuresAssumption == Failures \in BOOLEAN

VARIABLES status,      \* route_run_stops.status, per stop
          visit,       \* core.visits row of the stop: "none", "open" or its outcome
          evidence,    \* photo kinds of the core.evidence rows of the stop's visit
          hazards,     \* hazard types of its core.observations rows
          effort,      \* stop_effort_history.had_hazard, "none" when there is no row
          runStatus,   \* route_runs.status
          finishedAt,  \* route_runs.finished_at IS NOT NULL
          pc,          \* the statement each request is about to execute
          target,      \* the stop it is about
          given,       \* hazard types it carries that are not written yet
          draft        \* the uncommitted stop_effort_history row of a completion

database == <<status, visit, evidence, hazards, effort, runStatus, finishedAt>>
request == <<pc, target, given, draft>>
vars == <<database, request>>

-----------------------------------------------------------------------------
StopStatus == {"pending", "in_progress", "done", "skipped"}
RunStatus == {"planned", "in_progress", "finished", "completed"}
Visit == {"none", "open", "completed", "skipped"}
EffortRow == {"none", "clean", "hazard"}
Terminal == {"done", "skipped"}

StartPc == {"start_update", "start_commit", "start_lookup"}
SkipPc == {"skip_count", "skip_lookup", "skip_update", "skip_commit",
           "skip_connect", "skip_emit", "skip_check", "skip_finish",
           "skip_reload"}
CompletePc == {"complete_count", "complete_connect", "complete_lock",
               "complete_work", "complete_finish", "complete_commit",
               "complete_commit_run"}
Pc == {"idle", "photo_insert"} \union StartPc \union SkipPc \union CompletePc

(* Program counters of a transaction that holds its stop's row lock.       *)
CompleteTxn == {"complete_work", "complete_finish", "complete_commit",
                "complete_commit_run"}
StopLocking == {"start_commit", "skip_commit"} \union CompleteTxn

StopFree(s) ==
    \A q \in Request : pc[q] \in StopLocking => target[q] # s

(* A request holds a connection from its arrival on, but for the moment    *)
(* between the photo count of a completion and its transaction; a skip     *)
(* holds a second one while it writes its observations.                    *)
ConnectionFree ==
    LET holding == {q \in Request : pc[q] \notin {"idle", "complete_connect"}}
        emitting == {q \in Request : pc[q] = "skip_emit"}
    IN  Cardinality(holding) + Cardinality(emitting) < Connections

RunFreeOfCounters ==
    \A q \in Request : pc[q] \notin {"complete_finish", "complete_commit_run"}

RunFree == \A q \in Request : pc[q] # "complete_commit_run"

AllTerminalDoneOnly(st) == \A s \in Stop : st[s] = "done"

AllTerminalForgetsStarted(st) == \A s \in Stop : st[s] # "pending"

(* checkAndCompleteRouteRun: no stop of the run is pending or in_progress. *)
AllTerminal(st) == \A s \in Stop : st[s] \in Terminal

(* ensureVisitForRouteRunStop: the row exists afterwards, open if it is new.*)
EnsureVisit(v) == IF v = "none" THEN "open" ELSE v

(* closeVisitForRouteRunStop: WHERE ended_at IS NULL, so the first outcome  *)
(* stays.                                                                   *)
CloseVisit(v, outcome) == IF v = "open" THEN outcome ELSE v

-----------------------------------------------------------------------------
Init == /\ status = [s \in Stop |-> "pending"]
        /\ visit = [s \in Stop |-> "none"]
        /\ evidence = [s \in Stop |-> {}]
        /\ hazards = [s \in Stop |-> {}]
        /\ effort = [s \in Stop |-> "none"]
        /\ runStatus = "planned"
        /\ finishedAt = FALSE
        /\ pc = [r \in Request |-> "idle"]
        /\ target = [r \in Request |-> NoStop]
        /\ given = [r \in Request |-> {}]
        /\ draft = [r \in Request |-> "none"]

Goto(r, label) == /\ pc' = [pc EXCEPT ![r] = label]
                  /\ UNCHANGED target

AnswerKeepsSlot(r) ==
    /\ pc' = [pc EXCEPT ![r] = "idle"]
    /\ UNCHANGED <<target, given, draft>>

(* The response is sent and the connection goes back to the pool.          *)
Answer(r) == /\ pc' = [pc EXCEPT ![r] = "idle"]
             /\ target' = [target EXCEPT ![r] = NoStop]
             /\ given' = [given EXCEPT ![r] = {}]
             /\ draft' = [draft EXCEPT ![r] = "none"]

(* A request gets its first connection; until then it holds nothing.  A    *)
(* skip names at least one hazard (the handler answers 400 otherwise); a   *)
(* completion may carry some.                                              *)
Arrive(r, s) ==
    /\ pc[r] = "idle"
    /\ ConnectionFree
    /\ target' = [target EXCEPT ![r] = s]
    /\ \/ /\ pc' = [pc EXCEPT ![r] = "start_update"]
          /\ UNCHANGED given
       \/ /\ pc' = [pc EXCEPT ![r] = "photo_insert"]
          /\ UNCHANGED given
       \/ \E h \in SUBSET Hazard \ {{}} :
            /\ pc' = [pc EXCEPT ![r] = "skip_count"]
            /\ given' = [given EXCEPT ![r] = h]
       \/ \E h \in Reported :
            /\ pc' = [pc EXCEPT ![r] = "complete_count"]
            /\ given' = [given EXCEPT ![r] = h]
    /\ UNCHANGED <<database, draft>>

(* The process or its database connection dies.  An open transaction is    *)
(* rolled back by PostgreSQL; what was committed stays.                    *)
Abort(r) == /\ Failures
            /\ pc[r] # "idle"
            /\ Answer(r)
            /\ UNCHANGED database

-----------------------------------------------------------------------------
(* start: UPDATE ... WHERE id = $1 AND status = ANY(allowed).  No row      *)
(* matches unless the committed status is pending; a matching row is       *)
(* waited for and its status evaluated again.                              *)

StartUpdateAnyStatus(r) ==
    /\ pc[r] = "start_update"
    /\ StopFree(target[r])
    /\ Goto(r, "start_commit")
    /\ UNCHANGED <<database, given, draft>>

StartUpdate(r) ==
    /\ pc[r] = "start_update"
    /\ \/ /\ status[target[r]] = "pending"
          /\ StopFree(target[r])
          /\ Goto(r, "start_commit")
       \/ /\ status[target[r]] # "pending"
          /\ Goto(r, "start_lookup")
    /\ UNCHANGED <<database, given, draft>>

StartCommit(r) ==
    /\ pc[r] = "start_commit"
    /\ status' = [status EXCEPT ![target[r]] = "in_progress"]
    /\ visit' = [visit EXCEPT ![target[r]] = EnsureVisit(@)]
    /\ Answer(r)
    /\ UNCHANGED <<evidence, hazards, effort, runStatus, finishedAt>>

(* Rolled back; the status is read again to choose between 200 and 409.    *)
StartLookup(r) ==
    /\ pc[r] = "start_lookup"
    /\ Answer(r)
    /\ UNCHANGED database

-----------------------------------------------------------------------------
(* photo: INSERT ... SELECT FROM core.visits.  Without a visit no row is   *)
(* inserted, and the answer is 200 all the same.                           *)
PhotoInsert(r) ==
    /\ pc[r] = "photo_insert"
    /\ \/ /\ visit[target[r]] # "none"
          /\ \E k \in Kind :
               evidence' = [evidence EXCEPT ![target[r]] = @ \union {k}]
       \/ /\ visit[target[r]] = "none"
          /\ UNCHANGED evidence
    /\ Answer(r)
    /\ UNCHANGED <<status, visit, hazards, effort, runStatus, finishedAt>>

-----------------------------------------------------------------------------
SkipCountIgnored(r) ==
    /\ pc[r] = "skip_count"
    /\ Goto(r, "skip_lookup")
    /\ UNCHANGED <<database, given, draft>>

SkipCount(r) ==
    /\ pc[r] = "skip_count"
    /\ \/ /\ Safety \in evidence[target[r]]
          /\ Goto(r, "skip_lookup")
          /\ UNCHANGED <<given, draft>>
       \/ /\ Safety \notin evidence[target[r]]   \* 400
          /\ Answer(r)
    /\ UNCHANGED database

(* Before BEGIN, without a lock: the status may be stale at the update.    *)
SkipLookup(r) ==
    /\ pc[r] = "skip_lookup"
    /\ \/ /\ status[target[r]] \notin Terminal
          /\ Goto(r, "skip_update")
          /\ UNCHANGED <<given, draft>>
       \/ /\ status[target[r]] \in Terminal      \* 409 or 400
          /\ Answer(r)
    /\ UNCHANGED database

SkipUpdate(r) ==
    /\ pc[r] = "skip_update"
    /\ StopFree(target[r])
    /\ Goto(r, "skip_commit")
    /\ UNCHANGED <<database, given, draft>>

SkipCommit(r) ==
    /\ pc[r] = "skip_commit"
    /\ status' = [status EXCEPT ![target[r]] = "skipped"]
    /\ visit' = [visit EXCEPT
                   ![target[r]] = CloseVisit(EnsureVisit(@), "skipped")]
    /\ Goto(r, "skip_connect")
    /\ UNCHANGED <<evidence, hazards, effort, runStatus, finishedAt,
                   given, draft>>

(* emitObservationsForStop without a client takes a second connection.     *)
SkipConnect(r) ==
    /\ pc[r] = "skip_connect"
    /\ ConnectionFree
    /\ Goto(r, "skip_emit")
    /\ UNCHANGED <<database, given, draft>>

(* One INSERT per hazard, each its own transaction.                        *)
SkipEmit(r) ==
    /\ pc[r] = "skip_emit"
    /\ \E h \in given[r] :
         /\ hazards' = [hazards EXCEPT ![target[r]] = @ \union {h}]
         /\ given' = [given EXCEPT ![r] = @ \ {h}]
         /\ IF given[r] = {h} THEN Goto(r, "skip_check")
                              ELSE UNCHANGED <<pc, target>>
    /\ UNCHANGED <<status, visit, evidence, effort, runStatus, finishedAt,
                   draft>>

SkipCheck(r) ==
    /\ pc[r] = "skip_check"
    /\ \/ /\ AllTerminal(status)
          /\ Goto(r, "skip_finish")
       \/ /\ ~AllTerminal(status)
          /\ Goto(r, "skip_reload")
    /\ UNCHANGED <<database, given, draft>>

(* UPDATE route_runs ... WHERE status NOT IN ('finished', 'completed'),    *)
(* outside any transaction.                                                *)
SkipFinish(r) ==
    /\ pc[r] = "skip_finish"
    /\ \/ /\ runStatus \in {"finished", "completed"}
          /\ UNCHANGED <<runStatus, finishedAt>>
       \/ /\ runStatus \notin {"finished", "completed"}
          /\ RunFree
          /\ runStatus' = "finished"
          /\ finishedAt' = TRUE
    /\ Goto(r, "skip_reload")
    /\ UNCHANGED <<status, visit, evidence, hazards, effort, given, draft>>

(* loadRouteRunById, on a second connection, while the first is held.  The *)
(* other handlers load the run for their answer holding none.              *)
SkipReload(r) ==
    /\ pc[r] = "skip_reload"
    /\ ConnectionFree
    /\ Answer(r)
    /\ UNCHANGED database

-----------------------------------------------------------------------------
CompleteCountIgnored(r) ==
    /\ pc[r] = "complete_count"
    /\ Goto(r, "complete_connect")
    /\ UNCHANGED <<database, given, draft>>

(* The after-photo gate counts evidence of any kind.  The photo_keys the   *)
(* client may send instead come from the server's list of the same rows.   *)
CompleteCount(r) ==
    /\ pc[r] = "complete_count"
    /\ \/ /\ evidence[target[r]] # {}
          /\ Goto(r, "complete_connect")
          /\ UNCHANGED <<given, draft>>
       \/ /\ evidence[target[r]] = {}            \* 400
          /\ Answer(r)
    /\ UNCHANGED database

CompleteConnect(r) ==
    /\ pc[r] = "complete_connect"
    /\ ConnectionFree
    /\ Goto(r, "complete_lock")
    /\ UNCHANGED <<database, given, draft>>

CompleteLockNoWait(r) ==
    /\ pc[r] = "complete_lock"
    /\ \/ /\ status[target[r]] # "done"
          /\ Goto(r, "complete_work")
          /\ UNCHANGED <<given, draft>>
       \/ /\ status[target[r]] = "done"
          /\ Answer(r)
    /\ UNCHANGED database

(* SELECT ... FOR UPDATE waits for the row's lock and reads its latest     *)
(* version; only 'done' is refused.                                        *)
CompleteLock(r) ==
    /\ pc[r] = "complete_lock"
    /\ StopFree(target[r])
    /\ \/ /\ status[target[r]] # "done"
          /\ Goto(r, "complete_work")
          /\ UNCHANGED <<given, draft>>
       \/ /\ status[target[r]] = "done"          \* 409 ALREADY_COMPLETE
          /\ Answer(r)
    /\ UNCHANGED database

(* The statements up to the run's count.  The effort row is computed from  *)
(* the observations visible now; the count sees this transaction's own     *)
(* update and what others have committed.                                  *)
CompleteWork(r) ==
    /\ pc[r] = "complete_work"
    /\ draft' = [draft EXCEPT
                   ![r] = IF hazards[target[r]] \union given[r] = {}
                          THEN "clean" ELSE "hazard"]
    /\ IF AllTerminal([status EXCEPT ![target[r]] = "done"])
       THEN Goto(r, "complete_finish")
       ELSE Goto(r, "complete_commit")
    /\ UNCHANGED <<database, given>>

CompleteFinish(r) ==
    /\ pc[r] = "complete_finish"
    /\ \/ /\ runStatus \in {"finished", "completed"}
          /\ Goto(r, "complete_commit")
       \/ /\ runStatus \notin {"finished", "completed"}
          /\ RunFree
          /\ Goto(r, "complete_commit_run")
    /\ UNCHANGED <<database, given, draft>>

CompleteCommit(r) ==
    /\ pc[r] \in {"complete_commit", "complete_commit_run"}
    /\ status' = [status EXCEPT ![target[r]] = "done"]
    /\ visit' = [visit EXCEPT
                   ![target[r]] = CloseVisit(EnsureVisit(@), "completed")]
    /\ hazards' = [hazards EXCEPT ![target[r]] = @ \union given[r]]
    /\ effort' = [effort EXCEPT
                    ![target[r]] = IF @ = "none" THEN draft[r] ELSE @]
    /\ IF pc[r] = "complete_commit_run"
       THEN runStatus' = "finished" /\ finishedAt' = TRUE
       ELSE UNCHANGED <<runStatus, finishedAt>>
    /\ Answer(r)
    /\ UNCHANGED evidence

-----------------------------------------------------------------------------
(* startRouteRun and finishRouteRun update the run whatever its status.    *)
StartRun == /\ RunFree
            /\ runStatus' = "in_progress"
            /\ UNCHANGED <<status, visit, evidence, hazards, effort,
                           finishedAt, request>>

FinishRun == /\ RunFree
             /\ runStatus' = "completed"
             /\ finishedAt' = TRUE
             /\ UNCHANGED <<status, visit, evidence, hazards, effort, request>>

StartStep(r) == StartUpdate(r) \/ StartCommit(r) \/ StartLookup(r)

SkipStep(r) == \/ SkipCount(r) \/ SkipLookup(r) \/ SkipUpdate(r)
               \/ SkipCommit(r) \/ SkipConnect(r) \/ SkipEmit(r)
               \/ SkipCheck(r) \/ SkipFinish(r) \/ SkipReload(r)

CompleteStep(r) == \/ CompleteCount(r) \/ CompleteConnect(r)
                   \/ CompleteLock(r) \/ CompleteWork(r)
                   \/ CompleteFinish(r) \/ CompleteCommit(r)

Handler(r) == StartStep(r) \/ PhotoInsert(r) \/ SkipStep(r) \/ CompleteStep(r)

Next == \/ \E r \in Request : \/ \E s \in Stop : Arrive(r, s)
                              \/ Handler(r)
                              \/ Abort(r)
        \/ StartRun
        \/ FinishRun

Spec == Init /\ [][Next]_vars

(* PostgreSQL queues the waiters of a row lock and pg-pool those of a      *)
(* connection, so a request that keeps being able to go on is not passed   *)
(* over for ever; clients and dispatchers need not act at all.             *)
Fairness == \A r \in Request : SF_vars(Handler(r))
FairSpec == Spec /\ Fairness
-----------------------------------------------------------------------------
(* Types; and a slot that serves nothing carries nothing: whatever way a   *)
(* handler ends, by an answer, a refusal or a failure, its connection goes *)
(* back to the pool without the request's state (routeRunStopRoutes.ts,    *)
(* the finally blocks).                                                    *)
TypeOK == /\ status \in [Stop -> StopStatus]
          /\ visit \in [Stop -> Visit]
          /\ evidence \in [Stop -> SUBSET Kind]
          /\ hazards \in [Stop -> SUBSET Hazard]
          /\ effort \in [Stop -> EffortRow]
          /\ runStatus \in RunStatus
          /\ finishedAt \in BOOLEAN
          /\ pc \in [Request -> Pc]
          /\ target \in [Request -> Stop \union {NoStop}]
          /\ given \in [Request -> SUBSET Hazard]
          /\ draft \in [Request -> EffortRow]
          /\ \A r \in Request : target[r] = NoStop <=> pc[r] = "idle"

(* A stop and its visit move together: no visit before the start, an open  *)
(* one while the stop is in progress, a closed one ever after.  The two    *)
(* rows are written by different statements of start, skip and complete    *)
(* (startRouteRunStop.ts, visitService.ts).                                *)
VisitMirrorsStop ==
    \A s \in Stop : /\ status[s] = "pending" <=> visit[s] = "none"
                    /\ status[s] = "in_progress" <=> visit[s] = "open"

(* A stop that is done left its proof behind: at least one photo and the   *)
(* effort row, although the photo is counted before the transaction and a  *)
(* skip may have come between (cleanLogService.ts:180-240).                *)
DoneStopHasRecord ==
    \A s \in Stop : status[s] = "done" => /\ evidence[s] # {}
                                          /\ effort[s] # "none"

(* What the row lock protects is still true at the commit: a completion    *)
(* that found its stop not done, and a start that found it pending, commit *)
(* over exactly that status (the FOR UPDATE of completeStop and the        *)
(* conditional UPDATE of start, against the unconditional one of skip).    *)
LockedReadStillHolds ==
    \A r \in Request :
        /\ pc[r] \in CompleteTxn => status[target[r]] # "done"
        /\ pc[r] = "start_commit" => status[target[r]] = "pending"

(* A run the system closed has no stop left to do, whichever handlers were *)
(* still running when it was closed (checkAndCompleteRouteRun).            *)
FinishedRunIsAllTerminal ==
    runStatus = "finished" => \A s \in Stop : status[s] \in Terminal

(* A stop is serviced or skipped only after a start: skip accepts the      *)
(* status pending and complete accepts any but done, yet both ask for a    *)
(* photo, a photo needs a visit, and only a start opens one.               *)
StartedBeforeServiced ==
    [][\A s \in Stop : status[s] = "pending" =>
                           status'[s] \in {"pending", "in_progress"}]_status

(* No interleaving of handlers re-opens a stop that was done or skipped;   *)
(* the count of checkAndCompleteRouteRun, used after it was taken, relies  *)
(* on this.                                                                *)
TerminalIsForever ==
    [][\A s \in Stop : status[s] \in Terminal =>
                           status'[s] \in Terminal]_status

(* The handlers together implement the one-step view of StopRecord.        *)
Record == INSTANCE StopRecord WITH
              Stop <- Stop, status <- status, visit <- visit,
              runStatus <- runStatus, finishedAt <- finishedAt
ImplementsStopRecord == Record!Spec

(* Every request is answered: no circle of waits on stop locks, the run's  *)
(* lock and connections, and no handler that waits for itself.  It takes   *)
(* more connections than requests: a skip asks for its second connection   *)
(* holding the first.                                                      *)
EveryRequestAnswered ==
    \A r \in Request : pc[r] # "idle" ~> pc[r] = "idle"

(* When all stops of a run have been skipped, the run is closed: skip      *)
(* counts after its commit, so the last of several concurrent skips sees   *)
(* all of them (routeRunStopRoutes.ts:280-282).                            *)
AllSkippedRunFinishes ==
    (\A s \in Stop : status[s] = "skipped") ~> finishedAt

-----------------------------------------------------------------------------
(* What the invariants above rest on.                                      *)

(* Two transactions never hold the same stop's row.                        *)
OneLockHolder ==
    \A r, q \in Request : /\ pc[r] \in StopLocking
                          /\ pc[q] \in StopLocking
                          /\ target[r] = target[q]
                          => r = q

(* A photo belongs to a visit.                                             *)
EvidenceHasVisit == \A s \in Stop : evidence[s] # {} => visit[s] # "none"

(* A skip or completion past its photo check is about a stop with a photo. *)
PastPhotoCheck == {"skip_lookup", "skip_update", "skip_commit",
                   "complete_connect", "complete_lock"} \union CompleteTxn

CheckedPhotoExists ==
    \A r \in Request : pc[r] \in PastPhotoCheck => evidence[target[r]] # {}

(* The count behind a decision to close the run still holds.               *)
CountStillHolds ==
    \A r \in Request :
        /\ pc[r] \in {"complete_finish", "complete_commit_run"} =>
               AllTerminal([status EXCEPT ![target[r]] = "done"])
        /\ pc[r] = "skip_finish" => AllTerminal(status)

(* The run's row lock: one holder, and the run is open while it is held.   *)
RunLockHolder ==
    \A r, q \in Request : pc[r] = "complete_commit_run" =>
        /\ runStatus \notin {"finished", "completed"}
        /\ pc[q] = "complete_commit_run" => q = r

(* The effort row is computed before the commit.                           *)
DraftReady ==
    \A r \in Request :
        pc[r] \in CompleteTxn \ {"complete_work"} => draft[r] # "none"

-----------------------------------------------------------------------------
(* Statements of the repository about these handlers that the code above   *)
(* does not keep; each is refuted by a run of its own.                     *)

Quiet == \A r \in Request : pc[r] = "idle"

(* "Check if all stops are terminal (done/skipped) and mark route finished *)
(* if so" (routeRunService.ts:556): with no request under way and every    *)
(* stop terminal, the run has its finish time.                             *)
AllTerminalRunFinished == Quiet /\ AllTerminal(status) => finishedAt

(* "Cannot skip stop in status" done (routeRunStopRoutes.ts:224).          *)
DoneIsNotSkipped ==
    [][\A s \in Stop : status[s] = "done" => status'[s] # "skipped"]_status

(* "the hazard now lives only in canonical" (routeRunStopRoutes.ts:227-230): *)
(* a skipped stop has the observation of a hazard once nobody works on it. *)
SkippedStopHasHazard ==
    Quiet => \A s \in Stop : status[s] = "skipped" => hazards[s] # {}
=============================================================================
