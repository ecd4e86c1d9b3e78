----------------------------- MODULE EamBridge -----------------------------
(***************************************************************************)
(* populate of populateEamBridge.ts, the scheduled job that logs completed *)
(* runs for the work-order system, while runs are finished, restarted and  *)
(* closed under it.  Every statement autocommits; a job may die between    *)
(* two of them and is started again by its scheduler.                      *)
(***************************************************************************)
EXTENDS Naturals, Sequences, FiniteSets

CONSTANTS BridgeOrg,   \* organisations the bridge job is run for
          BridgeRun,   \* route runs
          RunOrg,      \* the organisation each belongs to
          LastInstant  \* bound: instants at which a run can be stamped

ASSUME RunOrgAssumption == RunOrg \in [BridgeRun -> BridgeOrg]
ASSUME LastInstantAssumption == LastInstant \in Nat

VARIABLES runState,    \* route_runs.status
          stamp,       \* route_runs.finished_at, 0 for NULL
          late,        \* NOW() of a finish that waits for the run's row, or 0
          instant,     \* the clock
          watermark,   \* eam_bridge_populate_state
          routeLog,    \* rows of eam_bridge_route_log, in order of insertion
          job          \* a populate per organisation

bridgeVars == <<runState, stamp, late, instant, watermark, routeLog, job>>
runRows == <<runState, stamp, late, instant>>

Idle == [phase |-> "idle", from |-> 0, todo |-> {}, top |-> 0]
Instant == 0..LastInstant
LogRow == [run : BridgeRun, at : Instant]

BridgeTypeOK ==
    /\ runState \in [BridgeRun -> {"planned", "in_progress", "completed", "finished"}]
    /\ stamp \in [BridgeRun -> Instant]
    /\ late \in [BridgeRun -> Instant]
    /\ instant \in Instant
    /\ watermark \in Instant
    /\ routeLog \in Seq(LogRow)
    /\ job \in [BridgeOrg -> [phase : {"idle", "select", "insert"}, from : Instant,
                              todo : SUBSET LogRow, top : Instant]]

BridgeInit == /\ runState = [r \in BridgeRun |-> "planned"]
              /\ stamp = [r \in BridgeRun |-> 0]
              /\ late = [r \in BridgeRun |-> 0]
              /\ instant = 0
              /\ watermark = 0
              /\ routeLog = <<>>
              /\ job = [o \in BridgeOrg |-> Idle]

-----------------------------------------------------------------------------
(* finishRouteRun: NOW() is when the statement begins.  It may then wait   *)
(* for the run's row, which an assignment or an automatic finish holds.    *)
BeginFinish(r) == /\ late[r] = 0
                  /\ instant < LastInstant
                  /\ instant' = instant + 1
                  /\ late' = [late EXCEPT ![r] = instant + 1]
                  /\ UNCHANGED <<runState, stamp, watermark, routeLog, job>>

EndFinish(r) == /\ late[r] # 0
                /\ runState' = [runState EXCEPT ![r] = "completed"]
                /\ stamp' = [stamp EXCEPT ![r] = late[r]]
                /\ late' = [late EXCEPT ![r] = 0]
                /\ UNCHANGED <<instant, watermark, routeLog, job>>

(* startRouteRun asks nothing of the run's status and keeps finished_at.   *)
RestartRun(r) == /\ runState' = [runState EXCEPT ![r] = "in_progress"]
                 /\ UNCHANGED <<stamp, late, instant, watermark, routeLog, job>>

(* checkAndCompleteRouteRun.                                               *)
CloseRun(r) == /\ runState[r] \notin {"finished", "completed"}
               /\ stamp[r] # 0 \/ instant < LastInstant
               /\ runState' = [runState EXCEPT ![r] = "finished"]
               /\ IF stamp[r] = 0
                  THEN /\ instant' = instant + 1
                       /\ stamp' = [stamp EXCEPT ![r] = instant + 1]
                  ELSE UNCHANGED <<instant, stamp>>
               /\ UNCHANGED <<late, watermark, routeLog, job>>

-----------------------------------------------------------------------------
Logged(r) == \E i \in DOMAIN routeLog : routeLog[i].run = r

(* fetchUnloggedRuns, under the row-level security of organisation o.      *)
Unlogged(o, from) == {r \in BridgeRun : /\ RunOrg[r] = o
                                        /\ runState[r] = "completed"
                                        /\ stamp[r] > from
                                        /\ ~Logged(r)}

(* fetchWatermark: one row for all organisations.                          *)
ReadWatermark(o) ==
    /\ job[o].phase = "idle"
    /\ job' = [job EXCEPT ![o] = [phase |-> "select", from |-> watermark,
                                  todo |-> {}, top |-> 0]]
    /\ UNCHANGED <<runRows, watermark, routeLog>>

SelectMarksFirst(o) ==
    /\ job[o].phase = "select"
    /\ LET todo == {[run |-> r, at |-> stamp[r]] : r \in Unlogged(o, job[o].from)}
       IN  /\ job' = [job EXCEPT ![o].phase = "insert", ![o].todo = todo]
           /\ watermark' = IF todo = {} THEN watermark
                           ELSE CHOOSE t \in Instant :
                                   /\ \E x \in todo : x.at = t
                                   /\ \A x \in todo : x.at <= t
    /\ UNCHANGED <<runRows, routeLog>>

SelectRuns(o) ==
    /\ job[o].phase = "select"
    /\ job' = [job EXCEPT ![o].phase = "insert",
                          ![o].todo = {[run |-> r, at |-> stamp[r]] :
                                          r \in Unlogged(o, job[o].from)}]
    /\ UNCHANGED <<runRows, watermark, routeLog>>

Earliest(S) == {x \in S : \A y \in S : x.at <= y.at}

(* INSERT ... ON CONFLICT (route_run_id) DO NOTHING; only a row that went  *)
(* in counts for the new watermark.                                        *)
InsertRow(o) ==
    /\ job[o].phase = "insert"
    /\ \E x \in Earliest(job[o].todo) :
          IF Logged(x.run)
          THEN /\ job' = [job EXCEPT ![o].todo = @ \ {x}]
               /\ UNCHANGED routeLog
          ELSE /\ job' = [job EXCEPT ![o].todo = @ \ {x},
                            ![o].top = IF x.at > @ THEN x.at ELSE @]
               /\ routeLog' = Append(routeLog, x)
    /\ UNCHANGED <<runRows, watermark>>

AdvanceWatermark(o) ==
    /\ job[o].phase = "insert"
    /\ job[o].todo = {}
    /\ watermark' = IF job[o].top = 0 THEN watermark ELSE job[o].top
    /\ job' = [job EXCEPT ![o] = Idle]
    /\ UNCHANGED <<runRows, routeLog>>

(* The process is killed or a statement fails.                             *)
JobDies(o) == /\ job[o].phase # "idle"
              /\ job' = [job EXCEPT ![o] = Idle]
              /\ UNCHANGED <<runRows, watermark, routeLog>>

BridgeNext ==
    \/ \E r \in BridgeRun : BeginFinish(r) \/ EndFinish(r) \/ RestartRun(r) \/ CloseRun(r)
    \/ \E o \in BridgeOrg : \/ ReadWatermark(o) \/ SelectRuns(o) \/ InsertRow(o)
                            \/ AdvanceWatermark(o) \/ JobDies(o)

BridgeSpec == BridgeInit /\ [][BridgeNext]_bridgeVars

-----------------------------------------------------------------------------
(* The watermark never runs ahead of the log: where it stands, a run was   *)
(* logged, whatever job died and whichever of two wrote it last.           *)
WatermarkWasLogged == \/ watermark = 0
                      \/ \E i \in DOMAIN routeLog : routeLog[i].at = watermark
=============================================================================
