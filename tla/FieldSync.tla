------------------------------ MODULE FieldSync ------------------------------
(***************************************************************************)
(* The worker's day end to end: what the screen shows (useTodayRoute.ts,   *)
(* TodayRouteView.tsx, StopDetail.tsx), the queue behind it (OfflineQueue) *)
(* and the stop endpoints at the far end of the network, which here answer *)
(* in one step (StopLifecycle has their statements).  The screen is ahead  *)
(* of the server by what is queued, until a fetch overwrites it.           *)
(*                                                                         *)
(* Requests are lost, and so are answers, so that the server sees a        *)
(* request again.  That both are at work at once is in StopLifecycle.      *)
(***************************************************************************)
EXTENDS OfflineQueue

CONSTANT Safety       \* the photo kind that a skip requires

ASSUME FieldAssumption == Safety \in Kind

VARIABLES served,     \* route_run_stops.status
          visited,    \* the visit of each stop: "none", "open" or its outcome
          evidence,   \* kinds of the photos of each visit
          runStatus,  \* route_runs.status
          finishedAt, \* route_runs.finished_at is set
          route,      \* the screen's copy of the route
          begun,      \* the open stop, once it was started on this screen
          fetch,      \* the fetch of the route that is under way
          cached,     \* the copy in localStorage
          processed   \* a completion succeeded in this replay

record == <<served, visited, runStatus, finishedAt>>
backend == <<record, evidence>>
screen == <<route, begun, fetch, cached, processed>>
fieldVars == <<vars, backend, screen>>

-----------------------------------------------------------------------------
Terminal == {"done", "skipped"}
NoRoute == [s \in Stop |-> "unknown"]
Asked == [s \in Stop |-> "asked"]
Planned == [s \in Stop |-> "planned"]   \* the list is hidden behind "Start Route"
StopStatuses == [Stop -> {"pending", "in_progress", "done", "skipped"}]
Route == StopStatuses \union {Planned}

(* GET /ul/todays-run, as far as the screen tells it apart.                *)
Served == IF runStatus = "planned" THEN Planned ELSE served

FieldTypeOK == /\ TypeOK
               /\ served \in StopStatuses
               /\ runStatus \in {"planned", "in_progress", "finished"}
               /\ visited \in [Stop -> {"none", "open", "completed", "skipped"}]
               /\ evidence \in [Stop -> SUBSET Kind]
               /\ finishedAt \in BOOLEAN
               /\ {route, cached} \subseteq Route \union {NoRoute}
               /\ fetch \in Route \union {NoRoute, Asked}
               /\ begun \subseteq Stop
               /\ processed \in BOOLEAN

FieldInit == /\ Init
             /\ served = [s \in Stop |-> "pending"]
             /\ visited = [s \in Stop |-> "none"]
             /\ evidence = [s \in Stop |-> {}]
             /\ runStatus = "planned"
             /\ finishedAt = FALSE
             /\ route = NoRoute
             /\ begun = {}
             /\ fetch = Asked
             /\ cached = NoRoute
             /\ processed = FALSE

-----------------------------------------------------------------------------
(* The server.  Serves is the effect of a request that is answered 200,    *)
(* and Refuses says which ones are not.                                    *)

ServeStartAgain(s) ==
    /\ served[s] \notin {"done"}
    /\ served' = [served EXCEPT ![s] = "in_progress"]
    /\ visited' = [visited EXCEPT ![s] = IF @ = "none" THEN "open" ELSE @]
    /\ UNCHANGED <<evidence, runStatus, finishedAt>>

(* 200 also when it was started before.                                    *)
ServeStart(s) ==
    /\ served[s] \in {"pending", "in_progress"}
    /\ served' = [served EXCEPT ![s] = "in_progress"]
    /\ visited' = [visited EXCEPT ![s] = IF @ = "none" THEN "open" ELSE @]
    /\ UNCHANGED <<evidence, runStatus, finishedAt>>

(* 200 also when there is no visit to attach the photos to.                *)
ServeUpload(s, k) ==
    /\ evidence' = IF visited[s] = "none" THEN evidence
                   ELSE [evidence EXCEPT ![s] = @ \union {k}]
    /\ UNCHANGED record

ClosesAsNamed(s, outcome) ==
    /\ served' = [served EXCEPT ![s] = outcome]
    /\ visited' = [visited EXCEPT ![s] = IF @ \in {"none", "open"} THEN outcome ELSE @]
    /\ UNCHANGED <<evidence, runStatus, finishedAt>>

(* The stop, its visit, and the run when no stop of it is left to do.      *)
Closes(s, outcome) ==
    /\ served' = [served EXCEPT ![s] = outcome]
    /\ visited' = [visited EXCEPT
                     ![s] = IF @ \notin {"none", "open"} THEN @
                            ELSE IF outcome = "done" THEN "completed" ELSE outcome]
    /\ IF (\A t \in Stop : served'[t] \in Terminal) /\ runStatus \notin {"finished", "completed"}
       THEN runStatus' = "finished" /\ finishedAt' = TRUE
       ELSE UNCHANGED <<runStatus, finishedAt>>
    /\ UNCHANGED evidence

MaySkip(s) == Safety \in evidence[s] /\ served[s] \notin Terminal
MayComplete(s) == evidence[s] # {} /\ served[s] # "done"

Serves(a) == \/ a.type = "start" /\ ServeStart(a.stop)
             \/ a.type = "upload" /\ ServeUpload(a.stop, a.kind)
             \/ a.type = "skip" /\ MaySkip(a.stop) /\ Closes(a.stop, "skipped")
             \/ a.type = "complete" /\ MayComplete(a.stop) /\ Closes(a.stop, "done")

(* A request can also fail for a reason of the server's own: answered 500. *)
Refuses(a) == \/ a.type \in {"start", "upload", "complete"}
              \/ a.type = "skip" /\ Safety \in evidence[a.stop]

Untouched == UNCHANGED backend

(* The answer is lost, with the request or after it took effect.           *)
Unheard(a) == Untouched \/ Serves(a)

-----------------------------------------------------------------------------
(* The screen shows a skeleton while it fetches: the worker does nothing.  *)
Ready == fetch = NoRoute /\ route \notin {NoRoute, Planned}

Starting(s) == \E i \in DOMAIN queue : /\ queue[i].type = "start"
                                       /\ queue[i].stop = s
                                       /\ queue[i].status \in {"pending", "running"}

WorkableAnyTime(s) == route[s] \in {"pending", "in_progress"}

(* StopDetail shows a stop's form once it was started, on this screen or   *)
(* by what the route says.                                                 *)
Workable(s) == \/ route[s] = "in_progress"
               \/ route[s] = "pending" /\ begun = {s}

(* A photo was uploaded or queued for a skip (safetyPhotoKey, or           *)
(* getHasQueuedUploadForStop).                                             *)
SafetyAttached(s) ==
    \/ Safety \in evidence[s]
    \/ \E i \in DOMAIN queue : /\ queue[i].type = "upload"
                               /\ queue[i].stop = s
                               /\ queue[i].kind = Safety

Shows(s, status) == route' = [route EXCEPT ![s] = status]

(* handleStartStop.                                                        *)
TapStart(s) ==
    /\ Ready
    /\ route[s] = "pending"
    /\ begun # {s}
    /\ ~Starting(s)
    /\ Ask("start", s)
    /\ Shows(s, "in_progress")
    /\ begun' = {s}
    /\ UNCHANGED <<backend, fetch, cached, processed>>

(* handleSkipStop; cleanupStopState leaves the stop.                       *)
TapSkip(s) ==
    /\ Ready
    /\ Workable(s)
    /\ SafetyAttached(s)
    /\ Ask("skip", s)
    /\ Shows(s, "skipped")
    /\ begun' = {}
    /\ UNCHANGED <<backend, fetch, cached, processed>>

(* handleCompleteStop.  An after photo that was taken and discarded opens  *)
(* the button as one that was uploaded does.                               *)
TapComplete(s) ==
    /\ Ready
    /\ Workable(s)
    /\ Ask("complete", s)
    /\ Shows(s, "done")
    /\ begun' = {}
    /\ UNCHANGED <<backend, fetch, cached, processed>>

(* uploadPhotos.  While the server has no visit yet the photo is dropped.  *)
TapPhoto(p, s, k) ==
    /\ Ready
    /\ Workable(s)
    /\ Shoot(p, s, k)
    /\ \/ delivered' # delivered /\ ServeUpload(s, k)
       \/ delivered' = delivered /\ Untouched
    /\ UNCHANGED screen

(* resetStopView, as far as it matters: a stop the route shows as started  *)
(* opens again as it was left.                                             *)
Back == /\ Ready
        /\ \E s \in begun : route[s] = "pending"
        /\ begun' = {}
        /\ UNCHANGED <<vars, backend, route, fetch, cached, processed>>

(* handleStartRoute: the answer is the route, when it arrives.             *)
StartRoute == /\ fetch = NoRoute
              /\ route = Planned
              /\ online
              /\ runStatus' = "in_progress"
              /\ route' \in {served, route}
              /\ UNCHANGED <<vars, served, visited, evidence, finishedAt,
                             begun, fetch, cached, processed>>

-----------------------------------------------------------------------------
(* fetchRoute, on mounting, after a replay, or again: the server's answer  *)
(* replaces what the screen shows and what is cached.                      *)
Refetch == /\ fetch = NoRoute
           /\ route = NoRoute
           /\ fetch' = Asked
           /\ UNCHANGED <<vars, backend, route, begun, cached, processed>>

RouteIsRead == /\ fetch = Asked
               /\ online
               /\ fetch' = Served
               /\ UNCHANGED <<vars, backend, route, begun, cached, processed>>

FetchAnswered == /\ fetch \in Route
                 /\ online
                 /\ route' = fetch
                 /\ cached' = fetch
                 /\ fetch' = NoRoute
                 /\ UNCHANGED <<vars, backend, begun, processed>>

(* Without a network the cached copy is shown, when there is one.          *)
FetchFails == /\ fetch # NoRoute
              /\ route' \in {route, IF cached = NoRoute THEN route ELSE cached}
              /\ fetch' = NoRoute
              /\ UNCHANGED <<vars, backend, begun, cached, processed>>

-----------------------------------------------------------------------------
(* A step of the replay; when it was the last and a completion succeeded,  *)
(* 'baseline:after-replay' makes the screen fetch the route.               *)
AfterReplay(succeeded) ==
    /\ IF todo' # {}
       THEN processed' = succeeded /\ UNCHANGED fetch
       ELSE /\ processed' = FALSE
            /\ fetch' = IF succeeded THEN Asked ELSE fetch
    /\ UNCHANGED <<route, begun, cached>>

ReplayAcknowledged ==
    /\ Acknowledged
    /\ Serves(Current)
    /\ AfterReplay(processed \/ Current.type = "complete")

ReplayRefused ==
    /\ Refused
    /\ Refuses(Current)
    /\ Untouched
    /\ AfterReplay(processed)

ReplayPhotoMissing ==
    /\ PhotoMissing
    /\ Safety \notin evidence[Current.stop]
    /\ Untouched
    /\ AfterReplay(processed)

ReplayNetworkFails ==
    /\ NetworkFails
    /\ Unheard(Current)
    /\ AfterReplay(processed)

ReplayElse ==
    /\ Prepare \/ PrepareFails \/ Clean
    /\ AfterReplay(processed)
    /\ UNCHANGED backend

FieldReplay == \/ ReplayAcknowledged \/ ReplayRefused \/ ReplayPhotoMissing
               \/ ReplayNetworkFails \/ ReplayElse

-----------------------------------------------------------------------------
(* The page is mounted again; a request under way goes its own way.        *)
FieldReload ==
    /\ Reload
    /\ route' = NoRoute
    /\ begun' = {}
    /\ processed' = FALSE
    /\ fetch' = Asked
    /\ UNCHANGED cached
    /\ IF pc = "sent" THEN Unheard(Current) ELSE UNCHANGED backend

Connectivity == /\ GoOnline \/ GoOffline
                /\ UNCHANGED <<backend, screen>>

PhotoIsQueued == /\ \E x \in staged : QueuePhoto(x)
                 /\ UNCHANGED <<backend, screen>>

FieldNext ==
    \/ \E s \in Stop : TapStart(s) \/ TapSkip(s) \/ TapComplete(s)
    \/ \E p \in Photo, s \in Stop, k \in Kind : TapPhoto(p, s, k)
    \/ PhotoIsQueued \/ Back \/ StartRoute
    \/ Refetch \/ RouteIsRead \/ FetchAnswered \/ FetchFails
    \/ FieldReplay \/ FieldReload \/ Connectivity

FieldSpec == FieldInit /\ [][FieldNext]_fieldVars

-----------------------------------------------------------------------------
(* Whatever is lost, repeated or late, the server's record of the stops    *)
(* moves as StopRecord promises.                                           *)
Record == INSTANCE StopRecord WITH
              Stop <- Stop, status <- served, visit <- visited,
              runStatus <- runStatus, finishedAt <- finishedAt

ServerKeepsRecord == Record!Spec

(* "Never let the UI say done and the server not know": a stop the screen  *)
(* shows as done or skipped is so on the server, or an action that says so *)
(* is still in the queue, waiting, under way, or marked failed.            *)
NoWorkForgotten ==
    \A s \in Stop :
        route[s] \in Terminal =>
            \/ served[s] \in Terminal
            \/ \E i \in DOMAIN queue : /\ queue[i].stop = s
                                       /\ queue[i].type \in {"skip", "complete"}
                                       /\ queue[i].status # "done"

(* A queued photo the server has acknowledged is evidence of the visit,    *)
(* although the server says 200 to a photo it drops: the replay never      *)
(* uploads before the start of the stop has arrived, unless that start     *)
(* failed or was left "running" by a reload.                               *)
QueuedPhotoIsEvidence ==
    \A i \in DOMAIN queue :
        queue[i].type = "upload" /\ queue[i].id \in acked =>
            \/ queue[i].kind \in evidence[queue[i].stop]
            \/ \E j \in DOMAIN queue : /\ queue[j].type = "start"
                                       /\ queue[j].stop = queue[i].stop
                                       /\ queue[j].status \in {"failed", "running"}
=============================================================================
