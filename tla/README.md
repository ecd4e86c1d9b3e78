# Formal models of fieldpro_pilot

TLA+ specifications, TLC model checks and TLAPS proofs for the program in this
repository: a React client that field workers use to service transit stops,
on- and offline, and an Express/PostgreSQL backend that records what they did,
plans and assigns their routes and reports on them.

| Module | What it is |
|---|---|
| `StopLifecycle` | the backend's stop and run endpoints, statement by statement |
| `StopRecord` | what those endpoints promise, one step per request |
| `OfflineQueue` | the client's action queue, photo store and replay |
| `FieldSync` | `OfflineQueue` with the worker's screen in front of it and the server, behind a lossy network, at its end |
| `StopForm` | the form of a stop, the screen's copy of it and its stored draft |
| `Dispatch` | choosing the stops of a run, creating it, assigning workers |
| `RoutePanel` | the dispatcher's panel that asks for a preview and saves a run |
| `RouteOrder` | the order of a run's stops: local search, corridors, sanity pass |
| `Session` | the browser's account, its identity pings and its tokens |
| `Access` | authentication, roles, and the organisation a connection is scoped to |
| `PoolAdmin`, `Registry` | administration of stops and pools; assets, types, flags |
| `Observations`, `Reports` | what a form becomes, and what five screens count of it |
| `RiskMap` | rebuilding the risk snapshot |
| `EamBridge`, `SftpExport` | the scheduled jobs |
| `OrgDeletion` | export and deletion of an organisation |
| `Migrations` | the migration runner |
| `Platform` | the composition of the fourteen parts below `FieldSync` |
| `StopLifecycleProofs`, `OfflineQueueProofs`, `FieldSyncProofs` | theorems about these three modules, for every value of their constants |
| `JobProofs` | the same for `EamBridge`, `SftpExport`, `Migrations`, `RiskMap` |
| `DispatchProofs` | for `Dispatch`, `RoutePanel`, `RouteOrder` |
| `OfficeProofs` | for `Session`, `Access`, `PoolAdmin`, `Registry`, `StopForm` |
| `OrgDeletionProofs` | for `OrgDeletion` |
| `PlatformProofs` | for `Observations` and `Reports`, and for `Platform` as a whole |
| `MCStopLifecycle`, `MCOfflineQueue`, `MCPlatform` | constants and symmetry for TLC |

To check: `tlc -config StopHandlers.cfg MCStopLifecycle.tla` (and so on for the
table under *Runs*), `tlapm StopLifecycleProofs.tla` (and the other proof modules).

## Inventory

Each part, its state and operations, what is hard in it, and what makes it
correct. BE is `src/backend/src`, FE is `src/frontend/src`.

**Stop endpoints** (BE `modules/work/routeRunStopRoutes.ts`,
`domains/routeRunStop/*`, `domains/routeRun/operations/startRouteRunStop.ts`,
`domains/visit/visitService.ts`). State: `route_run_stops.status`, the
`core.visits` row, its `core.evidence` and `core.observations` rows,
`stop_effort_history`. Operations: start, upload photos, skip with hazard,
complete. Hard: each is a different mixture of autocommitted statements, a
transaction, row locks and a second connection; nothing serialises two requests
about one stop but what PostgreSQL locks; a handler may die between two
statements. Correct: the rows of a stop tell one story; a stop that was done or
skipped stays so; done stops have their evidence.

**Route-run status** (BE `domains/routeRun/routeRunService.ts`,
`modules/routes/routeRunRoutes.ts`). State: `route_runs.status`,
`finished_at`. Operations: start and finish by a person, automatic finish when
no stop is left. Hard: the count of open stops and the update of the run are
separate statements. Correct: a run the system closed has nothing left to do;
one with nothing left to do gets closed.

**Connection pool and org context** (BE `db.ts`). State: connections in use and
the org each is scoped to. Hard: a handler may need a second connection while it
holds one; a connection must not carry its org to the next request. Correct:
nobody waits for ever; every query runs under its own org.

**Client queue and replay** (FE `offline/offlineQueue.ts`,
`offline/OfflineSyncManager.tsx`). State: the list of actions (memory and
localStorage), the replay lock. Operations: enqueue with merging, status
updates, replay. Hard: a replay awaits the network, IndexedDB and a token, and
anything may change the queue meanwhile; reloads; lost requests and lost
answers. Correct: nothing is lost, nothing acknowledged is sent again, the order
of dependent actions, nothing waits for ever.

**Client photo, draft and route caches** (FE `offline/photoStore.ts`,
`stopDraftStore.ts`, `todayRouteCache.ts`). State: IndexedDB blobs and drafts, a
cached route. Correct: a blob outlives its upload.

**Route screen and stop form** (FE `hooks/useTodayRoute.ts`,
`components/today-route/*`, `api/routeRuns.ts`). State: an optimistic copy of
the route, overwritten by every fetch; the form of the open stop, part of which
survives going back to the list and part of which is reset; a draft in IndexedDB,
loaded late and saved by a timer. Issues the queue's actions. Correct: nothing is
shown as done that the server will never hear of; the form does not contradict
itself; nothing irreversible without the question that announces it.

**Session** (FE `auth/AuthContext.tsx`). State: account, identity, one token
acquisition in flight, ping failures. Hard: back-off timers against renders,
answers for an account that has signed out. Correct: whoever is signed in gets
asked for until known; a call never gets somebody else's token.

**Route creation, assignment, overrides** (BE `routeRunService.ts`,
`routeOverrideService.ts`). State: runs, their stops in order, assignments.
Hard: pools and assets change while a run is planned; overrides meet two cuts of
the candidates. Correct: a run has an assignment per stop and a worker; a forced
stop goes, an excluded one does not.

**Dispatcher's panel** (FE `hooks/useCreateRoute.ts`). State: mode, pickers, the
preview shown, a save under way. Hard: a preview that lands after its
selection changed. Correct: what is saved is what it is tagged as.

**Route ordering** (BE `routing/*`). Local search and splicing over a stop
sequence. Correct: a permutation of its input; moves improve; the last pass
leaves nothing to correct.

**Access** (BE `middleware/authz.ts`, `devAuthBypass.ts`, `resolveOrgId.ts`,
`db.ts`, `auditLog.ts`). State: the org left on each pooled connection. Hard:
handlers that manage connections themselves, resets that fail in an aborted
transaction. Correct: every scoped query runs in the caller's organisation.

**Stop and pool administration, registry** (BE `services/admin*.ts`,
`domains/asset/assetService.ts`, `modules/admin/tenantRoutes.ts`). State: the
pool of a stop, stored twice; assets, types, flags. Hard: dual writes without a
transaction, CSV files upserted row by row at once. Correct: the two stores
agree; files do not mix.

**Observations and reports** (BE `domains/observation/*`,
`domains/routeRunStop/cleanLog*`, `modules/admin/controlCenterRoutes.ts`). State:
none but the canonical tables. Hard: five queries with joins of their own count
the same day. Correct: they agree, and say what the worker said.

**Risk map** (BE `intelligence/riskMapService.ts`). State: a snapshot table.
Hard: overlapping rebuilds, scores that do not fit. Correct: a whole snapshot.

**EAM bridge and SFTP export** (BE `scripts/populateEamBridge.ts`,
`sftpExport.ts`). State: a watermark and the rows logged; files here and there.
Hard: runs that close while the job works, deaths and retries. Correct: the
watermark never ahead of the log; nothing announced that cannot be fetched.

**Export and delete of an organisation** (BE
`modules/admin/exportDeleteRoutes.ts`). State: confirmation tokens. Hard: check
and use of a token are apart. Correct: a deletion is whole, and has a token.

**Migration runner** (BE `scripts/migrate.ts`). State: the set of applied
files. Hard: failures between files, two runners. Correct: nothing made twice.

How they interact: the screen enqueues actions and stores photos; the queue's
replay sends them to the stop endpoints in its own order; these write the
tables, and the last one closes the run; the bridge, the reports and the risk
map read what they wrote; a dispatcher creates, assigns, starts and finishes
runs at any time; every request goes through Access and its connection.

## Plan

1. `StopLifecycle`, `StopRecord` and their proofs - **done**.
2. `OfflineQueue` and its proofs - **done**.
3. `FieldSync`, the composition of queue, network and record, with the server's
   refinement of `StopRecord`, and its proofs - **done**.
4. The other parts, `Platform` and their proofs - **done**.

Every safety invariant, action property and refinement that a passing run checks
is now a theorem. What is left: `FieldSync` with several stops in TLC (its
theorems already hold of any number); a bound on the measured part of `RouteOrder`
that would let its greedy search be compared with an optimum on small routes; and
abstract specifications, like `StopRecord`, of the pool administration and of a
rebuild of the risk map, to state what they promise in one step each.

## StopLifecycle

One route run. The state is its tables (per stop: `status`, `visit`, `evidence`,
`hazards`, `effort`; per run: `runStatus`, `finishedAt`) and the requests in
flight (`pc`, the next statement; `target`, the stop; `given`, hazards not yet
written; `draft`, an uncommitted effort row).

*Grain.* PostgreSQL runs READ COMMITTED. An action is a group of statements that
no other connection can split: a transaction's writes become visible in its
commit action, a statement that may wait for a row lock is an action of its own,
enabled when the row is free. Row locks are not variables: which rows are held
follows from the program counters (`StopFree`, `RunFree`). A `SELECT ... FOR
UPDATE` or a conditional `UPDATE` reads the row's latest version when it gets
it; a plain `SELECT` reads what is committed. So

| Handler | Actions |
|---|---|
| start | `StartUpdate` (conditional), `StartCommit`; or `StartLookup` when no row matched |
| photo | `PhotoInsert` (inserts nothing when there is no visit) |
| skip | `SkipCount`, `SkipLookup` (both before `BEGIN`), `SkipUpdate` (unconditional), `SkipCommit`, `SkipConnect`, `SkipEmit` per hazard, `SkipCheck`, `SkipFinish`, `SkipReload` |
| complete | `CompleteCount`, `CompleteConnect`, `CompleteLock`, `CompleteWork`, `CompleteFinish`, `CompleteCommit` |
| run | `StartRun`, `FinishRun` |
| any | `Arrive`; `Abort`: the handler dies, a transaction under way is rolled back |

*Connections.* A request holds one connection from its arrival on (a completion
gives its first one back before it takes the one of its transaction) and a skip
asks for a second one twice while it holds the first. With as many skips as
connections they wait for each other; `EveryRequestAnswered` is therefore
checked with one connection more than requests, and does not hold without it.

*Abstracted.* Payloads are sets of hazard types; infrastructure, spot-check and
trash-volume observations are written by the same statements as hazards and left
out; S3 is left out; a photo is its kind. Stops have a location (a stop without
one fails in `getVisitContext` and can never be serviced).

### Properties

`VisitMirrorsStop`, `DoneStopHasRecord`, `LockedReadStillHolds`,
`FinishedRunIsAllTerminal`, `StartedBeforeServiced`, `TerminalIsForever`; the
refinement `ImplementsStopRecord` (identity on the four shared variables: each
commit is one step of `StopRecord`, everything else stutters); and under
fairness `EveryRequestAnswered` and `AllSkippedRunFinishes`. Each is stated in
words above its definition.

*Fairness.* Strong fairness of each request's handler: PostgreSQL grants a row
lock in the order of its waiters and pg-pool hands connections out first come
first served, so a handler that can go on again and again is not passed over for
ever. Nothing is assumed of workers and dispatchers.

## OfflineQueue

One account on one device. `queue` is the list of actions; `store` the photos in
IndexedDB; `staged` a photo stored whose upload is not queued yet; `todo` and
`pc` the replay (the snapshot that is left, and where it is in the first action
of it); `online` and `signedIn` the browser; `acked` and `delivered` what
happened at the server, for the properties.

*Grain.* A step is what JavaScript runs between two awaits. A replay's action is
`Prepare` (token, blobs) and then one of `Acknowledged`, `Refused`,
`PhotoMissing`, `NetworkFails`; an acknowledged upload goes on to `Clean`;
`PrepareFails` is any failure before the request. The step that ends one action
also marks the next one running (`Advance`), because the code does so without an
await. `Notify` is the subscription of `OfflineSyncManager`, which starts a
replay in the same step unless one is under way. `Reload` forgets the replay and
keeps the queue as it is, `running` included.

*What follows the code rather than its documents.* The API client throws plain
`Error`s, in which `parseApiErrorCode` finds no code and `isAuthError` no
status: the branches for `ALREADY_COMPLETE`, `ROUTE_REASSIGNED` and 401 are never
taken, and every refusal but the missing safety photo of a skip marks the action
`failed`. The refusal of a completion without photo has a wording the client
does not recognise.

*Abstracted or left out.* An upload carries its set of photos, other actions no
payload; a capture stores one photo; one capture at a time, and none during a
sign-out; `requiresAuth` (no step depends on it); localStorage never full; one
account. Ids are given in order and stand for `createdAt`.

### Properties

`WaitingUploadHasBlobs`, `BlobOutlivesUpload`, `DoneWasAcknowledged`,
`AckedIsNotResent`, `CompletionGoesLast`; under fairness `ReplayEnds` and
`EveryActionSettles`.

*Fairness.* `FairSpec`: weak fairness of the replay, since every await of it
settles (`fetch`, IndexedDB and the token library call back or fail).
`ReconnectSpec` adds what the phrase "when connectivity returns" supposes of the
environment: connectivity comes and goes for ever, and if requests are sent for
ever, some are answered. `EveryActionSettles` is a statement under that
assumption; `queue_stalls` shows that without the coming and going it fails. It
is checked without reloads: an action that is `running` when the page is
reloaded stays so (a listed hazard, planned for `FieldSync`).

## FieldSync

Extends `OfflineQueue`: the same actions, with the answer of the server made
real and the screen added. The server is the record of the stops (`served`,
`visited`, `runStatus`, `finishedAt`, the variables of `StopRecord`) and the
photos of each visit; each request takes effect in one step, because what happens
between its statements is in `StopLifecycle`. A request or its answer may be
lost; a lost answer makes the queue send again what took effect. The screen is
`route` (optimistic), `begun`, a `fetch` under way, the `cached` copy and
`processed` (what decides whether a replay is followed by a fetch).

* `NoWorkForgotten`: what the screen shows as done is so on the server, or an
  action that says so is still in the queue, if only as failed. It relates a
  copy that is ahead to one that is behind, through retries, refusals, reloads
  and fetches that land late.
* `QueuedPhotoIsEvidence`: a photo of the queue that was acknowledged is
  evidence of its visit. The server answers 200 to a photo of a stop that has no
  visit and drops it (`stopPhotosService.ts:82`); that the replay does not run
  into this is a matter of its order. The two exceptions the property states are
  real: a start that failed, or one that a reload left `running`, does not
  hold back the upload behind it, and `StopDetail.tsx:383` then finds no "real
  data on next fetch".
* `ServerKeepsRecord`: however often requests arrive, the record only moves as
  `StopRecord` allows (a refinement, identity mapping).

Left out: the screen's loading skeleton, which unmounts the open stop for a
moment, and the route cache of another account (a sign-out does not clear it).

## The fourteen parts of Platform

They share a deployment, but none reads between two of its own steps what
another writes there. `Platform` therefore lets one of them run (`part`)
while the others stand in an initial state, and checks all their properties in
one run. What is concurrent inside a part (two jobs, two clerks, two planners)
is in the part.

**StopForm.** Form, safety report, draft, dialogs and timers of one stop; a
reload, a refetch, the late load and the late save of the draft. The partial
reset of `StopDetail.tsx` is modelled by what it names: neither `washed_can` nor
`spotCheck`. `SpotCheckStandsAlone`: no form and no draft claims a spot check and
work. `SkipWasConfirmed` is refuted, see below. Also seen: a load slower than
the first save lets a blank draft overwrite a full one; a completed stop's
draft is cleared only when it is opened again.

**Dispatch.** `PlanFromPool` and `PlanFromList` read pool, risks and overrides;
`CreateRouteRun` is the transaction with its count of assignments;
`AssignRouteRun` changes the worker. `RunIsWhole`,
`PlanHonoursOverrides`. Overrides are constant there; what their routes do is a
kind of request of `Access`. A bump is any number; those of the run are
below the bonus.

**RoutePanel.** Mode, pool, base, crew, stops; a preview and a save, either of
which may answer after the panel was closed and opened again.
`TaggedRunIsPicked`. Base and crew may change under a preview, so a saved run's
distance can differ from the one shown (`useCreateRoute.ts:213` hopes
otherwise); a lost answer to a save and a retry make a second run.

**RouteOrder.** One action per round of a loop: search moves, regrouping, the
sanity pass, over a table of leg durations (`Survey`: 81 of them), so that the
way back may take another time. `OrderKeepsStops`, `PassesImprove`. Streets and
bearings are data; `getBearingComponents` looks for letters anywhere in a word,
so that "Northwest" has four where its comment has two, and the model keeps this
("WEST" has three). The distance of a preview is not that of the saved order.

**Session.** Renders, effects, timers, two pings in flight, sign-in, sign-out and
a change of account. `NobodyIsStranded`. An answer that lands after a sign-out
sets `me` until the next ping corrects it.

**Access.** Two connections, one caller after another, tokens that are genuine,
of another issuer, or without identity, development and production deployments;
handlers scoped by the middleware, those that connect themselves, those that use
a plain connection. `ServedInOwnOrg`. `GET /control-center/overview` releases its
connection with the org still set (`db.ts:15` says it is cleared); scoped handlers
set their own, plain ones may meet it. The override routes run on plain
connections under policies that show nothing without an org.

**PoolAdmin.** Every way to change a stop's pool, statement by statement.
`PoolNamedOnce` holds for stops whose last update ran alone and to its end; the
model follows, in `muddled`, which are not.

**Registry.** Pools, flags, types, and the seeding of assets from CSV files, in
which two transactions wait for each other's rows or are broken by PostgreSQL
when both wait. `FilesDoNotMix`.

**Observations, Reports.** The rows a form becomes and the queries that read them,
each along its own joins, over two days and two runs that share a stop.
`ScreensAgree`, `CleanLogTellsTheForm`.

**RiskMap.** `DELETE`, `INSERT` and the condition history of one organisation's
rebuild, beside another; scores in hundredths that may exceed numeric(4,2) and
fail it. `SnapshotIsWhole`.

**EamBridge.** Selection, inserts and watermark of two jobs over two
organisations while runs complete. `WatermarkWasLogged`.

**SftpExport.** Bundle, tarball, checksums, four uploads, retry, audit row,
clean-up and exit code. `ExportIsUsable`.

**OrgDeletion.** Export, token, deletion in one transaction, two clerks, rows
written meanwhile. `DeletionIsWhole`.

**Migrations.** Six files stand for the directory; three kinds of database; two
runners. `AppliedExactlyOnce`.

## Runs

| Run | cfg | Shows |
|---|---|---|
| `stop_handlers` | `StopHandlers` | the safety properties and the refinement, with failures at every statement |
| `stop_liveness` | `StopLiveness` | every request is answered; a run whose stops were all skipped is closed |
| `stop_run_not_finished` | `StopRunNotFinished` | *refutes* `AllTerminalRunFinished` |
| `stop_done_skipped` | `StopDoneSkipped` | *refutes* `DoneIsNotSkipped` |
| `stop_hazard_lost` | `StopHazardLost` | *refutes* `SkippedStopHasHazard` |
| `offline_queue` | `QueueReplay` | the safety properties of the queue, with reloads, sign-out and a lossy network |
| `queue_liveness` | `QueueLiveness` | a replay ends; every action is settled |
| `queue_photo_lost` | `QueuePhotoLost` | *refutes* `DoneUploadIsDelivered` |
| `queue_stalls` | `QueueStalls` | *refutes* `NoActionWaitsForever` |
| `field_sync` | `FieldSync` | screen, queue and server end to end |
| `platform` | `Platform` | the fourteen parts, each on its own |
| `form_skip_cancelled` | `StopFormSkip` | *refutes* `SkipWasConfirmed` |

*Bounds of the stop and queue runs.*
Two stops and two requests: every hazard listed for the backend is
between two requests, about one stop or about two stops of a run; requests follow
each other without limit, so any sequence of calls, two at a time, is
covered. One hazard type and two photo kinds (the safety kind and another) are
what the guards tell apart. The queue: three actions (the longest hazards need a
start or skip in front of an upload that is merged into, or an upload, a merge
and a completion), two photos that can meet in one upload, one stop (actions of
different stops meet only in the replay's order, which is by kind first).
`MaxActions` bounds the ids given, replacements and merges included; replays,
retries, reloads and connectivity changes are unbounded. The liveness run has one
photo and no reloads. Symmetry is used in the safety runs only. Deadlock is
checked in these runs.

*Bounds of `field_sync`.* One stop, one photo, two photo kinds, three actions,
reloads. A start, an upload and a completion or skip is the longest story of a
stop; a merge and a retry fit into it because lost answers reuse an id. No
deadlock check: when the worker has closed the stop and the ids are used up,
nothing need happen.

*Bounds of `platform`.* Two of whatever may meet: clerks, planners, jobs, runners,
rebuilds, editors, seeders, connections, pings. Data so small that each guard
sees both sides: pools of three stops with room for two (`RunLimit`), so that a
cut and a bump happen; routes of four stops, the shortest with two corridors to
join, search moves bounded by `MaxMoves`; three instants of the bridge, so that a
run can fall behind the mark; three organisations of the export, so that a failed
one has one on each side; three risk stops in two organisations; two days and two
visits per item in the reports; one editable stop in `PoolAdmin`, because its
statements act on each stop alone. Deadlock is not checked: parts end (a
migration run completes, a job exits), and some of the bounds end others.
`form_skip_cancelled` may stop for the same reason; its counterexample is a
finite one to an action property.

### What the refuting runs found

* *The last two completions* (`stop_run_not_finished`). `checkAndCompleteRouteRun`
  counts inside the completion's transaction; two completions of the last two
  stops each see the other as in progress, and the run stays open with nothing
  left to do.
* *A completion overwritten by a skip* (`stop_done_skipped`). The skip checks the
  status before its transaction and updates without a condition. The visit keeps
  the outcome `completed`, so stop and visit then disagree about what happened.
* *A skip without its hazard* (`stop_hazard_lost`). The observations are written
  after the commit; after a failure there, the retry is answered `ALREADY_SKIPPED`.
* *A photo marked uploaded and never sent* (`queue_photo_lost`). It was merged
  into an upload that the running replay had already read.
* *An action that waits on an online device* (`queue_stalls`). A trigger during a
  replay is dropped, and the end of a replay is not one.
* *A skip that was cancelled* (`form_skip_cancelled`). The button stores
  `wantsToSkip` before the question is answered and Cancel leaves it there; when
  the worker then cleans the stop and presses Finish, it is queued as skipped.

### Seen while modelling, and kept in the models

These are what the code does; the properties are stated so that they hold of it,
and say so.

* The bridge's watermark is one for all organisations: a completed run that
  closes behind it is never logged, though the file says it "selects completed
  route_runs closed since the last watermark"; and runs the system closes are
  `finished`, not `completed`, and are never exported at all.
* The SFTP bundle reads organisation-scoped tables on a plain connection and so
  lacks locations, effort and condition rows.
* On a database from before the renaming the consolidated migration runs again.
* Overlapping or broken-off updates of a stop's pool leave the two places apart,
  and seeding does not reactivate a retired asset.
* A hazard whose severity makes a score of 100 or more fails every rebuild of its
  organisation until the hazard is seven days old.
* The visit of a stop that was skipped and then completed stays `skipped`, so the
  clean log omits it.
* The run list of the administrator takes its day in UTC, other queries
  `CURRENT_DATE`.

## What is proved

`StopLifecycleProofs` proves, for any sets of stops, requests, hazards and photo
kinds, any pool size, with and without failures: `TypeCorrect`, `VisitCorrect`,
`LockCorrect`, `FinishCorrect`, `RecordCorrect` (invariants), `StartedFirst`,
`TerminalStays` (action properties) and `Refinement` (`StopLifecycle` implements
`StopRecord`). The assumptions are those named in `StopLifecycle`:
`StopAssumption` and `ReportedAssumption` are the ones the proofs use.

*The argument.* None of the invariants is inductive alone. `IInv` is built in
layers, each proved inductive with the help of those before it:

1. `TypeOK`.
2. `OneLockHolder`: a stop's row has one holder. Who enters a critical section
   found the row free.
3. `StopInv`: the visit mirrors the stop; photos belong to visits; a request past
   its photo check is about a stop with a photo, hence with a visit, hence
   started; what was read under the lock still holds. This is why a skip or
   completion of a stop never started is impossible although neither handler
   checks for it.
4. `RunInv`: the count behind a decision to close the run still holds, because
   terminal stops stay terminal; the run's row has one holder.
5. `RecordInv`: photos are never taken back; the effort row precedes the commit.

The action properties follow from `StatusStepHolds`, and the refinement from one
lemma per committing action. Each proof that a step preserves a layer has one
case per action.

### The queue and the screen

`OfflineQueueProofs` proves the six properties `offline_queue` checks of
`OfflineQueue`, for any stops, photos, kinds and number of actions, with and
without reloads. The invariant `Inv` relates three things none of which is the
others' master:

* `QueueOK`, the queue: an id is given once, a photo is in one action at most and,
  while it is in one, in the store or at the server; what waits was never
  acknowledged and has its photos; what is done was.
* `SnapshotOK` and `SnapshotOf`, what a replay has left to do: an action of it that
  is still in the queue is the same piece of work under the same id, and a start or
  upload that waits is in the snapshot or younger than all of it. The last half is
  what `CompletionGoesLast` rests on, since the queue may grow in the middle.
* `ReplayOK`: who has its turn is `running` wherever it still is in the queue, and
  has its photos until it was sent; all others wait. This is what makes writing back
  by id into a changed queue harmless.

`Least` (a `CHOOSE`) is shown to find the action that goes first, by priority and
then by id (`LeastIsFirst`, from `NatMin`).

`FieldSyncProofs` first shows that every step of the composition is a step of the
queue (`FieldIsQueue`: `FieldSpec => Spec`), so that all of the above holds end to
end. `FieldInv` adds what lies between screen and server: a fetched or cached copy
is never ahead of the server (`CopyOK`); the screen is ahead by what the queue
holds (`StartKnown`, `NoWorkForgotten`); an upload was queued behind a start of its
stop (`UploadsFollowStarts`); and an acknowledged upload counts, or the start in
its way is stuck for good (`AckedUploadsCount`). `Keeps` says once what every step
of the queue leaves of its actions. `RecordIsKept` is the refinement of
`StopRecord`.

### The parts of Platform

Each has an invariant of its own, for any number of whatever works at once and any
data within the named assumptions.

* `EamBridge`: `BridgeInv` adds that what a job carries to the watermark (`top`) was
  logged when it got it; the log only grows (`LogGrows`).
* `SftpExport`: `SftpInv`. Files are put in the order of the list (`PutInOrder`), and
  the loop has an audit row or a failure for each organisation before its turn.
* `Migrations`: `MigInv`. What the ledger names is there; a runner knows of no file
  that the ledger lacks and has left none behind; of two runners that come to the same
  file, the ledger's primary key fails the second.
* `RiskMap`: `RiskInv`. A rebuild that has inserted holds a row for each stop of its
  base and deletes all others of its organisation, and two such rebuilds share no
  stop (`Apart`), which is what the primary key does for them.
* `OrgDeletion`: `DelInv` says of a deletion under way that its token was issued for
  its organisation, that it has taken rows of no other, and that of the tables behind
  it it has taken all it saw and that is still there. It needs `VisitAssumption`:
  evidence belongs to the organisation of its visit, or the cascade would take
  another's. `OthersGoOn` is the lemma that a step of somebody else disturbs none of
  it.
* `Dispatch`: `DispatchInv` adds that what is planned fits the limits
  (`CandidatesFit`). `PlanCorrect` proves `PlanHonoursOverrides` under the
  hypothesis `BumpsAreModest`: the bumps of a stop, added up, stay below the bonus
  of being forced in, and are not negative. The code adds all active rows of a stop
  (`routeRunService.ts:75,122,136`) and bounds neither a row nor their number, and
  `DispatchAssumption` does not either; without the hypothesis a stop bumped by more
  than the bonus passes a forced one. The overrides of the run satisfy it.
* `RoutePanel`: the pool of the form is that of the preview shown or asked for,
  unless the form was reset since, and what is being saved is of the pool that was
  shown (`PoolsAgree`).
* `RouteOrder`: `OrderCorrect` from the sort being a permutation (`RanksFill`,
  `SortedSorts`) and a reversal one. `PassesCorrect` has two halves. Each move of the
  search changes the duration of the whole route by exactly the `Delta` the code
  computes from the legs around it (`MoveChanges`), though the legs within are
  traversed the other way and may take another time. And the sanity pass finds every
  corridor in order: `ImproveInv` says that a pass stands at an edge of a corridor
  and that those behind it run one way.
* `Session`: `SessionInv`. Who waits, waits for a call of the same account that is
  acquiring; while `isLoading` is set a call is under way, and while it is not, the
  effect is due or the timer armed (`AttemptAhead`).
* `Access`: `AccessInv`. A connection is held by one request, which is scoped to its
  own organisation, or sets it before it queries (`Holds`); `CarriesOwnOrg` says where
  a request has its organisation from in each deployment.
* `PoolAdmin`: `PoolInv`. Who has a stop to itself is alone at it, and how far its dual
  write has come (`HalfDone`).
* `Registry` and `StopForm`: the property itself, with the rows a request goes through,
  and with the draft that is on its way to the form.
* `Reports`: `ReportInv`, that is `StopOK` of each stop: what its visit, its rows and
  its effort row may be in each status, so that the actions and the spot check among
  the rows are those of the form it was completed with. From this the queries of the
  screens are shown to count the same stops. That the counts of the runs add up to
  those of the day is `PartsAddUp`, about the folds of the community modules.
  `ReportsAssumption` says what the seeds of the registry establish: the types of
  hazards, infrastructure and actions are registered, as what they are.

`PartsBehave` shows that `Platform` implements the specification of every part, and
`PlatformCorrect` collects all of it: whatever `platform` checks on one instance holds
of any, the overrides under the hypothesis above.

*Induction.* The library's induction theorems take an operator as a parameter, which
the installed provers cannot instantiate. Sums and durations are recursive functions,
and what is proved of them uses induction over a set instead: a set of numbers with 0
and the successor of each member has all (`EveryNumber`, from the well-foundedness of
`<`), applied to the set of numbers up to which an equation holds.

Each invariant above was checked by TLC on the instance of its run before it was
proved.

### What is only model-checked

* Liveness under fairness, which is out of the prover's reach: `EveryRequestAnswered`,
  `AllSkippedRunFinishes`, `ReplayEnds`, `EveryActionSettles`.
* The six refuted properties are of course not proved.
* `PlanHonoursOverrides` without `BumpsAreModest` (see above).

## Not modelled

* The OID cipher: an encryption envelope without state; in production its
  adapter refuses and the program does not start.
* Signed URLs and S3, the HTTP shell, probes, development routes and the generated
  OpenAPI document, the screens of leads and administrators: input and output, or
  one request each. The schema's constraints and policies appear in the actions
  that meet them; the SQL of the migrations does not.
* Of modelled parts: the infrastructure report, hotspot flag, map and summary page
  of the worker; the role gate of the browser; the fields of stops, pools and
  tenants that one statement updates; filters and pages of the reports, and the
  control centre's hotspot list (its joins multiply its counts,
  `controlCenterRoutes.ts:562`).
* Hazards for which no model earns its size: an upload request takes ten files
  while merging has no limit (`ulRoutes.ts:231`); a stop without location can
  never be serviced (`visitService.ts:61`); the label of an assignment's audit row
  is read before the update (`routeRunRoutes.ts:1097`); a reload between storing a
  photo and queueing it leaves the blob (`useTodayRoute.ts:362`); `GET /overview`
  asks for a second connection while it holds one, which is the wait that
  `EveryRequestAnswered` has of skips.
* Liveness of `FieldSync` and of the parts of `Platform`: what would have to be
  fair is a person or a scheduler, except for the replay, which `queue_liveness`
  covers.
