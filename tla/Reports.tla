------------------------------- MODULE Reports -------------------------------
(***************************************************************************)
(* What the offices read of the day's work: clean log, control centre, run *)
(* lists, stop histories.  Nothing is stored for them: each is computed    *)
(* from visits, observations, assignments and route_run_stops, by a query  *)
(* of its own, along joins of its own.                                     *)
(***************************************************************************)
EXTENDS Observations, FiniteSets, Functions

CONSTANTS Item,          \* route_run_stops
          ItemRun,       \* ItemRun[i]: its route run
          ItemStop,      \* ItemStop[i]: its stop
          CompleteForm, SkipForm,   \* what a worker may send
          LastDay,       \* bound on the days that pass
          MaxVisits      \* bound on the stops that are started

(* createRouteRun refuses a stop named twice (one assignment per location) *)
(* and the migrations register every presence type and cleaning action,    *)
(* trash_volume as a measurement and spot_check as a condition.  A skip    *)
(* sends its hazards and no cleaning.                                      *)
ASSUME ReportsAssumption ==
    /\ IsFiniteSet(Item) /\ LastDay \in Nat \ {0}
    /\ \A i, j \in Item : ItemRun[i] = ItemRun[j] /\ ItemStop[i] = ItemStop[j] => i = j
    /\ \A t \in SafetyPresenceTypes \union InfraPresenceTypes :
          t \in DOMAIN Rule /\ Rule[t].kind = "presence"
    /\ \A t \in CleanActionKeys : t \in DOMAIN Rule /\ Rule[t].kind = "action"
    /\ \A t \in {"trash_volume", "spot_check"} \intersect DOMAIN Rule :
          Rule[t].kind \in {"measurement", "condition"}
    /\ CompleteForm \union SkipForm \subseteq StopUiPayload
    /\ \A ui \in SkipForm : ui.acts = {}

VARIABLES today,         \* CURRENT_DATE
          item,          \* route_run_stops.status
          closed,        \* runs whose status is finished or completed
          visitOf,       \* core.visits of each stop of a run
          observed,      \* core.observations of each visit, in the order written
          effort,        \* stop_effort_history
          owedSkip,      \* a skip that is committed, its observations not yet written
          sent           \* history: the form a stop was completed with

reportVars == <<today, item, closed, visitOf, observed, effort, owedSkip, sent>>

ReportRun == {ItemRun[i] : i \in Item}
StopsOf(r) == {i \in Item : ItemRun[i] = r}
RunDate == 1     \* the day the runs were created for
NoVisit == [outcome |-> "none", day |-> 0, assignment |-> "none"]
NoForm == [hazards |-> <<>>, severity |-> NULL, acts |-> {}, volume |-> NULL,
           issues |-> <<>>, spot |-> FALSE]
NoEffort == [hazard |-> FALSE, infra |-> FALSE, volume |-> NULL]
Resolved == {"done", "skipped"}

ReportTypeOK ==
    /\ today \in 1..LastDay
    /\ item \in [Item -> {"pending", "in_progress"} \union Resolved]
    /\ closed \subseteq ReportRun
    /\ \A i \in Item : /\ visitOf[i].outcome \in {"none", "open", "completed", "skipped"}
                       /\ visitOf[i].day \in 0..today
                       /\ \A k \in DOMAIN observed[i] : observed[i][k].day \in 1..today
    /\ owedSkip \in [Item -> SkipForm \union {NoForm}]
    /\ sent \in [Item -> CompleteForm \union {NoForm}]

ReportInit == /\ today = 1
              /\ item = [i \in Item |-> "pending"]
              /\ closed = {}
              /\ visitOf = [i \in Item |-> NoVisit]
              /\ observed = [i \in Item |-> <<>>]
              /\ effort = [i \in Item |-> NoEffort]
              /\ owedSkip = [i \in Item |-> NoForm]
              /\ sent = [i \in Item |-> NoForm]

-----------------------------------------------------------------------------
(* ensureVisitForRouteRunStop: the visit is attached to one of the run's   *)
(* assignments, LIMIT 1, whichever the database returns.                   *)
EnsureVisitOfStop(i) ==
    {[outcome |-> "open", day |-> 0, assignment |-> a] :
        a \in {b \in Item : ItemStop[b] = ItemStop[i]}}
EnsureVisit(i) ==
    IF visitOf[i] # NoVisit THEN {visitOf[i]}
    ELSE {[outcome |-> "open", day |-> 0, assignment |-> a] : a \in StopsOf(ItemRun[i])}

CloseVisit(v, outcome) ==
    IF v.outcome = "open" THEN [v EXCEPT !.outcome = outcome, !.day = today] ELSE v

(* checkAndCompleteRouteRun.                                               *)
AfterCheck(r, items) ==
    IF \A i \in StopsOf(r) : items[i] \in Resolved THEN closed \union {r} ELSE closed

StartStop(i) ==
    /\ item[i] = "pending"
    /\ Cardinality({j \in Item : visitOf[j] # NoVisit}) < MaxVisits
    /\ item' = [item EXCEPT ![i] = "in_progress"]
    /\ \E v \in EnsureVisit(i) : visitOf' = [visitOf EXCEPT ![i] = v]
    /\ UNCHANGED <<today, closed, observed, effort, owedSkip, sent>>

(* The effort row reads the observations of the visit, the form's own      *)
(* among them.                                                             *)
Effort(rows, ui) ==
    [hazard |-> \E k \in DOMAIN rows : rows[k].type \in SafetyPresenceTypes,
     infra  |-> \E k \in DOMAIN rows : rows[k].type \in InfraPresenceTypes,
     volume |-> ui.volume]

Emitted(ui) == (IF ui.spot THEN EmitSpotCheck(today) ELSE <<>>) \o InsertObservations(ui, today)

(* One transaction, after the photo count and the checks of the form.      *)
CompleteStop(i, ui) ==
    /\ item[i] \in {"in_progress", "skipped"}
    /\ (ui.acts # {} /\ ui.volume \in 0..4) \/ (ui.acts = {} /\ ui.spot)
    /\ item' = [item EXCEPT ![i] = "done"]
    /\ visitOf' = [visitOf EXCEPT ![i] = CloseVisit(@, "completed")]
    /\ observed' = [observed EXCEPT ![i] = @ \o Emitted(ui)]
    /\ effort' = [effort EXCEPT ![i] = Effort(observed'[i], ui)]
    /\ closed' = AfterCheck(ItemRun[i], item')
    /\ sent' = [sent EXCEPT ![i] = ui]
    /\ UNCHANGED <<today, owedSkip>>

(* skip-with-hazard commits first and writes its observations on another   *)
(* connection afterwards, or never.                                        *)
SkipStop(i, ui) ==
    /\ item[i] = "in_progress"
    /\ ui.hazards # <<>>
    /\ item' = [item EXCEPT ![i] = "skipped"]
    /\ visitOf' = [visitOf EXCEPT ![i] = CloseVisit(@, "skipped")]
    /\ owedSkip' = [owedSkip EXCEPT ![i] = ui]
    /\ UNCHANGED <<today, closed, observed, effort, sent>>

SkipEmits(i) ==
    /\ owedSkip[i] # NoForm
    /\ observed' = [observed EXCEPT ![i] = @ \o InsertObservations(owedSkip[i], today)]
    /\ owedSkip' = [owedSkip EXCEPT ![i] = NoForm]
    /\ closed' = AfterCheck(ItemRun[i], item)
    /\ UNCHANGED <<today, item, visitOf, effort, sent>>

SkipBreaksOff(i) ==
    /\ owedSkip[i] # NoForm
    /\ owedSkip' = [owedSkip EXCEPT ![i] = NoForm]
    /\ UNCHANGED <<today, item, closed, visitOf, observed, effort, sent>>

(* The dispatcher opens and closes a run at any time.                      *)
RestartRunOf(r) == /\ closed' = closed \ {r}
                   /\ UNCHANGED <<today, item, visitOf, observed, effort, owedSkip, sent>>
FinishRunOf(r) == /\ closed' = closed \union {r}
                  /\ UNCHANGED <<today, item, visitOf, observed, effort, owedSkip, sent>>

MidnightPasses == /\ today < LastDay
                  /\ today' = today + 1
                  /\ UNCHANGED <<item, closed, visitOf, observed, effort, owedSkip, sent>>

ReportNext == \/ MidnightPasses
              \/ \E r \in ReportRun : RestartRunOf(r) \/ FinishRunOf(r)
              \/ \E i \in Item :
                   \/ StartStop(i) \/ SkipEmits(i) \/ SkipBreaksOff(i)
                   \/ \E ui \in CompleteForm : CompleteStop(i, ui)
                   \/ \E ui \in SkipForm : SkipStop(i, ui)

ReportSpec == ReportInit /\ [][ReportNext]_reportVars

-----------------------------------------------------------------------------
(* The queries.  Rows are counted with their place: two rows that look the *)
(* same are two.                                                           *)
Rows == UNION {{i} \X (DOMAIN observed[i]) : i \in Item}
RowAt(x) == observed[x[1]][x[2]]
RunOfVisit(i) == ItemRun[visitOf[i].assignment]

IsPresence(x, types) == RowAt(x).kind = "presence" /\ RowAt(x).type \in types
OfToday(x) == RowAt(x).day = today

(* GET /ops/control-center/overview                                        *)
CleanedToday == {i \in Item : visitOf[i].outcome = "completed" /\ visitOf[i].day = today}
Overview == [cleanEvents |-> Cardinality(CleanedToday),
             hazards |-> Cardinality({x \in Rows : /\ RowAt(x).type \in SafetyPresenceTypes
                                                   /\ OfToday(x)})]

(* GET /ops/control-center/exceptions                                      *)
Exceptions ==
    [hazards |-> Cardinality({x \in Rows : IsPresence(x, SafetyPresenceTypes) /\ OfToday(x)}),
     infra |-> Cardinality({x \in Rows : IsPresence(x, InfraPresenceTypes) /\ OfToday(x)})]

(* GET /ops/route-runs: one row per run.                                   *)
RunRow(r) ==
    [stops |-> Cardinality(StopsOf(r)),
     resolved |-> Cardinality({i \in StopsOf(r) : item[i] \in Resolved}),
     skipped |-> Cardinality({i \in StopsOf(r) : item[i] = "skipped"}),
     hazards |-> Cardinality({x \in Rows : /\ RunOfVisit(x[1]) = r
                                           /\ IsPresence(x, SafetyPresenceTypes)
                                           /\ OfToday(x)})]

(* GET /ops/control-center/routes: one row per run still open.             *)
RouteStatus == {<<r, RunRow(r).stops, RunRow(r).resolved, RunRow(r).skipped>> :
                   r \in ReportRun \ closed}

(* GET /admin/dashboard and GET /admin/route-runs: the runs of today, by   *)
(* the database's date and by the date of UTC, which are the same here.    *)
RunsOfToday == IF today = RunDate THEN ReportRun ELSE {}
Dashboard == [active |-> Cardinality(RunsOfToday \ closed),
              completed |-> Cardinality(RunsOfToday \intersect closed)]
AdminRuns == {<<r, Cardinality(StopsOf(r))>> : r \in RunsOfToday}

(* GET /ops/control-center/difficulty: the visits behind each route's      *)
(* density, and the stops that are compared.                               *)
RouteWork(r) == {i \in CleanedToday : RunOfVisit(i) = r}

(* GET /stops/:stop_id/history: visits of the stop and their observations. *)
StopHistory(s) == LET visits == {i \in Item : ItemStop[i] = s /\ visitOf[i] # NoVisit}
                  IN  [visits |-> visits, rows |-> {x \in Rows : x[1] \in visits}]

(* loadRouteRunById: each stop of a run, with the actions of its visits,   *)
(* which are found along assignment -> run and location -> stop, and       *)
(* whether a spot check is among its events.                               *)
RunDetail(r) ==
    [i \in StopsOf(r) |->
        LET seen == {v \in Item : /\ visitOf[v] # NoVisit
                                  /\ RunOfVisit(v) = r
                                  /\ ItemStop[v] = ItemStop[i]}
            rows == {RowAt(x) : x \in {y \in Rows : y[1] \in seen}}
        IN  [status |-> item[i],
             acts |-> {o.intervention : o \in {w \in rows : w.kind = "action"}},
             spot |-> \E o \in rows : o.type = "spot_check"]]

(* The clean log: completed visits, along assignment -> run -> the run's   *)
(* row for the visit's stop, its actions pivoted to booleans.              *)
CleanLog ==
    {[visit |-> j[1], item |-> j[2],
      acts |-> {RowAt(x).intervention :
                   x \in {y \in Rows : y[1] = j[1] /\ RowAt(y).kind = "action"}}] :
        j \in {v \in Item \X Item :
                 /\ visitOf[v[1]].outcome = "completed"
                 /\ ItemRun[v[2]] = RunOfVisit(v[1])
                 /\ ItemStop[v[2]] = ItemStop[v[1]]}}

-----------------------------------------------------------------------------
(* Five screens count the same day.  However the stops are worked, skipped *)
(* late or finished after midnight, every presence observation of today is *)
(* either a hazard or an infrastructure issue, never both; the overview,   *)
(* the exceptions and the run list agree on the hazards; the overview, the *)
(* route density and the clean log on what was cleaned; the run list and   *)
(* the route table show an open run alike, which the dashboard counts on   *)
(* its day; the page of a run shows of a cleaned stop what the clean log   *)
(* shows; and the histories of the stops leave no observation out          *)
(* (presenceTaxonomy.ts:3-22, loadRouteRunById.ts:89-118).                 *)
ScreensAgree ==
    /\ Cardinality({x \in Rows : RowAt(x).kind = "presence" /\ OfToday(x)}) =
          Exceptions.hazards + Exceptions.infra
    /\ Overview.hazards = Exceptions.hazards
    /\ SumFunction([r \in ReportRun |-> RunRow(r).hazards]) = Exceptions.hazards
    /\ SumFunction([r \in ReportRun |-> Cardinality(RouteWork(r))]) = Overview.cleanEvents
    /\ Cardinality({l \in CleanLog : l.visit \in CleanedToday}) = Overview.cleanEvents
    /\ today = RunDate => Cardinality(RouteStatus) = Dashboard.active
    /\ Cardinality(AdminRuns) = Dashboard.active + Dashboard.completed
    /\ \A l \in CleanLog : RunDetail(ItemRun[l.item])[l.item].acts = l.acts
    /\ \A t \in RouteStatus : t[3] = RunRow(t[1]).resolved /\ t[4] <= t[3]
    /\ UNION {StopHistory(ItemStop[i]).rows : i \in Item} = Rows

(* "A completed, ended visit IS a clean event": the clean log has one row  *)
(* for each completed visit, of the right stop of the right run, with the  *)
(* actions its worker reported and no others, also when the same stop was  *)
(* cleaned in another run, and the effort row says of a completed stop     *)
(* whether its form reported a hazard, and the page of the run whether it  *)
(* was a spot check                                                        *)
(* (cleanLogsCanonicalQuery.ts:138, cleanLogService.ts:197-230).           *)
CleanLogTellsTheForm ==
    /\ \A i \in Item :
          visitOf[i].outcome = "completed" =>
              \E l \in CleanLog : l = [visit |-> i, item |-> i, acts |-> sent[i].acts]
    /\ Cardinality(CleanLog) = Cardinality({i \in Item : visitOf[i].outcome = "completed"})
    /\ \A i \in Item :
          item[i] = "done" => /\ sent[i].hazards # <<>> => effort[i].hazard
                              /\ effort[i].volume = sent[i].volume
                              /\ RunDetail(ItemRun[i])[i].spot = sent[i].spot
=============================================================================
