------------------------------ MODULE Dispatch ------------------------------
(***************************************************************************)
(* The dispatcher's side of route runs (routeRunRoutes.ts,                 *)
(* routeRunService.ts): choosing the stops of a pool by risk and           *)
(* overrides, creating the run in one transaction, and assigning workers.  *)
(* Planning takes a while (OSRM) and holds no lock: pools and the stops'   *)
(* assets are changed under it.  The order of the stops is RouteOrder.     *)
(***************************************************************************)
EXTENDS Integers, FiniteSets

CONSTANTS PoolStop,    \* stops an administrator can put in the pool
          Risks,       \* risk snapshots: functions from PoolStop
          Overrides,   \* sets of rows of lead_route_overrides
          RawLimit,    \* RAW_LIMIT
          RunLimit,    \* MAX_OSRM_STOPS
          Bonus,       \* INCLUDE_BONUS, without the highest risk
          Worker, Nobody,
          Planner,     \* requests of dispatchers served at one time
          Run          \* ids of runs that can be created

NoRow == "no row"
OverrideType == {"FORCE_INCLUDE", "FORCE_EXCLUDE", "PRIORITY_BUMP"}

(* A bump is any number: the code checks neither its sign nor its size.    *)
ASSUME DispatchAssumption ==
    /\ Risks \subseteq [PoolStop -> Nat]
    /\ \A rows \in Overrides : rows \subseteq [stop : PoolStop, type : OverrideType,
                                               value : Int]
    /\ {RawLimit, RunLimit, Bonus} \subseteq Nat \ {0}
    /\ Nobody \notin Worker
    /\ NoRow \notin Worker \union {Nobody}
    /\ IsFiniteSet(PoolStop)

VARIABLES member,      \* active memberships of the pool
          withAsset,   \* stops whose asset exists
          risk,        \* stop_risk_snapshot
          overrides,   \* rows of lead_route_overrides
          runs,        \* the runs, their stops, their canonical assignments
          assignee,    \* route_run_assignment
          planner      \* the stops each request is planning a run of

dispatchVars == <<member, withAsset, risk, overrides, runs, assignee, planner>>

Idling == [from |-> "nothing", stops |-> {}]
Absent == [made |-> FALSE, stops |-> {}, intents |-> {}]

DispatchTypeOK ==
    /\ member \subseteq PoolStop
    /\ withAsset \subseteq PoolStop
    /\ risk \in Risks
    /\ overrides \in Overrides
    /\ runs \in [Run -> [made : BOOLEAN, stops : SUBSET PoolStop, intents : SUBSET PoolStop]]
    /\ assignee \in [Run -> Worker \union {Nobody, NoRow}]
    /\ planner \in [Planner -> [from : {"nothing", "pool", "list"}, stops : SUBSET PoolStop]]

DispatchInit == /\ member = PoolStop
                /\ withAsset = PoolStop
                /\ risk \in Risks
                /\ overrides \in Overrides
                /\ runs = [r \in Run |-> Absent]
                /\ assignee = [r \in Run |-> NoRow]
                /\ planner = [p \in Planner |-> Idling]

-----------------------------------------------------------------------------
(* Memberships come and go; an asset is retired.                           *)
ToggleMember(s) ==
    /\ member' = IF s \in member THEN member \ {s} ELSE member \union {s}
    /\ UNCHANGED <<withAsset, risk, overrides, runs, assignee, planner>>

RetireAsset(s) ==
    /\ s \in withAsset
    /\ withAsset' = withAsset \ {s}
    /\ UNCHANGED <<member, risk, overrides, runs, assignee, planner>>

-----------------------------------------------------------------------------
Of(type) == {o.stop : o \in {x \in overrides : x.type = type}}
Included == Of("FORCE_INCLUDE")
Excluded == Of("FORCE_EXCLUDE")

(* Several bumps of a stop are added up.                                   *)
Bump(s) == LET rows == {o \in overrides : o.type = "PRIORITY_BUMP" /\ o.stop = s}
               sum[R \in SUBSET rows] ==
                   IF R = {} THEN 0
                   ELSE LET o == CHOOSE x \in R : TRUE IN o.value + sum[R \ {o}]
           IN  sum[rows]

(* The n best of S by a score; which of equals is left open, for the other *)
(* weights and the names of the stops decide.                              *)
Best(S, n, score) ==
    {T \in SUBSET S : /\ Cardinality(T) = (IF Cardinality(S) < n THEN Cardinality(S) ELSE n)
                      /\ \A s \in T, t \in S \ T : score[s] >= score[t]}

(* What a plan knows after its queries: the riskiest members, without the  *)
(* excluded ones, and the forced ones it has not got, with a risk of 0.    *)
Pooled(raw) ==
    LET kept == raw \ Excluded
        fetched == (Included \ kept) \intersect member
        cand == kept \union fetched
        known == [s \in cand |-> IF s \in kept THEN risk[s] ELSE 0]
        top == IF cand = {} THEN 0
               ELSE CHOOSE m \in {known[s] : s \in cand} : \A s \in cand : known[s] <= m
    IN  [cand |-> cand,
         score |-> [s \in cand |-> known[s] + Bump(s) +
                       (IF s \in Included THEN top + Bonus ELSE 0)]]

(* getCandidateStopsForPoolWithRisk: the sets of stops it can return.      *)
CandidatesIncludesLast ==
    UNION {LET kept == raw \ Excluded IN Best(kept, RunLimit, risk) :
              raw \in Best(member, RawLimit, risk)}

Candidates ==
    UNION {LET p == Pooled(raw) IN Best(p.cand, RunLimit, p.score) :
              raw \in Best(member, RawLimit, risk)}

(* POST /route-runs, first half: the stops are chosen, from the pool or by *)
(* the dispatcher, and there must be two of them.                          *)
PlanFromPool(p) ==
    /\ planner[p] = Idling
    /\ \E stops \in Candidates :
         /\ Cardinality(stops) >= 2
         /\ planner' = [planner EXCEPT ![p] = [from |-> "pool", stops |-> stops]]
    /\ UNCHANGED <<member, withAsset, risk, overrides, runs, assignee>>

PlanFromList(p) ==
    /\ planner[p] = Idling
    /\ \E stops \in SUBSET PoolStop :
         /\ Cardinality(stops) \in 2..RunLimit
         /\ planner' = [planner EXCEPT ![p] = [from |-> "list", stops |-> stops]]
    /\ UNCHANGED <<member, withAsset, risk, overrides, runs, assignee>>

(* OSRM, the base, a statement or the process fails: nothing was written.  *)
PlanFails(p) == /\ planner[p] # Idling
                /\ planner' = [planner EXCEPT ![p] = Idling]
                /\ UNCHANGED <<member, withAsset, risk, overrides, runs, assignee>>

CreateWithoutCount(p, r, w) ==
    /\ planner[p] # Idling
    /\ ~runs[r].made
    /\ runs' = [runs EXCEPT ![r] = [made |-> TRUE, stops |-> planner[p].stops,
                  intents |-> planner[p].stops \intersect withAsset]]
    /\ assignee' = [assignee EXCEPT ![r] = w]
    /\ planner' = [planner EXCEPT ![p] = Idling]
    /\ UNCHANGED <<member, withAsset, risk, overrides>>

(* INSERT INTO core.assignments ... SELECT: a stop without its asset has   *)
(* no row to join.                                                         *)
Intents(stops) == stops \intersect withAsset

(* The transaction: the run, who it is for, its stops, and one canonical   *)
(* assignment per stop that resolves through its asset.  With fewer        *)
(* assignments than stops it is rolled back.                               *)
CreateRouteRun(p, r, w) ==
    LET intents == Intents(planner[p].stops)
    IN  /\ planner[p] # Idling
        /\ ~runs[r].made
        /\ intents = planner[p].stops
        /\ runs' = [runs EXCEPT ![r] = [made |-> TRUE, stops |-> planner[p].stops,
                                        intents |-> intents]]
        /\ assignee' = [assignee EXCEPT ![r] = w]
        /\ planner' = [planner EXCEPT ![p] = Idling]
        /\ UNCHANGED <<member, withAsset, risk, overrides>>

-----------------------------------------------------------------------------
(* PATCH /route-runs/:id/assign: the sidecar row is inserted from the      *)
(* run's row, or updated; for a run that does not exist the answer is 404. *)
AssignRouteRun(r, w) ==
    /\ runs[r].made
    /\ assignee' = [assignee EXCEPT ![r] = w]
    /\ UNCHANGED <<member, withAsset, risk, overrides, runs, planner>>

PostRouteRuns(p) ==
    \/ PlanFromPool(p) \/ PlanFromList(p) \/ PlanFails(p)
    \/ \E r \in Run, w \in Worker \union {Nobody} : CreateRouteRun(p, r, w)

PatchAssign(r) == \E w \in Worker \union {Nobody} : AssignRouteRun(r, w)

DispatchNext == \/ \E s \in PoolStop : ToggleMember(s) \/ RetireAsset(s)
                \/ \E p \in Planner : PostRouteRuns(p)
                \/ \E r \in Run : PatchAssign(r)

DispatchSpec == DispatchInit /\ [][DispatchNext]_dispatchVars

-----------------------------------------------------------------------------
(* "shipping a run with silently-missing assignment intent is exactly the  *)
(* invisible failure this system must never produce": a run has an         *)
(* assignment for each of its stops, at least two of them, and a row that  *)
(* says who it is for; a run that was never made has none, although assets *)
(* and pools change while it is planned and workers are assigned at once.  *)
RunIsWhole ==
    \A r \in Run :
        /\ runs[r].intents = runs[r].stops
        /\ runs[r].made <=> assignee[r] # NoRow
        /\ runs[r].made => Cardinality(runs[r].stops) \in 2..RunLimit

(* What a plan from the pool makes of the overrides: only members, no stop *)
(* that was excluded (unless it was also forced in), and no forced member  *)
(* left out while one that is not forced goes, also when its risk is below *)
(* the cut of the first query and another stop is bumped.                  *)
PlanHonoursOverrides ==
    [][\A p \in Planner :
          planner[p] = Idling /\ planner'[p].from = "pool" =>
              LET stops == planner'[p].stops
              IN  /\ stops \subseteq member
                  /\ stops \intersect Excluded \subseteq Included
                  /\ \A s \in Included \intersect member :
                        \/ s \in stops
                        \/ stops \subseteq Included /\ Cardinality(stops) = RunLimit]_dispatchVars
=============================================================================
