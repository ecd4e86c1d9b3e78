--------------------------- MODULE DispatchProofs ---------------------------
(***************************************************************************)
(* Theorems about the making of a route: what Dispatch creates from a pool *)
(* or a list, the order RouteOrder gives its stops, and what the           *)
(* dispatcher saw in RoutePanel; for any pool, risks, overrides, limits,   *)
(* workers and dispatchers at once, any survey and number of stops, and    *)
(* any pools, bases and stops to pick: runs are whole, overrides are       *)
(* honoured, no pass loses a stop, each move saves time, and the last pass *)
(* is idle.                                                                *)
(***************************************************************************)
EXTENDS Dispatch, RouteOrder, RoutePanel, FiniteSetTheorems, WellFoundedInduction, TLAPS

-----------------------------------------------------------------------------
(* Induction over numbers, by sets.                                        *)

(* What holds of 0 and of the successor of whatever it holds of, holds of  *)
(* every number.                                                           *)
LEMMA EveryNumber ==
    ASSUME NEW P, 0 \in P, \A n \in Nat : n \in P => n + 1 \in P
    PROVE  Nat \subseteq P
<1> SUFFICES ASSUME Nat \ P # {}
             PROVE  FALSE
  OBVIOUS
<1> DEFINE R == OpToRel(<, Nat)
<1>1. \A m, n \in Nat : m < n => <<m, n>> \in R
  BY DEF OpToRel
<1>2. IsWellFoundedOn(R, Nat)
  BY NatLessThanWellFounded
<1> HIDE DEF R
<1>3. PICK n \in Nat \ P : \A m \in Nat \ P : <<m, n>> \notin R
  BY <1>2, WFMin
<1>4. n # 0 /\ n - 1 \in Nat
  OBVIOUS
<1>5. n - 1 \in Nat \ P
  BY <1>4
<1>6. <<n - 1, n>> \in R
  BY <1>1, <1>4
<1> QED
  BY <1>3, <1>5, <1>6

-----------------------------------------------------------------------------
(* Finite sets.                                                            *)

(* A finite set has an element that none of it is better than.             *)
LEMMA SomeBest ==
    ASSUME NEW S, IsFiniteSet(S), S # {}, NEW better,
           \A x \in S : <<x, x>> \notin better,
           \A x, y, z \in S : <<x, y>> \in better /\ <<y, z>> \in better => <<x, z>> \in better
    PROVE  \E x \in S : \A y \in S : <<y, x>> \notin better
<1> DEFINE U(x) == {y \in S : <<y, x>> \in better}
           W == {U(x) : x \in S}
           R == StrictSubsetOrdering(S)
           F == FiniteSubsetsOf(S)
<1>1. F = SUBSET S
  BY FS_FiniteSubsetsOfFinite
<1>2. \E u \in W : \A v \in W : ~(<<v, u>> \in R)
  <2>1. \A x \in S : U(x) \in SUBSET S
    OBVIOUS
  <2>3. W \subseteq F /\ W # {}
    <3> HIDE DEF U, F
    <3> QED
      BY <1>1, <2>1
  <2>2. IsWellFoundedOn(R, F)
    BY FS_StrictSubsetOrderingWellFounded
  <2> HIDE DEF W, R, F
  <2> QED
    BY <2>2, <2>3, WFMin
<1>3. PICK x \in S : \A z \in S : ~(<<U(z), U(x)>> \in R)
  <2> HIDE DEF U, R
  <2> QED
    BY <1>2
<1>4. ASSUME NEW y \in S, <<y, x>> \in better
      PROVE  FALSE
  <2>1. U(y) \subseteq U(x)
    BY <1>4
  <2>2. y \in U(x) /\ y \notin U(y)
    BY <1>4
  <2>3. U(y) \in SUBSET S /\ U(x) \in SUBSET S
    OBVIOUS
  <2> HIDE DEF U
  <2>4. <<U(y), U(x)>> \in R
    BY <2>1, <2>2, <2>3, Zenon DEF StrictSubsetOrdering
  <2> QED
    BY <1>3, <2>4
<1> QED
  BY <1>4

(* How many numbers of an interval a set has.                              *)
LEMMA CountWithin ==
    ASSUME NEW a \in Int, NEW b \in Int, a <= b + 1, NEW S, S \subseteq a..b
    PROVE  /\ IsFiniteSet(S)
           /\ Cardinality(S) \in 0..(b - a + 1)
<1>1. IsFiniteSet(a..b) /\ Cardinality(a..b) = b - a + 1
  BY FS_Interval
<1>2. IsFiniteSet(S) /\ Cardinality(S) <= b - a + 1
  BY <1>1, FS_Subset
<1>3. Cardinality(S) \in Nat
  BY <1>2, FS_CardinalityType
<1> QED
  BY <1>2, <1>3

(* A part counts less if an element is missing from it.                    *)
LEMMA CountsLess ==
    ASSUME NEW T, IsFiniteSet(T), NEW S, S \subseteq T, NEW x \in T, x \notin S
    PROVE  Cardinality(S) < Cardinality(T)
<1>1. IsFiniteSet(S) /\ Cardinality(S) <= Cardinality(T) /\ Cardinality(S) # Cardinality(T)
  BY FS_Subset
<1>2. Cardinality(S) \in Nat /\ Cardinality(T) \in Nat
  BY <1>1, FS_CardinalityType
<1> QED
  BY <1>1, <1>2

(* Different places for all of a finite set are all its places.            *)
LEMMA OntoPlaces ==
    ASSUME NEW S, IsFiniteSet(S), NEW f \in [S -> S],
           \A x, y \in S : f[x] = f[y] => x = y
    PROVE  \A z \in S : \E x \in S : f[x] = z
<1>1. f \in Injection(S, S)
  BY DEF Injection, IsInjective
<1>2. f \in Surjection(S, S)
  BY <1>1, FS_Injection
<1> QED
  BY <1>2 DEF Surjection

-----------------------------------------------------------------------------
(* Dispatch.                                                               *)

(* Stops that a run may have.                                              *)
Routable(stops) == stops \subseteq PoolStop /\ Cardinality(stops) \in 2..RunLimit

(* What is planned can be run, and stays so however the pool changes.      *)
DispatchInv ==
    /\ member \subseteq PoolStop
    /\ runs \in [Run -> [made : BOOLEAN, stops : SUBSET PoolStop, intents : SUBSET PoolStop]]
    /\ assignee \in [Run -> Worker \union {Nobody, NoRow}]
    /\ planner \in [Planner -> [from : {"nothing", "pool", "list"}, stops : SUBSET PoolStop]]
    /\ \A p \in Planner : planner[p] # Idling => Routable(planner[p].stops)
    /\ RunIsWhole

(* A choice of the n best is no more than n, and comes from the set.       *)
LEMMA BestIsBounded ==
    ASSUME NEW S \in SUBSET PoolStop, NEW n \in Nat, NEW score, NEW T \in Best(S, n, score)
    PROVE  T \subseteq S /\ Cardinality(T) \in 0..n
<1>1. T \subseteq S /\ Cardinality(T) = (IF Cardinality(S) < n THEN Cardinality(S) ELSE n)
  BY DEF Best
<1>2. Cardinality(S) \in Nat
  BY FS_Subset, FS_CardinalityType, DispatchAssumption
<1> QED
  BY <1>1, <1>2

(* However the overrides meet the two cuts, what a plan from the pool can  *)
(* choose from are members, of which it takes no more than a run may have. *)
LEMMA CandidatesFit ==
    ASSUME member \subseteq PoolStop, NEW stops \in Candidates
    PROVE  stops \subseteq member /\ Cardinality(stops) \in 0..RunLimit
<1>1. PICK raw \in Best(member, RawLimit, risk) :
         stops \in Best(Pooled(raw).cand, RunLimit, Pooled(raw).score)
  BY DEF Candidates
<1>2. raw \subseteq member
  BY <1>1 DEF Best
<1>3. Pooled(raw).cand = (raw \ Excluded) \union ((Included \ (raw \ Excluded)) \intersect member)
  BY DEF Pooled
<1>4. Pooled(raw).cand \subseteq member
  BY <1>2, <1>3
<1>5. RunLimit \in Nat /\ Pooled(raw).cand \in SUBSET PoolStop
  BY <1>4, DispatchAssumption
<1> QED
  BY <1>1, <1>4, <1>5, BestIsBounded

(* Nothing is planned, and no run was made.                                *)
LEMMA DispatchInitInv == DispatchInit => DispatchInv
<1> SUFFICES ASSUME DispatchInit
             PROVE  DispatchInv
  OBVIOUS
<1>1. \A p \in Planner : planner[p] = Idling
  BY DEF DispatchInit
<1>2. RunIsWhole
  BY DEF DispatchInit, RunIsWhole, Absent
<1>3. /\ member \subseteq PoolStop
      /\ assignee \in [Run -> Worker \union {Nobody, NoRow}]
      /\ runs \in [Run -> [made : BOOLEAN, stops : SUBSET PoolStop, intents : SUBSET PoolStop]]
  BY DEF DispatchInit, Absent
<1>4. planner \in [Planner -> [from : {"nothing", "pool", "list"}, stops : SUBSET PoolStop]]
  BY DEF DispatchInit, Idling
<1> QED
  BY <1>1, <1>2, <1>3, <1>4 DEF DispatchInv

(* Plans are made within the limits, and a run is created with one         *)
(* assignment for each stop of its plan.                                   *)
LEMMA DispatchStepInv == DispatchInv /\ [DispatchNext]_dispatchVars => DispatchInv'
<1> SUFFICES ASSUME DispatchInv, [DispatchNext]_dispatchVars
             PROVE  DispatchInv'
  OBVIOUS
<1> USE DEF DispatchInv
<1>1. ASSUME NEW s \in PoolStop, ToggleMember(s) \/ RetireAsset(s)
      PROVE  DispatchInv'
  BY <1>1 DEF ToggleMember, RetireAsset, RunIsWhole
(* A request that plans changes only what it plans.                        *)
<1>a. ASSUME NEW p \in Planner, NEW plan \in {"nothing", "pool", "list"}, NEW stops,
             plan = "nothing" => stops = {},
             plan # "nothing" => Routable(stops),
             planner' = [planner EXCEPT ![p] = [from |-> plan, stops |-> stops]],
             UNCHANGED <<member, withAsset, risk, overrides, runs, assignee>>
      PROVE  DispatchInv'
  <2>1. stops \subseteq PoolStop
    BY <1>a DEF Routable
  <2>2. \A q \in Planner : planner'[q] # Idling => Routable(planner'[q].stops)
    BY <1>a DEF Idling
  <2>3. planner' \in [Planner -> [from : {"nothing", "pool", "list"}, stops : SUBSET PoolStop]]
    BY <1>a, <2>1
  <2>4. RunIsWhole'
    BY <1>a DEF RunIsWhole
  <2> QED
    BY <1>a, <2>2, <2>3, <2>4 DEF Routable
<1>2. ASSUME NEW p \in Planner, PlanFromPool(p)
      PROVE  DispatchInv'
  <2>1. PICK stops \in Candidates :
           /\ Cardinality(stops) >= 2
           /\ planner' = [planner EXCEPT ![p] = [from |-> "pool", stops |-> stops]]
    BY <1>2 DEF PlanFromPool
  <2>2. Routable(stops)
    BY <2>1, CandidatesFit DEF Routable
  <2> QED
    BY <1>2, <1>a, <2>1, <2>2 DEF PlanFromPool
<1>3. ASSUME NEW p \in Planner, PlanFromList(p)
      PROVE  DispatchInv'
  <2>1. PICK stops \in SUBSET PoolStop :
           /\ Cardinality(stops) \in 2..RunLimit
           /\ planner' = [planner EXCEPT ![p] = [from |-> "list", stops |-> stops]]
    BY <1>3 DEF PlanFromList
  <2> QED
    BY <1>3, <1>a, <2>1 DEF PlanFromList, Routable
<1>4. ASSUME NEW p \in Planner, PlanFails(p)
      PROVE  DispatchInv'
  BY <1>4, <1>a DEF PlanFails, Idling
<1>5. ASSUME NEW p \in Planner, NEW r \in Run, NEW w \in Worker \union {Nobody},
             CreateRouteRun(p, r, w)
      PROVE  DispatchInv'
  <2> DEFINE run == [made |-> TRUE, stops |-> planner[p].stops, intents |-> planner[p].stops]
  <2>1. /\ planner[p] # Idling /\ runs' = [runs EXCEPT ![r] = run]
        /\ assignee' = [assignee EXCEPT ![r] = w]
        /\ planner' = [planner EXCEPT ![p] = Idling]
        /\ UNCHANGED <<member, withAsset, risk, overrides>>
    BY <1>5 DEF CreateRouteRun
  <2>2. Routable(planner[p].stops) /\ planner[p].stops \in SUBSET PoolStop
    BY <2>1 DEF Routable
  <2>3. Idling \in [from : {"nothing", "pool", "list"}, stops : SUBSET PoolStop]
    BY DEF Idling
  <2>4. RunIsWhole'
    BY <2>1, <2>2, DispatchAssumption DEF RunIsWhole, Routable
  <2>5. \A q \in Planner : planner'[q] # Idling => Routable(planner'[q].stops)
    BY <2>1
  <2>6. /\ runs' \in [Run -> [made : BOOLEAN, stops : SUBSET PoolStop, intents : SUBSET PoolStop]]
        /\ assignee' \in [Run -> Worker \union {Nobody, NoRow}]
        /\ planner' \in [Planner -> [from : {"nothing", "pool", "list"}, stops : SUBSET PoolStop]]
    BY <2>1, <2>2, <2>3
  <2> QED
    BY <2>1, <2>4, <2>5, <2>6 DEF Routable
<1>6. ASSUME NEW r \in Run, NEW w \in Worker \union {Nobody}, AssignRouteRun(r, w)
      PROVE  DispatchInv'
  <2>1. /\ runs[r].made /\ assignee' = [assignee EXCEPT ![r] = w]
        /\ UNCHANGED <<member, withAsset, risk, overrides, runs, planner>>
    BY <1>6 DEF AssignRouteRun
  <2>2. RunIsWhole'
    BY <2>1, DispatchAssumption DEF RunIsWhole
  <2> QED
    BY <2>1, <2>2 DEF Routable
<1>7. CASE UNCHANGED dispatchVars
  BY <1>7 DEF dispatchVars, RunIsWhole
<1> QED
  BY <1>1, <1>2, <1>3, <1>4, <1>5, <1>6, <1>7 DEF DispatchNext, PostRouteRuns, PatchAssign

(* No run is shipped with silently missing assignments (routeRunService.ts)*)
(* whatever happens to pools and assets while it is planned: each of its   *)
(* stops has one, there are at least two of them and no more than fit, and *)
(* a run has an assignee exactly if it was made.                           *)
THEOREM RunCorrect == DispatchSpec => []RunIsWhole
<1>1. DispatchInv => RunIsWhole
  BY DEF DispatchInv
<1> QED
  BY <1>1, DispatchInitInv, DispatchStepInv, PTL DEF DispatchSpec

(* Assets are only retired, and risks and overrides stay.                  *)
LEMMA DispatchTypeStep == DispatchTypeOK /\ DispatchInv /\ [DispatchNext]_dispatchVars /\ DispatchInv' => DispatchTypeOK'
<1> SUFFICES ASSUME DispatchTypeOK, DispatchInv, DispatchInv', [DispatchNext]_dispatchVars
             PROVE  DispatchTypeOK'
  OBVIOUS
<1>1. withAsset' \subseteq withAsset /\ UNCHANGED <<risk, overrides>>
  BY DEF DispatchNext, dispatchVars, ToggleMember, RetireAsset, PostRouteRuns, PlanFromPool,
         PlanFromList, PlanFails, CreateRouteRun, PatchAssign, AssignRouteRun
<1> QED
  BY <1>1 DEF DispatchTypeOK, DispatchInv

(* The bumps of a stop, which are added up, stay below what being forced   *)
(* in counts.                                                              *)
BumpsAreModest == \A s \in PoolStop : Bump(s) \in 0..(Bonus - 1)

(* The score of a forced member is above that of any that is not forced,   *)
(* so it is left out only if the run is full of forced ones.               *)
LEMMA ForcedGoFirst ==
    ASSUME member \subseteq PoolStop, risk \in Risks, BumpsAreModest,
           NEW raw \in SUBSET member,
           NEW stops \in Best(Pooled(raw).cand, RunLimit, Pooled(raw).score)
    PROVE  /\ stops \subseteq member
           /\ stops \intersect Excluded \subseteq Included
           /\ \A s \in Included \intersect member :
                 s \in stops \/ (stops \subseteq Included /\ Cardinality(stops) = RunLimit)
<1> DEFINE kept == raw \ Excluded
           cand == Pooled(raw).cand
           score == Pooled(raw).score
           known == [s \in cand |-> IF s \in kept THEN risk[s] ELSE 0]
           top == IF cand = {} THEN 0
                  ELSE CHOOSE m \in {known[s] : s \in cand} : \A s \in cand : known[s] <= m
<1>1. cand = kept \union ((Included \ kept) \intersect member)
  BY DEF Pooled
<1>2. score = [s \in cand |-> known[s] + Bump(s) + (IF s \in Included THEN top + Bonus ELSE 0)]
  BY DEF Pooled
<1>3. /\ stops \subseteq cand
      /\ Cardinality(stops) = (IF Cardinality(cand) < RunLimit THEN Cardinality(cand) ELSE RunLimit)
      /\ \A s \in stops, t \in cand \ stops : score[s] >= score[t]
  BY DEF Best
<1>4. cand \subseteq member /\ IsFiniteSet(cand) /\ Included \intersect member \subseteq cand
  <2>1. cand \subseteq member /\ Included \intersect member \subseteq cand
    BY <1>1
  <2> QED
    BY <2>1, FS_Subset, DispatchAssumption
<1>5. Bonus \in Nat /\ RunLimit \in Nat
  BY DispatchAssumption
<1> HIDE DEF cand, score
<1>6. ASSUME NEW s \in cand
      PROVE  known[s] \in Nat
  <2>1. risk[s] \in Nat
    BY <1>4, DispatchAssumption
  <2> QED
    BY <2>1
<1>7. ASSUME NEW s \in cand
      PROVE  Bump(s) \in Int /\ 0 <= Bump(s) /\ Bump(s) < Bonus
  BY <1>4, <1>5 DEF BumpsAreModest
<1> HIDE DEF known
<1>8. ASSUME NEW s \in cand
      PROVE  top \in Nat /\ known[s] <= top
  <2> DEFINE better == {p \in cand \X cand : known[p[1]] > known[p[2]]}
  <2>1. \A x \in cand : <<x, x>> \notin better
    BY <1>6
  <2>2. \A x, y, z \in cand : <<x, y>> \in better /\ <<y, z>> \in better => <<x, z>> \in better
    BY <1>6
  <2>3. PICK x \in cand : \A y \in cand : <<y, x>> \notin better
    <3> HIDE DEF better
    <3> QED
      BY <1>4, <2>1, <2>2, SomeBest
  <2>4. ASSUME NEW y \in cand
        PROVE  known[y] <= known[x]
    <3>1. ~(known[y] > known[x])
      BY <2>3
    <3>2. known[y] \in Nat /\ known[x] \in Nat
      BY <1>6
    <3> QED
      BY <3>1, <3>2
  <2>5. \E m \in {known[y] : y \in cand} : \A y \in cand : known[y] <= m
    BY <2>4
  <2>6. top \in {known[y] : y \in cand} /\ (\A y \in cand : known[y] <= top)
    BY <2>5
  <2> QED
    BY <1>6, <2>6
<1> HIDE DEF top
<1>9. ASSUME NEW s \in Included \intersect member, s \notin stops
      PROVE  stops \subseteq Included /\ Cardinality(stops) = RunLimit
  <2>1. s \in cand
    BY <1>4
  <2>2. Cardinality(stops) < Cardinality(cand) /\ Cardinality(cand) \in Nat
    BY <1>3, <1>4, <1>9, <2>1, CountsLess, FS_CardinalityType
  <2>3. Cardinality(stops) = RunLimit
    BY <1>3, <2>2
  <2>4. ASSUME NEW t \in stops, t \notin Included
        PROVE  FALSE
    <3>1. score[t] >= score[s] /\ t \in cand
      BY <1>3, <1>9, <2>1
    <3>2. score[s] = known[s] + Bump(s) + (top + Bonus) /\ score[t] = known[t] + Bump(t) + 0
      BY <1>2, <2>1, <2>4, <3>1
    <3>3. /\ known[s] \in Nat /\ Bump(s) \in Int /\ 0 <= Bump(s) /\ top \in Nat
          /\ known[t] \in Nat /\ known[t] <= top /\ Bump(t) \in Int /\ Bump(t) < Bonus
      BY <1>6, <1>7, <1>8, <2>1, <3>1
    <3> QED
      BY <1>5, <3>1, <3>2, <3>3
  <2> QED
    BY <2>3, <2>4
<1>10. stops \intersect Excluded \subseteq Included
  BY <1>1, <1>3
<1> QED
  BY <1>3, <1>4, <1>9, <1>10

(* What PlanHonoursOverrides says of a step.                               *)
PlanStep ==
    \A p \in Planner :
        planner[p] = Idling /\ planner'[p].from = "pool" =>
            LET stops == planner'[p].stops
            IN  /\ stops \subseteq member
                /\ stops \intersect Excluded \subseteq Included
                /\ \A s \in Included \intersect member :
                      \/ s \in stops
                      \/ stops \subseteq Included /\ Cardinality(stops) = RunLimit

(* Only PlanFromPool plans from the pool, with what it reads.              *)
LEMMA StepHonours ==
    DispatchTypeOK /\ BumpsAreModest /\ [DispatchNext]_dispatchVars => [PlanStep]_dispatchVars
<1> SUFFICES ASSUME DispatchTypeOK, BumpsAreModest, DispatchNext,
                    NEW p \in Planner, planner[p] = Idling, planner'[p].from = "pool"
             PROVE  LET stops == planner'[p].stops
                    IN  /\ stops \subseteq member
                        /\ stops \intersect Excluded \subseteq Included
                        /\ \A s \in Included \intersect member :
                              \/ s \in stops
                              \/ stops \subseteq Included /\ Cardinality(stops) = RunLimit
  BY DEF PlanStep
<1>0. Idling.from = "nothing"
  BY DEF Idling
<1>1. planner'[p] # planner[p]
  BY <1>0
<1>2. ASSUME NEW q \in Planner, planner' = [planner EXCEPT ![q] = Idling]
      PROVE  FALSE
  BY <1>1, <1>2 DEF DispatchTypeOK
<1>3. ASSUME NEW q \in Planner, PlanFromList(q)
      PROVE  FALSE
  <2>1. PICK stops : planner' = [planner EXCEPT ![q] = [from |-> "list", stops |-> stops]]
    BY <1>3 DEF PlanFromList
  <2> QED
    BY <1>0, <2>1 DEF DispatchTypeOK
<1>4. PICK q \in Planner : PlanFromPool(q)
  BY <1>1, <1>2, <1>3 DEF DispatchNext, ToggleMember, RetireAsset, PostRouteRuns, PlanFails,
                          CreateRouteRun, PatchAssign, AssignRouteRun
<1>5. PICK stops \in Candidates : planner' = [planner EXCEPT ![q] = [from |-> "pool", stops |-> stops]]
  BY <1>4 DEF PlanFromPool
<1>6. planner'[p].stops = stops
  BY <1>0, <1>5 DEF DispatchTypeOK
<1>7. PICK raw \in Best(member, RawLimit, risk) :
         stops \in Best(Pooled(raw).cand, RunLimit, Pooled(raw).score)
  BY DEF Candidates
<1>8. raw \in SUBSET member
  BY <1>7 DEF Best
<1> QED
  BY <1>6, <1>7, <1>8, ForcedGoFirst DEF DispatchTypeOK

(* Requests, plans and runs have their types, whatever is planned at once  *)
(* (routeRunRoutes.ts).                                                    *)
THEOREM DispatchTypeCorrect == DispatchSpec => []DispatchTypeOK
<1>1. DispatchInit => DispatchTypeOK
  <2>1. ASSUME DispatchInit PROVE DispatchTypeOK
    BY <2>1, DispatchInitInv DEF DispatchInit, DispatchTypeOK, DispatchInv
  <2> QED
    BY <2>1
<1> QED
  BY <1>1, DispatchTypeStep, DispatchInitInv, DispatchStepInv, PTL DEF DispatchSpec

(* A plan from the pool has only members, no excluded stop that was not    *)
(* also forced in, and leaves out no forced member while one that is not   *)
(* forced goes (routeRunService.ts:50-180), for any pool, risks, overrides *)
(* and limits, as long as the bumps of no stop add up to the bonus: the    *)
(* code adds several up and does not bound the sum.                        *)
THEOREM PlanCorrect == DispatchSpec /\ []BumpsAreModest => PlanHonoursOverrides
<1>1. DispatchTypeOK /\ BumpsAreModest /\ [DispatchNext]_dispatchVars => [PlanStep]_dispatchVars
  BY StepHonours
<1>2. DispatchSpec => [][DispatchNext]_dispatchVars
  BY PTL DEF DispatchSpec
<1> QED
  BY <1>1, <1>2, DispatchTypeCorrect, PTL DEF PlanHonoursOverrides, PlanStep

-----------------------------------------------------------------------------
(* RoutePanel.                                                             *)

(* The pool of the form is, under a preview or a request for one, still    *)
(* the pool that one is of, unless the form was reset since; what is being *)
(* saved is of the pool that was shown, or of none; and without the tag it *)
(* carries no list.                                                        *)
PoolsAgree ==
    /\ asked # NoChoice => asked.pool # NoChoice /\ panel.pool \in {asked.pool, NoChoice}
    /\ preview # NoChoice => panel.pool \in {preview.pool, NoChoice}
    /\ saving # NoChoice => /\ saving.request.pool \in {saving.shown.pool, NoChoice}
                            /\ saving.request.adhoc \/ saving.request.stops = {}

(* The property, with what leads up to it.                                 *)
PanelInv == PanelTypeOK /\ PoolsAgree /\ TaggedRunIsPicked

(* The fields of the form.                                                 *)
Forms == [open : BOOLEAN, pool : PanelPool \union {NoChoice},
          base : PanelBase \union {NoChoice}, ul : BOOLEAN,
          mode : Mode, stops : SUBSET PanelStop]

(* A form that was reset, or opened.                                       *)
LEMMA BlankForm == Blank \in Forms /\ [Blank EXCEPT !.open = TRUE] \in Forms
  BY DEF Blank, Forms, Mode

(* Nothing is shown, asked for or saved.                                   *)
LEMMA PanelInitInv == PanelInit => PanelInv
<1> SUFFICES ASSUME PanelInit
             PROVE  PanelInv
  OBVIOUS
<1>1. PanelTypeOK
  BY BlankForm DEF PanelInit, PanelTypeOK, Forms
<1> QED
  BY <1>1 DEF PanelInit, PanelInv, PoolsAgree, TaggedRunIsPicked

(* A request has the pool of the form, and a list only if it is tagged.    *)
LEMMA RequestIsSelection ==
    ASSUME PanelTypeOK
    PROVE  /\ Request \in Selection
           /\ Request.pool = panel.pool
           /\ Request.adhoc \/ Request.stops = {}
  BY DEF PanelTypeOK, Request, Selection

(* The server takes a list exactly when the request it accepts is tagged.  *)
LEMMA AcceptedIsTagged ==
    ASSUME NEW q \in Selection, ~Refuses(q), q.adhoc \/ q.stops = {}
    PROVE  q.adhoc <=> Source(q) = "list"
<1>1. CASE q.adhoc
  BY <1>1 DEF Refuses, Source
<1>2. CASE ~q.adhoc
  <2>1. Cardinality(q.stops) = 0
    BY <1>2, FS_EmptySet
  <2> QED
    BY <1>2, <2>1 DEF Source, Enough
<1> QED
  BY <1>1, <1>2

(* A change of the form that keeps its pool, and changes no request.       *)
LEMMA FormChanges ==
    ASSUME PanelInv, panel' \in Forms, panel'.pool \in {panel.pool, NoChoice},
           loadingOptions' \in BOOLEAN, preview' \in {preview, NoChoice},
           UNCHANGED <<asked, saving, made>>
    PROVE  PanelInv'
<1>1. PanelTypeOK'
  BY DEF PanelInv, PanelTypeOK, Forms
<1>2. PoolsAgree'
  BY DEF PanelInv, PoolsAgree
<1> QED
  BY <1>1, <1>2 DEF PanelInv, TaggedRunIsPicked

(* The pool changes only with the preview thrown away or the form reset,   *)
(* and a request without a pool is refused.                                *)
LEMMA PanelStepInv == PanelInv /\ [PanelNext]_panelVars => PanelInv'
<1> SUFFICES ASSUME PanelInv, [PanelNext]_panelVars
             PROVE  PanelInv'
  OBVIOUS
<1>0. /\ PanelTypeOK /\ PoolsAgree /\ TaggedRunIsPicked
      /\ panel \in Forms /\ loadingOptions \in BOOLEAN
      /\ preview \in Plan \union {NoChoice} /\ asked \in Selection \union {NoChoice}
  BY DEF PanelInv, PanelTypeOK, Forms
<1>1. CASE OpenPanel
  <2>1. panel' \in Forms /\ panel'.pool = NoChoice
    BY <1>1, BlankForm DEF OpenPanel, Blank
  <2> QED
    BY <1>1, <2>1, FormChanges DEF OpenPanel
<1>2. CASE ClosePanel
  <2>1. panel' \in Forms /\ panel'.pool = panel.pool
    BY <1>0, <1>2 DEF ClosePanel, Forms
  <2> QED
    BY <1>0, <1>2, <2>1, FormChanges DEF ClosePanel
<1>3. CASE OptionsArrive
  <2>1. panel' \in Forms /\ panel'.pool = panel.pool
    BY <1>0, <1>3 DEF OptionsArrive, Forms
  <2> QED
    BY <1>0, <1>3, <2>1, FormChanges DEF OptionsArrive
<1>4. CASE SetBaseOrUl
  <2>1. panel' \in Forms /\ panel'.pool = panel.pool
    BY <1>0, <1>4 DEF SetBaseOrUl, Forms
  <2> QED
    BY <1>0, <1>4, <2>1, FormChanges DEF SetBaseOrUl
<1>5. ASSUME NEW p \in PanelPool \union {NoChoice}, SetPool(p)
      PROVE  PanelInv'
  <2>1. panel' \in Forms
    BY <1>0, <1>5, PanelAssumption DEF SetPool, Forms
  <2>2. /\ preview' = NoChoice /\ asked = NoChoice /\ saving = NoChoice
        /\ UNCHANGED <<loadingOptions, asked, saving, made>>
    BY <1>5 DEF SetPool, FormLocked
  <2>3. PanelTypeOK'
    BY <1>0, <2>1, <2>2 DEF PanelTypeOK, Forms
  <2> QED
    BY <1>0, <2>2, <2>3 DEF PanelInv, PoolsAgree, TaggedRunIsPicked
<1>6. ASSUME NEW m \in Mode, SwitchMode(m)
      PROVE  PanelInv'
  <2>1. panel' \in Forms /\ panel'.pool = panel.pool
    BY <1>0, <1>6 DEF SwitchMode, Forms
  <2> QED
    BY <1>0, <1>6, <2>1, FormChanges DEF SwitchMode
<1>7. ASSUME NEW s \in PanelStop, ChangeStops(s)
      PROVE  PanelInv'
  <2>1. panel' \in Forms /\ panel'.pool = panel.pool
    BY <1>0, <1>7 DEF ChangeStops, Forms
  <2> QED
    BY <1>0, <1>7, <2>1, FormChanges DEF ChangeStops
<1>8. CASE GeneratePreview
  <2>1. /\ asked' = Request /\ preview' = NoChoice
        /\ UNCHANGED <<panel, loadingOptions, saving, made>>
    BY <1>8 DEF GeneratePreview
  <2>4. panel.pool # NoChoice
    BY <1>8 DEF GeneratePreview, CanPreview
  <2>2. PanelTypeOK'
    BY <1>0, <2>1, RequestIsSelection DEF PanelTypeOK
  <2>3. PoolsAgree'
    BY <1>0, <2>1, <2>4, RequestIsSelection DEF PoolsAgree
  <2> QED
    BY <1>0, <2>1, <2>2, <2>3 DEF PanelInv, TaggedRunIsPicked
<1>9. CASE PreviewArrives
  <2>1. /\ asked # NoChoice /\ asked' = NoChoice
        /\ UNCHANGED <<panel, loadingOptions, saving, made>>
        /\ preview' \in {[pool |-> asked.pool, from |-> Source(asked)], preview}
    BY <1>9 DEF PreviewArrives
  <2>2. asked.pool \in PanelPool /\ panel.pool \in {asked.pool, NoChoice}
    BY <1>0, <2>1 DEF Selection, PoolsAgree
  <2>3. /\ [pool |-> asked.pool, from |-> Source(asked)] \in Plan
        /\ [pool |-> asked.pool, from |-> Source(asked)].pool = asked.pool
    BY <2>2 DEF Plan, Source
  <2>4. /\ preview' \in Plan \union {NoChoice}
        /\ preview' # NoChoice => panel.pool \in {preview'.pool, NoChoice}
    BY <1>0, <2>1, <2>2, <2>3 DEF PoolsAgree
  <2>5. PanelTypeOK'
    BY <1>0, <2>1, <2>4 DEF PanelTypeOK
  <2>6. PoolsAgree'
    BY <1>0, <2>1, <2>4 DEF PoolsAgree
  <2> QED
    BY <1>0, <2>1, <2>5, <2>6 DEF PanelInv, TaggedRunIsPicked
<1>10. CASE SaveRoute
  <2>1. /\ preview \in Plan /\ saving' = [request |-> Request, shown |-> preview]
        /\ preview # NoChoice
        /\ UNCHANGED <<panel, loadingOptions, preview, asked, made>>
    BY <1>0, <1>10 DEF SaveRoute
  <2>2. PanelTypeOK'
    BY <1>0, <2>1, RequestIsSelection DEF PanelTypeOK
  <2>3. PoolsAgree'
    BY <1>0, <2>1, RequestIsSelection DEF PoolsAgree
  <2> QED
    BY <1>0, <2>1, <2>2, <2>3 DEF PanelInv, TaggedRunIsPicked
<1>11. CASE SaveFails
  BY <1>0, <1>11 DEF SaveFails, PanelInv, PanelTypeOK, PoolsAgree, TaggedRunIsPicked
<1>12. ASSUME NEW shut \in BOOLEAN, ServeSave(shut)
       PROVE  PanelInv'
  <2> DEFINE q == saving.request
  <2>1. /\ saving # NoChoice /\ ~Refuses(q) /\ saving' = NoChoice
        /\ made' = [request |-> q, from |-> Source(q), shown |-> saving.shown]
        /\ panel' = IF shut THEN [panel EXCEPT !.open = FALSE] ELSE panel
        /\ UNCHANGED <<loadingOptions, preview, asked>>
    BY <1>12 DEF ServeSave
  <2>2. panel' \in Forms /\ panel'.pool = panel.pool
    BY <1>0, <2>1 DEF Forms
  <2>3. q \in Selection /\ saving.shown \in Plan
    BY <1>0, <2>1 DEF PanelTypeOK
  <2>4. (q.adhoc <=> Source(q) = "list") /\ q.pool = saving.shown.pool
    BY <1>0, <2>1, <2>3, AcceptedIsTagged DEF PoolsAgree, Refuses
  <2>5. Source(q) \in {"pool", "list"}
    BY DEF Source
  <2>6. made'.request = q /\ made'.from = Source(q) /\ made'.shown = saving.shown
    BY <2>1
  <2> HIDE DEF q
  <2>7. PanelTypeOK'
    BY <1>0, <2>1, <2>2, <2>3, <2>5, <2>6 DEF PanelTypeOK, Forms
  <2>8. PoolsAgree'
    BY <1>0, <2>1, <2>2 DEF PoolsAgree
  <2> QED
    BY <2>4, <2>6, <2>7, <2>8 DEF PanelInv, TaggedRunIsPicked
<1>13. CASE UNCHANGED panelVars
  BY <1>0, <1>13 DEF panelVars, PanelInv, PanelTypeOK, PoolsAgree, TaggedRunIsPicked
<1> QED
  BY <1>1, <1>2, <1>3, <1>4, <1>5, <1>6, <1>7, <1>8, <1>9, <1>10, <1>11, <1>12, <1>13
  DEF PanelNext, RouteSaved

(* A run is tagged ad hoc exactly when it was made from the list, and it   *)
(* is of the pool whose preview the dispatcher was looking at              *)
(* (CreateRoutePanel.tsx), whatever is typed, closed, reset and opened     *)
(* again while requests are under way.                                     *)
THEOREM PanelCorrect == PanelSpec => [](PanelTypeOK /\ TaggedRunIsPicked)
<1>1. PanelInv => PanelTypeOK /\ TaggedRunIsPicked
  BY DEF PanelInv
<1> QED
  BY <1>1, PanelInitInv, PanelStepInv, PTL DEF PanelSpec

-----------------------------------------------------------------------------
(* RouteOrder: orders.                                                     *)

(* An order has a stop at each of its places.                              *)
LEMMA OrderLength ==
    ASSUME NEW o \in [RouteStop -> RouteStop]
    PROVE  Len(o) = Length /\ DOMAIN o = RouteStop
<1>1. Length \in Nat
  BY OrderAssumption
<1>2. o \in Seq(RouteStop) /\ DOMAIN o = 1..Length
  BY <1>1 DEF RouteStop
<1> QED
  BY <1>1, <1>2 DEF RouteStop

(* To take the stops of an order from other places, each from one, keeps   *)
(* them all.                                                               *)
LEMMA Rearranged ==
    ASSUME NEW o \in Orders, NEW from \in [RouteStop -> RouteStop],
           \A i \in RouteStop : \E k \in RouteStop : from[k] = i
    PROVE  [k \in RouteStop |-> o[from[k]]] \in Orders
  BY DEF Orders

(* The same, told where each stop goes.                                    *)
LEMMA Moved ==
    ASSUME NEW o \in Orders, NEW to \in [RouteStop -> RouteStop],
           \A x, y \in RouteStop : to[x] = to[y] => x = y,
           NEW D, D = RouteStop
    PROVE  [k \in D |-> o[CHOOSE j \in D : to[j] = k]] \in Orders
<1> DEFINE goes(k) == CHOOSE j \in D : to[j] = k
           from == [k \in RouteStop |-> goes(k)]
<1>1. IsFiniteSet(RouteStop)
  <2>1. Length \in Int /\ 1 \in Int
    BY OrderAssumption
  <2> QED
    BY <2>1, FS_Interval DEF RouteStop
<1>2. \A k \in RouteStop : \E j \in RouteStop : to[j] = k
  BY <1>1, OntoPlaces
<1>3. \A k \in RouteStop : goes(k) \in D /\ to[goes(k)] = k
  BY <1>2
<1> HIDE DEF goes
<1>4. from \in [RouteStop -> RouteStop]
  BY <1>3
<1>5. \A i \in RouteStop : from[to[i]] = i
  BY <1>3
<1>6. \A i \in RouteStop : \E k \in RouteStop : from[k] = i
  BY <1>5
<1>7. [k \in RouteStop |-> o[from[k]]] \in Orders
  <2> HIDE DEF from
  <2> QED
    BY <1>4, <1>6 DEF Orders
<1>8. [k \in RouteStop |-> o[from[k]]] = [k \in D |-> o[goes(k)]]
  OBVIOUS
<1> QED
  BY <1>7, <1>8 DEF goes

(* Moving the stop of one place behind another's shifts those between by   *)
(* one.                                                                    *)
LEMMA BehindKeeps ==
    ASSUME NEW o \in Orders, NEW i \in RouteStop, NEW j \in RouteStop, j >= i + 2
    PROVE  MoveBehind(o, j, i) \in Orders
<1> DEFINE from == [k \in RouteStop |-> IF k = i + 1 THEN j
                                        ELSE IF k \in (i + 2)..j THEN k - 1 ELSE k]
<1>1. DOMAIN o = RouteStop /\ RouteStop = 1..Length /\ Length \in Nat
  BY OrderAssumption DEF Orders, RouteStop
<1>2. \A k \in RouteStop : from[k] \in RouteStop
  BY <1>1
<1>3. ASSUME NEW s \in RouteStop
      PROVE  \E k \in RouteStop : from[k] = s
  <2>1. CASE s = j
    <3>1. i + 1 \in RouteStop /\ from[i + 1] = s
      BY <1>1, <2>1
    <3> QED
      BY <3>1
  <2>2. CASE s \in (i + 1)..(j - 1)
    <3>1. s + 1 \in RouteStop /\ from[s + 1] = s
      BY <1>1, <2>2
    <3> QED
      BY <3>1
  <2>3. CASE s < i + 1 \/ s > j
    <3>1. from[s] = s
      BY <1>1, <2>3
    <3> QED
      BY <3>1
  <2> QED
    BY <1>1, <2>1, <2>2, <2>3
<1>4. from \in [RouteStop -> RouteStop]
  BY <1>2
<1>5. MoveBehind(o, j, i) = [k \in RouteStop |-> o[from[k]]]
  BY <1>1 DEF MoveBehind
<1> HIDE DEF from
<1> QED
  BY <1>3, <1>4, <1>5, Rearranged

(* The stops of a stretch that sorting puts before the one at k.           *)
Before(o, i, j, key, k) == {m \in i..j : \/ key[o[m]] < key[o[k]]
                                         \/ key[o[m]] = key[o[k]] /\ m < k}

(* Its place in the sorted stretch.                                        *)
RankOf(o, i, j, key, k) == i + Cardinality(Before(o, i, j, key, k))

(* The ranks of a stretch are its places, in the order of the keys.        *)
LEMMA RanksFill ==
    ASSUME NEW o \in Orders, NEW i \in RouteStop, NEW j \in RouteStop, i <= j,
           NEW key, \A s \in RouteStop : key[s] \in Int
    PROVE  /\ i..j \subseteq RouteStop
           /\ \A k \in i..j : RankOf(o, i, j, key, k) \in i..j
           /\ \A k, l \in i..j : RankOf(o, i, j, key, k) = RankOf(o, i, j, key, l) => k = l
           /\ \A k, l \in i..j : RankOf(o, i, j, key, k) < RankOf(o, i, j, key, l)
                                   => key[o[k]] <= key[o[l]]
           /\ \A p \in i..j : \E k \in i..j : RankOf(o, i, j, key, k) = p
<1> DEFINE before(k) == Before(o, i, j, key, k)
           rank(k) == RankOf(o, i, j, key, k)
<1>1. /\ RouteStop = 1..Length /\ Length \in Nat
      /\ o \in [RouteStop -> RouteStop]
  BY OrderAssumption DEF Orders, RouteStop
<1>2. i..j \subseteq RouteStop /\ IsFiniteSet(i..j) /\ Cardinality(i..j) = j - i + 1
  <2>1. i \in Int /\ j \in Int /\ 1 <= i /\ j <= Length
    BY <1>1
  <2>2. IsFiniteSet(i..j) /\ Cardinality(i..j) = j - i + 1
    BY <2>1, FS_Interval
  <2>3. i..j \subseteq RouteStop
    BY <1>1, <2>1
  <2> QED
    BY <2>2, <2>3
<1>3. \A k \in i..j : key[o[k]] \in Int /\ k \in Int
  <2> TAKE k \in i..j
  <2>1. k \in RouteStop
    BY <1>2
  <2>2. o[k] \in RouteStop
    BY <1>1, <2>1
  <2>3. key[o[k]] \in Int
    BY <2>2
  <2>4. k \in Int
    OBVIOUS
  <2> QED
    BY <2>3, <2>4
<1>4. ASSUME NEW k \in i..j, NEW m \in i..j
      PROVE  m \in before(k) <=> key[o[m]] < key[o[k]] \/ (key[o[m]] = key[o[k]] /\ m < k)
  BY DEF Before
<1>5. \A k \in i..j : before(k) \subseteq i..j /\ k \notin before(k)
  BY <1>3 DEF Before
<1>6. \A x, y \in i..j : x \in before(y) => before(x) \subseteq before(y)
  BY <1>3, <1>4, <1>5
<1>7. \A k \in i..j : rank(k) = i + Cardinality(before(k))
  BY DEF RankOf
<1> HIDE DEF before, rank
<1>8. ASSUME NEW k \in i..j
      PROVE  /\ IsFiniteSet(before(k))
             /\ Cardinality(before(k)) \in Nat
             /\ rank(k) \in i..j
  <2>1. before(k) \subseteq i..j /\ k \notin before(k)
    BY <1>5
  <2>2. IsFiniteSet(before(k)) /\ Cardinality(before(k)) < Cardinality(i..j)
    BY <1>2, <2>1, FS_Subset, CountsLess
  <2> DEFINE n == Cardinality(before(k))
  <2>3. n \in Nat
    BY <2>2, FS_CardinalityType
  <2>4. n < j - i + 1 /\ rank(k) = i + n
    BY <1>2, <1>7, <2>2
  <2> HIDE DEF n
  <2>5. i + n \in i..j
    BY <1>1, <2>3, <2>4
  <2> QED
    BY <2>2, <2>3, <2>4, <2>5 DEF n
<1>9. ASSUME NEW x \in i..j, NEW y \in i..j, x \in before(y)
      PROVE  rank(x) < rank(y)
  <2>1. Cardinality(before(x)) < Cardinality(before(y))
    BY <1>5, <1>6, <1>8, <1>9, CountsLess
  <2> DEFINE n == Cardinality(before(x))
             m == Cardinality(before(y))
  <2>2. n \in Nat /\ m \in Nat /\ n < m /\ rank(x) = i + n /\ rank(y) = i + m /\ i \in Int
    BY <1>1, <1>7, <1>8, <2>1
  <2> HIDE DEF n, m
  <2> QED
    BY <2>2
<1>10. \A k \in i..j : rank(k) \in i..j
  BY <1>8
<1>11. \A k, l \in i..j : rank(k) = rank(l) => k = l
  <2> SUFFICES ASSUME NEW k \in i..j, NEW l \in i..j, k # l
               PROVE  rank(k) # rank(l)
    OBVIOUS
  <2>1. k \in before(l) \/ l \in before(k)
    BY <1>3, <1>4
  <2>2. rank(k) \in Int /\ rank(l) \in Int
    BY <1>10
  <2> QED
    BY <1>9, <2>1, <2>2
<1>12. \A k, l \in i..j : rank(k) < rank(l) => key[o[k]] <= key[o[l]]
  <2> SUFFICES ASSUME NEW k \in i..j, NEW l \in i..j, ~(key[o[k]] <= key[o[l]])
               PROVE  ~(rank(k) < rank(l))
    OBVIOUS
  <2>1. l \in before(k)
    BY <1>3, <1>4
  <2>2. rank(k) \in Int /\ rank(l) \in Int
    BY <1>10
  <2> QED
    BY <1>9, <2>1, <2>2
<1>13. \A p \in i..j : \E k \in i..j : rank(k) = p
  <2> DEFINE f == [k \in i..j |-> rank(k)]
  <2>1. f \in [i..j -> i..j]
    BY <1>10
  <2>2. \A x, y \in i..j : f[x] = f[y] => x = y
    BY <1>11
  <2>3. \A k \in i..j : f[k] = rank(k)
    OBVIOUS
  <2> HIDE DEF f
  <2>4. \A p \in i..j : \E k \in i..j : f[k] = p
    BY <1>2, <2>1, <2>2, OntoPlaces
  <2> QED
    BY <2>3, <2>4
<1> QED
  BY <1>2, <1>10, <1>11, <1>12, <1>13 DEF rank

(* The stop at each place of a sorted stretch is the one of that rank.     *)
LEMMA SortedPlaces ==
    ASSUME NEW o \in Orders, NEW i \in RouteStop, NEW j \in RouteStop, i <= j,
           NEW key, \A s \in RouteStop : key[s] \in Int
    PROVE  /\ Sorted(o, i, j, key) \in [RouteStop -> RouteStop]
           /\ \A p \in RouteStop \ (i..j) : Sorted(o, i, j, key)[p] = o[p]
           /\ \A k \in i..j : Sorted(o, i, j, key)[RankOf(o, i, j, key, k)] = o[k]
<1> DEFINE rank(k) == RankOf(o, i, j, key, k)
           ranked(p) == CHOOSE k \in i..j : rank(k) = p
           s == Sorted(o, i, j, key)
<1>1. o \in [RouteStop -> RouteStop]
  BY DEF Orders
<1>2. DOMAIN o = RouteStop
  BY <1>1
<1>3. s = [p \in DOMAIN o |-> IF p \in i..j THEN o[ranked(p)] ELSE o[p]]
  BY Zenon DEF Sorted, RankOf, Before
<1>4. /\ i..j \subseteq RouteStop
      /\ \A k \in i..j : rank(k) \in i..j
      /\ \A k, l \in i..j : rank(k) = rank(l) => k = l
      /\ \A p \in i..j : \E k \in i..j : rank(k) = p
  BY RanksFill
<1> HIDE DEF rank, s
<1>5. \A k \in i..j : ranked(rank(k)) = k
  <2> SUFFICES ASSUME NEW k \in i..j
               PROVE  ranked(rank(k)) = k
    OBVIOUS
  <2>1. \A l \in i..j : rank(l) = rank(k) <=> l = k
    BY <1>4
  <2> QED
    BY <2>1
<1>6. \A p \in i..j : ranked(p) \in i..j
  BY <1>4
<1> HIDE DEF ranked
<1>7. s \in [RouteStop -> RouteStop]
  <2>1. \A p \in RouteStop : (IF p \in i..j THEN o[ranked(p)] ELSE o[p]) \in RouteStop
    BY <1>1, <1>4, <1>6
  <2> QED
    BY <1>2, <1>3, <2>1
<1>8. \A p \in RouteStop \ (i..j) : s[p] = o[p]
  BY <1>2, <1>3
<1>9. \A k \in i..j : s[rank(k)] = o[k]
  BY <1>2, <1>3, <1>4, <1>5
<1> QED
  BY <1>7, <1>8, <1>9 DEF s, rank

(* Sorting a stretch loses no stop.                                        *)
LEMMA SortedKeeps ==
    ASSUME NEW o \in Orders, NEW i \in RouteStop, NEW j \in RouteStop, i <= j,
           NEW key, \A s \in RouteStop : key[s] \in Int
    PROVE  Sorted(o, i, j, key) \in Orders
<1> DEFINE s == Sorted(o, i, j, key)
<1>1. /\ s \in [RouteStop -> RouteStop]
      /\ \A p \in RouteStop \ (i..j) : s[p] = o[p]
      /\ \A k \in i..j : s[RankOf(o, i, j, key, k)] = o[k]
  BY SortedPlaces
<1>2. i..j \subseteq RouteStop /\ \A k \in i..j : RankOf(o, i, j, key, k) \in i..j
  BY RanksFill
<1> HIDE DEF s
<1>3. ASSUME NEW t \in RouteStop
      PROVE  \E p \in RouteStop : s[p] = t
  <2>1. PICK k \in RouteStop : o[k] = t
    BY DEF Orders
  <2>2. CASE k \in i..j
    BY <1>1, <1>2, <2>1, <2>2
  <2>3. CASE k \notin i..j
    BY <1>1, <2>1, <2>3
  <2> QED
    BY <2>2, <2>3
<1>4. s \in Orders
  BY <1>1, <1>3 DEF Orders
<1> QED
  BY <1>4 DEF s

(* A sorted stretch has the stops it had, each not before a lower key.     *)
LEMMA SortedSorts ==
    ASSUME NEW o \in Orders, NEW i \in RouteStop, NEW j \in RouteStop, i <= j,
           NEW key, \A s \in RouteStop : key[s] \in Int
    PROVE  /\ {Sorted(o, i, j, key)[k] : k \in i..j} = {o[k] : k \in i..j}
           /\ \A k \in i..(j - 1) : key[Sorted(o, i, j, key)[k]] <= key[Sorted(o, i, j, key)[k + 1]]
<1> DEFINE s == Sorted(o, i, j, key)
           rank(k) == RankOf(o, i, j, key, k)
<1>1. \A k \in i..j : s[rank(k)] = o[k]
  BY SortedPlaces
<1>2. /\ \A k \in i..j : rank(k) \in i..j
      /\ \A k, l \in i..j : rank(k) < rank(l) => key[o[k]] <= key[o[l]]
      /\ \A p \in i..j : \E k \in i..j : rank(k) = p
  BY RanksFill
<1> HIDE DEF s, rank
<1>3. {s[k] : k \in i..j} = {o[k] : k \in i..j}
  BY <1>1, <1>2
<1>4. ASSUME NEW k \in i..(j - 1)
      PROVE  key[s[k]] <= key[s[k + 1]]
  <2>1. i \in Int /\ j \in Int
    BY OrderAssumption DEF RouteStop
  <2>2. k \in i..j /\ k + 1 \in i..j /\ k < k + 1
    BY <2>1
  <2>3. PICK x \in i..j : rank(x) = k
    BY <1>2, <2>2
  <2>4. PICK y \in i..j : rank(y) = k + 1
    BY <1>2, <2>2
  <2>5. key[o[x]] <= key[o[y]]
    BY <1>2, <2>2, <2>3, <2>4
  <2> QED
    BY <1>1, <2>3, <2>4, <2>5
<1> QED
  BY <1>3, <1>4 DEF s

(* Pulling up the stops near, which lie behind a, moves every other stop   *)
(* behind a down by as many of them as it had below it.                    *)
LEMMA PulledUpKeeps ==
    ASSUME NEW o \in Orders, NEW a \in RouteStop, NEW near, near \subseteq (a + 1)..Length
    PROVE  PulledUp(o, a, near) \in Orders
<1> DEFINE up(j) == {k \in near : k <= j}
           below(j) == {k \in near : k > j}
           Up(j) == Cardinality(up(j))
           Below(j) == Cardinality(below(j))
           Place(j) == IF j \in near THEN a + Up(j) ELSE IF j <= a THEN j ELSE j + Below(j)
           to == [j \in RouteStop |-> Place(j)]
<1>1. /\ DOMAIN o = RouteStop
      /\ Length \in Nat /\ a \in Int /\ 1 <= a /\ a <= Length
  BY OrderAssumption DEF Orders, RouteStop
<1>16. /\ \A k \in near : k \in Int /\ k > a /\ k <= Length
       /\ \A k \in RouteStop : k \in Int /\ 1 <= k /\ k <= Length
       /\ \A k \in Int : 1 <= k /\ k <= Length => k \in RouteStop
  BY <1>1 DEF RouteStop
<1>17. near \subseteq RouteStop
  BY <1>1, <1>16
<1>2. IsFiniteSet(near) /\ Cardinality(near) \in Nat
  <2>1. a + 1 \in Int /\ Length \in Int /\ a + 1 <= Length + 1
    BY <1>1
  <2>2. IsFiniteSet(near)
    BY <2>1, CountWithin
  <2> QED
    BY <2>2, FS_CardinalityType
<1>3. ASSUME NEW j \in RouteStop
      PROVE  /\ IsFiniteSet(up(j)) /\ IsFiniteSet(below(j))
             /\ Up(j) \in Nat /\ Below(j) \in Nat
             /\ Up(j) + Below(j) = Cardinality(near)
  <2>1. up(j) \subseteq near /\ below(j) \subseteq near
    OBVIOUS
  <2>2. up(j) \union below(j) = near /\ up(j) \intersect below(j) = {}
    <3>1. \A k \in near : (k <= j \/ k > j) /\ ~(k <= j /\ k > j)
      BY <1>16
    <3> QED
      BY <3>1
  <2> HIDE DEF up, below
  <2>3. IsFiniteSet(up(j)) /\ IsFiniteSet(below(j))
    BY <1>2, <2>1, FS_Subset
  <2>4. Cardinality(up(j)) \in Nat /\ Cardinality(below(j)) \in Nat
    BY <2>3, FS_CardinalityType
  <2>5. Cardinality(near) = Cardinality(up(j)) + Cardinality(below(j)) - Cardinality({})
    BY <2>2, <2>3, FS_Union
  <2>6. Cardinality({}) = 0
    BY FS_EmptySet
  <2> QED
    BY <1>2, <2>3, <2>4, <2>5, <2>6
<1>4. ASSUME NEW j \in near
      PROVE  Up(j) >= 1 /\ Up(j) <= j - a
  <2>1. j \in RouteStop /\ j \in (a + 1)..Length
    BY <1>17
  <2>2. up(j) \subseteq (a + 1)..j /\ j \in up(j)
    <3>1. ASSUME NEW k \in near, k <= j
          PROVE  k \in (a + 1)..j
      BY <1>1, <1>16, <3>1
    <3>2. j <= j
      BY <1>16
    <3> QED
      BY <3>1, <3>2
  <2> HIDE DEF up, below
  <2>3. Up(j) # 0
    BY <1>3, <2>1, <2>2, FS_EmptySet
  <2>4. Cardinality(up(j)) \in 0..(j - (a + 1) + 1)
    BY <1>1, <1>16, <2>1, <2>2, CountWithin
  <2> QED
    BY <1>1, <1>3, <1>16, <2>1, <2>3, <2>4
<1>5. ASSUME NEW j \in RouteStop, j \notin near, j > a
      PROVE  Up(j) <= j - a - 1 /\ Below(j) <= Length - j
  <2>1. up(j) \subseteq (a + 1)..(j - 1) /\ below(j) \subseteq (j + 1)..Length
    <3>1. ASSUME NEW k \in near, k <= j
          PROVE  k \in (a + 1)..(j - 1)
      BY <1>1, <1>5, <1>16, <3>1
    <3>2. ASSUME NEW k \in near, k > j
          PROVE  k \in (j + 1)..Length
      BY <1>1, <1>16, <3>2
    <3> QED
      BY <3>1, <3>2
  <2> HIDE DEF up, below
  <2>2. Cardinality(up(j)) \in 0..((j - 1) - (a + 1) + 1)
    BY <1>1, <1>5, <1>16, <2>1, CountWithin
  <2>3. Cardinality(below(j)) \in 0..(Length - (j + 1) + 1)
    BY <1>1, <1>5, <1>16, <2>1, CountWithin
  <2> QED
    BY <1>1, <1>5, <1>16, <2>2, <2>3
<1>6. ASSUME NEW j \in near, NEW l \in near, j < l
      PROVE  Up(j) < Up(l)
  <2>1. up(j) \subseteq up(l) /\ l \in up(l) /\ l \notin up(j) /\ l \in RouteStop
    <3>1. \A k \in near : k <= j => k <= l
      BY <1>6, <1>16
    <3>2. l <= l /\ ~(l <= j)
      BY <1>6, <1>16
    <3> QED
      BY <1>17, <3>1, <3>2
  <2> HIDE DEF up
  <2> QED
    BY <1>3, <2>1, CountsLess
<1>7. ASSUME NEW j \in RouteStop, NEW l \in RouteStop, j \notin near, l \notin near, j < l
      PROVE  j + Below(j) < l + Below(l)
  <2> DEFINE mid == below(j) \ below(l)
  <2>1. mid \subseteq (j + 1)..(l - 1) /\ below(j) = below(l) \union mid
        /\ below(l) \intersect mid = {}
    <3>1. ASSUME NEW k \in near, k > j, ~(k > l)
          PROVE  k \in (j + 1)..(l - 1)
      BY <1>7, <1>16, <3>1
    <3>2. \A k \in near : k > l => k > j
      BY <1>7, <1>16
    <3> QED
      BY <3>1, <3>2
  <2> HIDE DEF mid, below
  <2>2. IsFiniteSet(mid) /\ Cardinality(mid) \in 0..((l - 1) - (j + 1) + 1)
    <3>1. j + 1 \in Int /\ l - 1 \in Int /\ j + 1 <= (l - 1) + 1
      BY <1>7, <1>16
    <3> QED
      BY <2>1, <3>1, CountWithin
  <2>3. Cardinality(below(j)) = Cardinality(below(l)) + Cardinality(mid) - Cardinality({})
    <3>1. IsFiniteSet(below(l))
      BY <1>3
    <3> QED
      BY <2>1, <2>2, <3>1, FS_Union
  <2>4. Cardinality({}) = 0
    BY FS_EmptySet
  <2>5. Cardinality(mid) <= l - j - 1
    BY <1>16, <2>2
  <2>6. Below(j) \in Nat /\ Below(l) \in Nat /\ j \in Int /\ l \in Int /\ Cardinality(mid) \in Nat
    <3>1. Below(j) \in Nat /\ Below(l) \in Nat
      BY <1>3
    <3>2. j \in Int /\ l \in Int
      BY <1>16
    <3>3. Cardinality(mid) \in Nat
      BY <1>16, <2>2
    <3> QED
      BY <3>1, <3>2, <3>3
  <2> QED
    BY <2>3, <2>4, <2>5, <2>6
<1> HIDE DEF Up, Below
<1>8. ASSUME NEW j \in RouteStop
      PROVE  Place(j) \in RouteStop
  <2>1. CASE j \in near
    <3>1. Up(j) \in Nat /\ Up(j) >= 1 /\ Up(j) <= j - a /\ Place(j) = a + Up(j)
      BY <1>3, <1>4, <2>1
    <3> HIDE DEF Place
    <3> QED
      BY <1>1, <1>16, <3>1
  <2>2. CASE j \notin near /\ j <= a
    BY <2>2
  <2>3. CASE j \notin near /\ ~(j <= a)
    <3>1. j > a
      BY <1>1, <1>16, <2>3
    <3>2. Below(j) \in Nat /\ Below(j) <= Length - j /\ Place(j) = j + Below(j)
      BY <1>3, <1>5, <2>3, <3>1
    <3> HIDE DEF Place
    <3> QED
      BY <1>1, <1>16, <3>2
  <2> QED
    BY <2>1, <2>2, <2>3
<1>9. ASSUME NEW j \in near, NEW l \in RouteStop, l \notin near
      PROVE  Place(j) # Place(l)
  <2>1. j \in RouteStop /\ j \in Int /\ l \in Int /\ a \in Int /\ j > a
    BY <1>1, <1>16, <1>17
  <2>2. Place(j) = a + Up(j) /\ Up(j) \in Nat /\ Up(j) >= 1
    BY <1>3, <1>4, <2>1
  <2>3. CASE l <= a
    BY <1>9, <2>1, <2>2, <2>3
  <2>4. CASE l > a
    <3>1. Place(l) = l + Below(l) /\ Below(l) \in Nat /\ Up(l) \in Nat /\ Up(l) <= l - a - 1
      <4>1. ~(l <= a)
        BY <2>1, <2>4
      <4>2. Place(l) = l + Below(l)
        BY <1>9, <4>1
      <4> QED
        BY <1>3, <1>5, <1>9, <2>4, <4>2
    <3>2. Up(j) + Below(j) = Cardinality(near) /\ Up(l) + Below(l) = Cardinality(near)
          /\ Below(j) \in Nat
      BY <1>3, <2>1
    <3>3. Up(j) <= Up(l) + Below(l)
      BY <1>2, <2>2, <3>1, <3>2
    <3> HIDE DEF Place
    <3> QED
      BY <2>1, <2>2, <3>1, <3>3
  <2> QED
    BY <2>1, <2>3, <2>4
<1>10. ASSUME NEW j \in RouteStop, NEW l \in RouteStop, j < l
       PROVE  Place(j) # Place(l)
  <2>1. j \in Int /\ l \in Int /\ a \in Int
    BY <1>1, <1>16
  <2>2. CASE j \in near /\ l \in near
    <3>1. Up(j) \in Nat /\ Up(l) \in Nat /\ Up(j) < Up(l)
      BY <1>3, <1>6, <1>10, <2>2
    <3>2. Place(j) = a + Up(j) /\ Place(l) = a + Up(l)
      BY <2>2
    <3> HIDE DEF Place
    <3> QED
      BY <2>1, <3>1, <3>2
  <2>3. CASE j \in near /\ l \notin near
    BY <1>9, <2>3
  <2>4. CASE j \notin near /\ l \in near
    <3>1. Place(l) # Place(j)
      BY <1>9, <2>4
    <3> QED
      BY <3>1
  <2>5. CASE j \notin near /\ l \notin near
    <3>1. /\ Below(j) \in Nat /\ Below(l) \in Nat
          /\ j + Below(j) < l + Below(l)
      BY <1>3, <1>7, <1>10, <2>5
    <3> QED
      BY <1>10, <2>1, <2>5, <3>1
  <2> QED
    BY <2>2, <2>3, <2>4, <2>5
<1>11. to \in [RouteStop -> RouteStop]
  <2> HIDE DEF Place
  <2> QED
    BY <1>8
<1>12. \A x, y \in RouteStop : to[x] = to[y] => x = y
  <2> HIDE DEF Place
  <2>1. \A x, y \in RouteStop : x < y \/ y < x \/ x = y
    BY <1>16
  <2> QED
    BY <1>10, <2>1
<1> DEFINE goes(k) == CHOOSE j \in DOMAIN o : to[j] = k
           placed(k) == CHOOSE j \in DOMAIN o : Place(j) = k
<1>13. [k \in DOMAIN o |-> o[goes(k)]] \in Orders
  <2> HIDE DEF to
  <2> QED
    BY <1>1, <1>11, <1>12, Moved
<1>14. \A k \in DOMAIN o : goes(k) = placed(k)
  <2> HIDE DEF Place
  <2> QED
    BY <1>1
<1>15. [k \in DOMAIN o |-> o[placed(k)]] \in Orders
  <2> HIDE DEF goes, placed
  <2> QED
    BY <1>13, <1>14
<1> QED
  BY <1>15, Zenon DEF PulledUp, Up, Below, up, below

-----------------------------------------------------------------------------
(* What the passes choose.                                                 *)

(* The end of a corridor is a position of the route.                       *)
LEMMA CorridorEnds ==
    ASSUME order \in [RouteStop -> RouteStop], NEW i \in RouteStop
    PROVE  /\ CorridorEnd(i) \in i..Length
           /\ \A k \in i..CorridorEnd(i) : SameCorridor(order[i], order[k])
           /\ CorridorEnd(i) < Length => ~SameCorridor(order[i], order[CorridorEnd(i) + 1])
<1> DEFINE Out == {k \in i..Length : ~SameCorridor(order[i], order[k])}
           before == {p \in Out \X Out : p[1] < p[2]}
           End(j) == /\ \A k \in i..j : SameCorridor(order[i], order[k])
                     /\ j < Len(order) => ~SameCorridor(order[i], order[j + 1])
<1>1. Len(order) = Length /\ Length \in Nat /\ i \in Int /\ 1 <= i /\ i <= Length
  BY OrderLength, OrderAssumption DEF RouteStop
<1>2. \E j \in i..Length : End(j)
  <2>1. CASE Out = {}
    <3>2. \A k \in i..Length : SameCorridor(order[i], order[k])
      BY <2>1
    <3>3. ~(Length < Len(order))
      BY <1>1
    <3>1. Length \in i..Length /\ End(Length)
      BY <1>1, <3>2, <3>3
    <3> QED
      BY <3>1
  <2>2. CASE Out # {}
    <3>1. IsFiniteSet(Out) /\ \A x \in Out : x \in Int
      BY <1>1, CountWithin
    <3>2. /\ \A x \in Out : <<x, x>> \notin before
          /\ \A x, y, z \in Out : <<x, y>> \in before /\ <<y, z>> \in before => <<x, z>> \in before
          /\ \A x, y \in Out : <<x, y>> \in before <=> x < y
      BY <3>1
    <3> HIDE DEF before
    <3>3. PICK x \in Out : \A y \in Out : <<y, x>> \notin before
      <4> HIDE DEF Out
      <4> QED
        BY <2>2, <3>1, <3>2, SomeBest
    <3>4. \A y \in Out : x <= y
      <4> HIDE DEF Out
      <4>1. \A y \in Out : ~(y < x)
        BY <3>2, <3>3
      <4>2. \A y \in Out : y \in Int /\ x \in Int
        BY <3>1
      <4> QED
        BY <4>1, <4>2
    <3>5. x # i
      BY <3>3 DEF SameCorridor
    <3>6. x - 1 \in i..Length /\ (x - 1) + 1 = x
      BY <1>1, <3>5
    <3>7. \A k \in i..(x - 1) : SameCorridor(order[i], order[k])
      BY <1>1, <3>4, <3>6
    <3>8. End(x - 1)
      BY <3>3, <3>6, <3>7
    <3> QED
      BY <3>6, <3>8
  <2> QED
    BY <2>1, <2>2
<1>3. CorridorEnd(i) = CHOOSE j \in i..Length : End(j)
  BY <1>1 DEF CorridorEnd
<1>4. CorridorEnd(i) \in i..Length /\ End(CorridorEnd(i))
  <2> HIDE DEF End
  <2> QED
    BY <1>2, <1>3
<1> QED
  BY <1>1, <1>4

(* Of the stops in reach the search takes one that is in reach.            *)
LEMMA BestInReach ==
    ASSUME NEW reach, IsFiniteSet(reach), reach # {}, \A j \in reach : j \in Int,
           NEW delta, \A j \in reach : delta[j] \in Int
    PROVE  \E j \in reach : \A k \in reach : delta[j] < delta[k] \/ (delta[j] = delta[k] /\ j <= k)
<1> DEFINE better == {p \in reach \X reach : \/ delta[p[1]] < delta[p[2]]
                                             \/ delta[p[1]] = delta[p[2]] /\ p[1] < p[2]}
<1>1. \A x, y \in reach : <<x, y>> \in better
                             <=> delta[x] < delta[y] \/ (delta[x] = delta[y] /\ x < y)
  OBVIOUS
<1> HIDE DEF better
<1>2. \A x \in reach : <<x, x>> \notin better
  BY <1>1
<1>3. \A x, y, z \in reach : <<x, y>> \in better /\ <<y, z>> \in better => <<x, z>> \in better
  BY <1>1
<1>4. PICK x \in reach : \A y \in reach : <<y, x>> \notin better
  BY <1>2, <1>3, SomeBest
<1>5. ASSUME NEW k \in reach
      PROVE  delta[x] < delta[k] \/ (delta[x] = delta[k] /\ x <= k)
  <2>1. ~(delta[k] < delta[x]) /\ ~(delta[k] = delta[x] /\ k < x)
    BY <1>1, <1>4
  <2>2. delta[k] \in Int /\ delta[x] \in Int /\ k \in Int /\ x \in Int
    OBVIOUS
  <2> QED
    BY <2>1, <2>2
<1> QED
  BY <1>5

-----------------------------------------------------------------------------

(* The theorem is its own invariant, with the type of what the passes      *)
(* read.                                                                   *)
OrderInv == OrderTypeOK /\ OrderKeepsStops

(* What the survey in use measures.                                        *)
LEMMA SurveyTyped ==
    ASSUME survey \in Survey
    PROVE  /\ survey.lon \in [Places -> Int] /\ survey.lat \in [Places -> Int]
           /\ survey.leg \in [Places \X Places -> Nat]
           /\ RouteStop \subseteq Places
<1>1. survey \in [lon : [Places -> Int], lat : [Places -> Int],
                   street : [RouteStop -> STRING], bearing : [RouteStop -> STRING],
                   leg : [Places \X Places -> Nat]]
  BY OrderAssumption
<1>2. /\ survey.lon \in [Places -> Int] /\ survey.lat \in [Places -> Int]
      /\ survey.leg \in [Places \X Places -> Nat]
  BY <1>1
<1>3. RouteStop \subseteq Places
  BY DEF RouteStop, Places
<1> QED
  BY <1>2, <1>3

(* What a corridor is sorted by are numbers.                               *)
LEMMA KeysAreNumbers ==
    ASSUME survey \in Survey, NEW S, NEW bearing, NEW s \in RouteStop
    PROVE  Along(S, bearing).key[s] \in Int
<1> DEFINE flat == SpreadOf(S, survey.lon) >= SpreadOf(S, survey.lat)
           axis == IF flat THEN survey.lon ELSE survey.lat
           up == IF flat THEN "E" ELSE "N"
<1>1. axis \in [Places -> Int] /\ s \in Places
  BY SurveyTyped
<1>2. Along(S, bearing).key = IF up \in Components(bearing) THEN axis
                              ELSE [p \in DOMAIN axis |-> -axis[p]]
  BY DEF Along
<1> HIDE DEF axis, up
<1>3. axis[s] \in Int /\ -axis[s] \in Int /\ s \in DOMAIN axis
  BY <1>1
<1> QED
  BY <1>2, <1>3

(* If there are moves in reach, one of them is the best.                   *)
LEMMA MoveInReach ==
    ASSUME survey \in Survey, order \in [RouteStop -> RouteStop], at \in RouteStop,
           NEW reach, reach = {j \in DOMAIN order : j >= at + 2 /\ j <= at + Lookahead},
           reach # {}
    PROVE  \E j \in reach : \A k \in reach :
         Delta(at, j) < Delta(at, k) \/ (Delta(at, j) = Delta(at, k) /\ j <= k)
<1>1. Len(order) = Length /\ DOMAIN order = RouteStop /\ RouteStop = 1..Length /\ Length \in Nat
  BY OrderLength, OrderAssumption DEF RouteStop
<1>2. IsFiniteSet(reach) /\ (\A j \in reach : j \in Int /\ j \in RouteStop /\ j >= at + 2)
  <2>1. reach \subseteq 1..Length /\ 1 \in Int /\ Length \in Int /\ 1 <= Length + 1
    BY <1>1
  <2>2. IsFiniteSet(reach)
    BY <2>1, CountWithin
  <2> QED
    BY <1>1, <2>2
<1> DEFINE delta == [j \in reach |-> Delta(at, j)]
<1>3. ASSUME NEW j \in reach
      PROVE  Delta(at, j) \in Int
  <2> DEFINE leg(x, y) == survey.leg[order[x], order[y]]
  <2>1. \A x, y \in RouteStop : leg(x, y) \in Int
    <3>1. \A x \in RouteStop : order[x] \in Places
      BY SurveyTyped
    <3>2. \A x, y \in RouteStop : <<order[x], order[y]>> \in Places \X Places
      BY <3>1
    <3>3. \A p \in Places \X Places : survey.leg[p] \in Int
      BY SurveyTyped
    <3> QED
      BY <3>2, <3>3
  <2>2. j \in RouteStop /\ j - 1 \in RouteStop /\ at + 1 \in RouteStop
        /\ (j < Len(order) => j + 1 \in RouteStop)
    BY <1>1, <1>2
  <2> DEFINE gap == IF j < Len(order) THEN leg(j - 1, j + 1) - leg(j, j + 1) ELSE 0
  <2>3. Delta(at, j) = leg(at, j) + leg(j, at + 1) - leg(at, at + 1) - leg(j - 1, j) + gap
    BY DEF Delta
  <2> HIDE DEF leg
  <2>4. gap \in Int
    <3>1. j < Len(order) => leg(j - 1, j + 1) \in Int /\ leg(j, j + 1) \in Int
      BY <2>1, <2>2
    <3> QED
      BY <3>1
  <2> HIDE DEF gap
  <2>5. leg(at, j) \in Int /\ leg(j, at + 1) \in Int /\ leg(at, at + 1) \in Int
        /\ leg(j - 1, j) \in Int
    BY <2>1, <2>2
  <2> QED
    BY <2>3, <2>4, <2>5
<1>4. \A j \in reach : delta[j] = Delta(at, j) /\ delta[j] \in Int
  BY <1>3
<1> HIDE DEF delta
<1>5. PICK j \in reach : \A k \in reach : delta[j] < delta[k] \/ (delta[j] = delta[k] /\ j <= k)
  BY <1>2, <1>4, BestInReach
<1>6. \A k \in reach : \/ Delta(at, j) < Delta(at, k)
                       \/ Delta(at, j) = Delta(at, k) /\ j <= k
  BY <1>4, <1>5
<1> QED
  BY <1>6

(* The order to start with is a permutation of the stops.                  *)
LEMMA OrderInitInv == OrderInit => OrderInv
<1> SUFFICES ASSUME OrderInit
             PROVE  OrderInv
  OBVIOUS
<1>1. Length \in Nat /\ MaxMoves \in Nat
  BY OrderAssumption
<1>2. order \in [RouteStop -> RouteStop] /\ \A s \in RouteStop : order[s] = s
  BY DEF OrderInit
<1>3. OrderKeepsStops
  BY <1>2 DEF OrderKeepsStops, Orders
<1> QED
  BY <1>1, <1>2, <1>3 DEF OrderInv, OrderTypeOK, OrderInit, Pass

(* Each pass moves, pulls up or sorts, and each of these keeps every stop. *)
LEMMA OrderStepInv == OrderInv /\ [OrderNext]_orderVars => OrderInv'
<1> SUFFICES ASSUME OrderInv, [OrderNext]_orderVars
             PROVE  OrderInv'
  OBVIOUS
<1>1. /\ survey \in Survey /\ order \in Orders /\ order \in [RouteStop -> RouteStop]
      /\ pass \in Pass /\ at \in 1..(Length + 1) /\ moves \in 0..MaxMoves
      /\ Len(order) = Length /\ DOMAIN order = RouteStop
  BY OrderLength DEF OrderInv, OrderTypeOK, OrderKeepsStops
<1>2. Length \in Nat /\ MaxMoves \in Nat /\ RouteStop = 1..Length
  BY OrderAssumption DEF RouteStop
<1>3. ASSUME order' \in Orders, survey' = survey, pass' \in Pass, at' \in 1..(Length + 1),
             moves' \in 0..MaxMoves
      PROVE  OrderInv'
  BY <1>1, <1>3 DEF OrderInv, OrderTypeOK, OrderKeepsStops, Orders
<1>4. 1 \in 1..(Length + 1)
  BY <1>2
<1>5. CASE PlanTrip
  <2>1. order' \in Orders /\ pass' \in Pass /\ UNCHANGED <<survey, at, moves>>
    BY <1>5 DEF PlanTrip, Pass
  <2> QED
    BY <1>1, <1>3, <2>1
<1>6. CASE OsrmFails \/ SaveRun
  <2>1. pass' \in Pass /\ UNCHANGED <<survey, order, at, moves>>
    BY <1>6 DEF OsrmFails, SaveRun, Pass
  <2> QED
    BY <1>1, <1>3, <2>1
<1>7. CASE Over("regroup") \/ Over("refine") \/ Over("sanity")
  <2>1. pass' \in Pass /\ at' = 1 /\ UNCHANGED <<survey, order, moves>>
    BY <1>7 DEF Over, Pass
  <2> QED
    BY <1>1, <1>3, <1>4, <2>1
<1>8. CASE Search
  <2> DEFINE reach == {j \in DOMAIN order : j >= at + 2 /\ j <= at + Lookahead}
             best == CHOOSE j \in reach : \A k \in reach :
                        \/ Delta(at, j) < Delta(at, k)
                        \/ Delta(at, j) = Delta(at, k) /\ j <= k
  <2>1. survey' = survey
    BY <1>8 DEF Search
  <2>2. CASE ~(at < Len(order) /\ moves < MaxMoves)
    <3>1. pass' = "regroup" /\ at' = 1 /\ UNCHANGED <<order, moves>>
      BY <1>8, <2>2 DEF Search
    <3>2. pass' \in Pass
      BY <3>1 DEF Pass
    <3> QED
      BY <1>1, <1>3, <1>4, <2>1, <3>1, <3>2
  <2>3. CASE at < Len(order) /\ moves < MaxMoves
    <3>1. /\ at' = at + 1 /\ pass' = pass
          /\ \/ reach # {} /\ order' = MoveBehind(order, best, at) /\ moves' = moves + 1
             \/ UNCHANGED <<order, moves>>
      BY <1>8, <2>3, Zenon DEF Search
    <3>2. at' \in 1..(Length + 1) /\ at \in RouteStop /\ moves + 1 \in 0..MaxMoves
      BY <1>1, <1>2, <2>3, <3>1
    <3>3. ASSUME reach # {}
          PROVE  best \in reach
      <4>1. \E j \in reach : \A k \in reach :
         Delta(at, j) < Delta(at, k) \/ (Delta(at, j) = Delta(at, k) /\ j <= k)
        BY <1>1, <3>2, <3>3, MoveInReach
      <4> HIDE DEF reach
      <4> QED
        BY <4>1
    <3> HIDE DEF best
    <3>4. ASSUME reach # {}
          PROVE  MoveBehind(order, best, at) \in Orders
      <4>1. best \in RouteStop /\ best >= at + 2
        BY <1>1, <3>3, <3>4
      <4> QED
        BY <1>1, <3>2, <4>1, BehindKeeps
    <3> HIDE DEF reach
    <3>5. order' \in Orders /\ moves' \in 0..MaxMoves
      BY <1>1, <3>1, <3>2, <3>4
    <3> QED
      BY <1>1, <1>3, <2>1, <3>1, <3>2, <3>5
  <2> QED
    BY <2>2, <2>3
<1>9. CASE Regroup
  <2> DEFINE near == {j \in (at + 1)..(at + Window - 1) \intersect DOMAIN order :
                         SameCorridor(order[at], order[j])}
  <2>1. /\ at' = at + 1 /\ at <= Len(order)
        /\ UNCHANGED <<survey, pass, moves>>
    BY <1>9 DEF Regroup
  <2>2. at' \in 1..(Length + 1) /\ at \in RouteStop
    BY <1>1, <1>2, <2>1
  <2>3. near \subseteq (at + 1)..Length
    BY <1>1, <1>2, OrderAssumption
  <2>4. order' \in Orders
    <3> HIDE DEF near
    <3>1. PulledUp(order, at, near) \in Orders
      BY <1>1, <2>2, <2>3, PulledUpKeeps
    <3>2. order' = IF OnCorridor(order[at]) THEN PulledUp(order, at, near) ELSE order
      BY <1>9, Zenon DEF Regroup, near
    <3> QED
      BY <1>1, <3>1, <3>2
  <2> QED
    BY <1>1, <1>3, <2>1, <2>2, <2>4
<1>10. ASSUME at <= Len(order), NEW along, \A s \in RouteStop : along.key[s] \in Int
       PROVE  /\ Sorted(order, at, CorridorEnd(at), along.key) \in Orders
              /\ CorridorEnd(at) + 1 \in 1..(Length + 1)
  <2>1. at \in RouteStop
    BY <1>1, <1>2, <1>10
  <2>2. CorridorEnd(at) \in at..Length
    BY <1>1, <2>1, CorridorEnds
  <2>3. CorridorEnd(at) \in RouteStop /\ at <= CorridorEnd(at)
    BY <1>2, <2>1, <2>2
  <2>4. CorridorEnd(at) + 1 \in 1..(Length + 1)
    BY <1>2, <2>1, <2>2
  <2>5. order \in Orders
    BY <1>1
  <2>6. Sorted(order, at, CorridorEnd(at), along.key) \in Orders
    BY <1>10, <2>1, <2>3, <2>5, SortedKeeps
  <2> QED
    BY <2>4, <2>6
<1>11. CASE Refine
  <2> DEFINE j == CorridorEnd(at)
             along == Along({order[k] : k \in at..j}, survey.bearing[order[at]])
  <2>1. at <= Len(order) /\ UNCHANGED <<survey, pass, moves>>
        /\ \/ order' = Sorted(order, at, j, along.key) /\ at' = j + 1
           \/ order' = order /\ at' = j + 1
           \/ order' = order /\ at' = at + 1
    BY <1>11 DEF Refine
  <2>2. \A s \in RouteStop : along.key[s] \in Int
    BY <1>1, KeysAreNumbers
  <2>3. at + 1 \in 1..(Length + 1)
    BY <1>1, <1>2, <2>1
  <2> HIDE DEF along
  <2>4. Sorted(order, at, j, along.key) \in Orders /\ j + 1 \in 1..(Length + 1)
    BY <1>10, <2>1, <2>2
  <2> QED
    BY <1>1, <1>3, <2>1, <2>3, <2>4
<1>12. CASE Sanity
  <2> DEFINE j == CorridorEnd(at)
             along == Along({order[k] : k \in at..j}, survey.bearing[order[at]])
  <2>1. at <= Len(order) /\ UNCHANGED <<survey, pass, moves>>
        /\ \/ order' = Sorted(order, at, j, along.key) /\ at' = j + 1
           \/ order' = order /\ at' = j + 1
           \/ order' = order /\ at' = at + 1
    BY <1>12 DEF Sanity
  <2>2. \A s \in RouteStop : along.key[s] \in Int
    BY <1>1, KeysAreNumbers
  <2>3. at + 1 \in 1..(Length + 1)
    BY <1>1, <1>2, <2>1
  <2> HIDE DEF along
  <2>4. Sorted(order, at, j, along.key) \in Orders /\ j + 1 \in 1..(Length + 1)
    BY <1>10, <2>1, <2>2
  <2> QED
    BY <1>1, <1>3, <2>1, <2>3, <2>4
<1>13. CASE UNCHANGED orderVars
  BY <1>1, <1>3, <1>13 DEF orderVars
<1> QED
  BY <1>5, <1>6, <1>7, <1>8, <1>9, <1>11, <1>12, <1>13 DEF OrderNext

(* Whatever the legs, streets and bearings, no pass loses or doubles a     *)
(* stop (routeOrdering.ts), for any number of stops, moves, lookahead and  *)
(* window: createRouteRun inserts a row per entry.                         *)
THEOREM OrderCorrect == OrderSpec => [](OrderTypeOK /\ OrderKeepsStops)
<1>1. OrderInv => OrderTypeOK /\ OrderKeepsStops
  BY DEF OrderInv
<1> QED
  BY <1>1, OrderInitInv, OrderStepInv, PTL DEF OrderSpec

-----------------------------------------------------------------------------
(* RouteOrder: corridors and durations.                                    *)

(* A stop on a corridor, by a survey: OnCorridor.                          *)
On(v, s) == v.street[s] # "" /\ v.bearing[s] # ""

(* Stops of one street and bearing: SameCorridor.                          *)
Alike(v, s, t) == v.street[s] = v.street[t] /\ v.bearing[s] = v.bearing[t]

(* How a corridor runs: Along.                                             *)
AlongIn(v, S, bearing) ==
    LET flat == SpreadOf(S, v.lon) >= SpreadOf(S, v.lat)
        letters == Components(bearing)
        up == IF flat THEN "E" ELSE "N"
        down == IF flat THEN "W" ELSE "S"
        axis == IF flat THEN v.lon ELSE v.lat
    IN  [known |-> {up, down} \intersect letters # {},
         key |-> IF up \in letters THEN axis ELSE [s \in DOMAIN axis |-> -axis[s]]]

(* The stops from i to j are a corridor, as long as it goes.               *)
Stretch(v, o, i, j) ==
    /\ i <= j
    /\ On(v, o[i])
    /\ \A k \in i..j : Alike(v, o[i], o[k])
    /\ i > 1 => ~Alike(v, o[i - 1], o[i])
    /\ j < Length => ~Alike(v, o[i], o[j + 1])

(* It runs one way, if it is known which.                                  *)
Tidy(v, o, i, j) ==
    AlongIn(v, {o[k] : k \in i..j}, v.bearing[o[i]]).known =>
        \A k \in i..(j - 1) :
            AlongIn(v, {o[m] : m \in i..j}, v.bearing[o[i]]).key[o[k]]
              <= AlongIn(v, {o[m] : m \in i..j}, v.bearing[o[i]]).key[o[k + 1]]

(* No corridor goes on across p.                                           *)
Edge(v, o, p) == p \in 2..Length /\ On(v, o[p]) => ~Alike(v, o[p - 1], o[p])

(* While refining, the corridors behind the pass run one way, and then all *)
(* of them do; a pass is never in the middle of a corridor.                *)
ImproveInv ==
    /\ pass \in {"refine", "sanity"} => Edge(survey, order, at)
    /\ \A i, j \in RouteStop :
          (/\ Stretch(survey, order, i, j)
           /\ (pass = "refine" /\ j < at) \/ pass = "sanity")
          => Tidy(survey, order, i, j)

(* They are the corridors of the survey in use.                            *)
LEMMA AsSurveyed ==
    /\ \A s : OnCorridor(s) <=> On(survey, s)
    /\ \A s, t : SameCorridor(s, t) <=> Alike(survey, s, t)
    /\ \A S, b : Along(S, b) = AlongIn(survey, S, b)
<1>1. \A S, b : Along(S, b) = AlongIn(survey, S, b)
  BY Zenon DEF Along, AlongIn
<1> QED
  BY <1>1 DEF OnCorridor, SameCorridor, On, Alike

(* Where the same corridors are at the same places, they begin and end     *)
(* there.                                                                  *)
LEMMA SamePattern ==
    ASSUME NEW v, NEW o \in [RouteStop -> RouteStop], NEW s \in [RouteStop -> RouteStop],
           \A p \in RouteStop : Alike(v, o[p], s[p])
    PROVE  /\ \A p \in RouteStop : Edge(v, o, p) <=> Edge(v, s, p)
           /\ \A i, j \in RouteStop : Stretch(v, o, i, j) <=> Stretch(v, s, i, j)
<1>0. RouteStop = 1..Length /\ Length \in Nat
  BY OrderAssumption DEF RouteStop
<1>1. \A p \in RouteStop : On(v, o[p]) <=> On(v, s[p])
  BY DEF On, Alike
<1>2. \A p, q \in RouteStop : Alike(v, o[p], o[q]) <=> Alike(v, s[p], s[q])
  BY DEF Alike
<1>3. ASSUME NEW p \in RouteStop
      PROVE  Edge(v, o, p) <=> Edge(v, s, p)
  <2>1. p \in 2..Length => p - 1 \in RouteStop
    BY <1>0
  <2> QED
    BY <1>1, <1>2, <2>1 DEF Edge
<1>4. ASSUME NEW i \in RouteStop, NEW j \in RouteStop
      PROVE  Stretch(v, o, i, j) <=> Stretch(v, s, i, j)
  <2>1. i > 1 => i - 1 \in RouteStop
    BY <1>0
  <2>2. j < Length => j + 1 \in RouteStop
    BY <1>0
  <2>3. i..j \subseteq RouteStop
    BY <1>0
  <2> QED
    BY <1>1, <1>2, <2>1, <2>2, <2>3 DEF Stretch
<1> QED
  BY <1>3, <1>4

(* Corridors do not overlap.                                               *)
LEMMA StretchesApart ==
    ASSUME NEW v, NEW o, NEW i \in RouteStop, NEW j \in RouteStop,
           NEW x \in RouteStop, NEW y \in RouteStop,
           Stretch(v, o, i, j), Stretch(v, o, x, y), y \in i..j
    PROVE  x = i /\ y = j
<1>0. RouteStop = 1..Length /\ Length \in Nat /\ i \in Int /\ j \in Int /\ x \in Int /\ y \in Int
      /\ x <= y /\ i <= j
  BY OrderAssumption DEF RouteStop, Stretch
<1>1. \A k \in i..j : Alike(v, o[i], o[k])
  BY DEF Stretch
<1>2. \A k \in x..y : Alike(v, o[x], o[k])
  BY DEF Stretch
<1>3. Alike(v, o[x], o[y]) /\ Alike(v, o[i], o[y])
  BY <1>0, <1>1, <1>2
<1>4. y = j
  <2> SUFFICES ASSUME y < j
               PROVE  FALSE
    BY <1>0
  <2>1. y + 1 \in i..j /\ y < Length
    BY <1>0
  <2>2. ~Alike(v, o[x], o[y + 1])
    BY <2>1 DEF Stretch
  <2>3. Alike(v, o[i], o[y + 1])
    BY <1>1, <2>1
  <2> QED
    BY <1>3, <2>2, <2>3 DEF Alike
<1>5. ~(x < i)
  <2> SUFFICES ASSUME x < i
               PROVE  FALSE
    OBVIOUS
  <2>1. i - 1 \in x..y /\ i > 1
    BY <1>0
  <2>2. ~Alike(v, o[i - 1], o[i])
    BY <2>1 DEF Stretch
  <2>3. Alike(v, o[x], o[i - 1])
    BY <1>2, <2>1
  <2> QED
    BY <1>3, <2>2, <2>3 DEF Alike
<1>6. ~(i < x)
  <2> SUFFICES ASSUME i < x
               PROVE  FALSE
    OBVIOUS
  <2>1. x - 1 \in i..j /\ x > 1
    BY <1>0
  <2>2. ~Alike(v, o[x - 1], o[x])
    BY <2>1 DEF Stretch
  <2>3. Alike(v, o[i], o[x - 1])
    BY <1>1, <2>1
  <2> QED
    BY <1>3, <2>2, <2>3 DEF Alike
<1> QED
  BY <1>0, <1>4, <1>5, <1>6

(* A pass that comes to a corridor is at its beginning, and goes to its    *)
(* end.                                                                    *)
LEMMA CorridorAhead ==
    ASSUME order \in [RouteStop -> RouteStop], at \in RouteStop,
           On(survey, order[at]), Edge(survey, order, at)
    PROVE  /\ CorridorEnd(at) \in RouteStop
           /\ Stretch(survey, order, at, CorridorEnd(at))
           /\ Edge(survey, order, CorridorEnd(at) + 1)
<1> DEFINE j == CorridorEnd(at)
<1>1. /\ j \in at..Length
      /\ \A k \in at..j : SameCorridor(order[at], order[k])
      /\ j < Length => ~SameCorridor(order[at], order[j + 1])
  BY CorridorEnds
<1>2. RouteStop = 1..Length /\ Length \in Nat /\ at \in Int
  BY OrderAssumption DEF RouteStop
<1>3. j \in RouteStop /\ at <= j /\ j \in Int
  BY <1>1, <1>2
<1> HIDE DEF j
<1>4. /\ \A k \in at..j : Alike(survey, order[at], order[k])
      /\ j < Length => ~Alike(survey, order[at], order[j + 1])
  BY <1>1, AsSurveyed
<1>5. at > 1 => ~Alike(survey, order[at - 1], order[at])
  BY <1>2 DEF Edge
<1>6. Stretch(survey, order, at, j)
  BY <1>3, <1>4, <1>5 DEF Stretch
<1>7. Edge(survey, order, j + 1)
  <2>1. Alike(survey, order[at], order[j])
    BY <1>2, <1>3, <1>4
  <2>2. j + 1 \in 2..Length => ~Alike(survey, order[j], order[j + 1])
    BY <1>2, <1>3, <1>4, <2>1 DEF Alike
  <2>3. (j + 1) - 1 = j
    BY <1>3
  <2> QED
    BY <2>2, <2>3 DEF Edge
<1> QED
  BY <1>3, <1>6, <1>7 DEF j

(* A stop on no corridor is passed by.                                     *)
LEMMA NoCorridorAhead ==
    ASSUME NEW v, NEW o \in [RouteStop -> RouteStop], NEW p \in RouteStop, ~On(v, o[p])
    PROVE  /\ Edge(v, o, p + 1)
           /\ \A i \in RouteStop : ~Stretch(v, o, i, p)
<1>1. RouteStop = 1..Length /\ Length \in Nat /\ p \in Int
  BY OrderAssumption DEF RouteStop
<1>2. Edge(v, o, p + 1)
  <2>1. (p + 1) - 1 = p
    BY <1>1
  <2>2. On(v, o[p + 1]) => ~Alike(v, o[p], o[p + 1])
    BY DEF On, Alike
  <2> QED
    BY <2>1, <2>2 DEF Edge
<1>3. ASSUME NEW i \in RouteStop, Stretch(v, o, i, p)
      PROVE  FALSE
  <2>1. p \in i..p
    BY <1>1, <1>3 DEF Stretch
  <2>2. Alike(v, o[i], o[p]) /\ On(v, o[i])
    BY <1>3, <2>1 DEF Stretch
  <2> QED
    BY <2>2 DEF On, Alike
<1> QED
  BY <1>2, <1>3

(* Refining a corridor leaves it running one way, like those before it: it *)
(* keeps its stops, so the axis and the way it is sorted by are those it   *)
(* is judged by later.                                                     *)
LEMMA RefinedRunsOneWay ==
    ASSUME OrderInv, ImproveInv, at \in RouteStop, pass = "refine", On(survey, order[at]),
           NEW s
    PROVE  s = (IF CorridorEnd(at) > at
                    /\ Along({order[k] : k \in at..CorridorEnd(at)}, survey.bearing[order[at]]).known
                THEN Sorted(order, at, CorridorEnd(at),
                        Along({order[k] : k \in at..CorridorEnd(at)}, survey.bearing[order[at]]).key)
                ELSE order)
           => /\ Edge(survey, s, CorridorEnd(at) + 1)
              /\ \A x, y \in RouteStop :
                    Stretch(survey, s, x, y) /\ y < CorridorEnd(at) + 1 => Tidy(survey, s, x, y)
<1> DEFINE j == CorridorEnd(at)
           T == {order[k] : k \in at..j}
           along == AlongIn(survey, T, survey.bearing[order[at]])
<1>0. SUFFICES ASSUME s = IF j > at /\ Along(T, survey.bearing[order[at]]).known
                          THEN Sorted(order, at, j, Along(T, survey.bearing[order[at]]).key)
                          ELSE order
               PROVE  /\ Edge(survey, s, j + 1)
                      /\ \A x, y \in RouteStop :
                            Stretch(survey, s, x, y) /\ y < j + 1 => Tidy(survey, s, x, y)
  OBVIOUS
<1>1. /\ survey \in Survey /\ order \in Orders /\ order \in [RouteStop -> RouteStop]
      /\ Edge(survey, order, at)
  BY DEF OrderInv, OrderTypeOK, OrderKeepsStops, ImproveInv
<1>2. RouteStop = 1..Length /\ Length \in Nat /\ at \in Int
  BY OrderAssumption DEF RouteStop
<1>3. /\ j \in RouteStop /\ Stretch(survey, order, at, j) /\ Edge(survey, order, j + 1)
  BY <1>1, CorridorAhead
<1>4. s = IF j > at /\ along.known THEN Sorted(order, at, j, along.key) ELSE order
  BY <1>0, AsSurveyed
<1>5. \A t \in RouteStop : along.key[t] \in Int
  BY <1>1, AsSurveyed, KeysAreNumbers
<1> DEFINE key == along.key
           known == along.known
<1>6. at <= j /\ j \in Int
  BY <1>2, <1>3 DEF Stretch
<1>7. at..j \subseteq RouteStop
  BY <1>2, <1>3
<1> HIDE DEF j, T
<1>8. /\ s \in [RouteStop -> RouteStop]
      /\ \A p \in RouteStop \ (at..j) : s[p] = order[p]
      /\ {s[k] : k \in at..j} = T
      /\ known => \A k \in at..(j - 1) : key[s[k]] <= key[s[k + 1]]
  <2>1. CASE j > at /\ known
    <3>1. s = Sorted(order, at, j, key)
      BY <1>4, <2>1
    <3> HIDE DEF T, along, key, known
    <3>2. \A t \in RouteStop : key[t] \in Int
      BY <1>5 DEF key
    <3>5. order \in Orders /\ at <= j
      BY <1>1, <1>6
    <3>6. j \in RouteStop
      BY <1>3
    <3>7. /\ Sorted(order, at, j, key) \in [RouteStop -> RouteStop]
          /\ \A p \in RouteStop \ (at..j) : Sorted(order, at, j, key)[p] = order[p]
      BY <3>2, <3>5, <3>6, SortedPlaces
    <3>8. /\ {Sorted(order, at, j, key)[k] : k \in at..j} = {order[k] : k \in at..j}
          /\ \A k \in at..(j - 1) :
                key[Sorted(order, at, j, key)[k]] <= key[Sorted(order, at, j, key)[k + 1]]
      BY <3>2, <3>5, <3>6, SortedSorts
    <3> QED
      BY <3>1, <3>7, <3>8 DEF T
  <2>2. CASE ~(j > at /\ known)
    <3>1. s = order
      BY <1>4, <2>2
    <3>2. known => at..(j - 1) = {}
      BY <1>2, <1>6, <2>2
    <3> QED
      BY <1>1, <3>1, <3>2 DEF T
  <2> QED
    BY <2>1, <2>2
<1>9. \A p \in at..j : s[p] \in T
  BY <1>8
<1>10. ASSUME NEW p \in RouteStop
       PROVE  Alike(survey, order[p], s[p])
  <2>1. CASE p \in at..j
    <3>1. PICK m \in at..j : s[p] = order[m]
      BY <1>9, <2>1 DEF T
    <3>2. Alike(survey, order[at], order[m]) /\ Alike(survey, order[at], order[p])
      BY <1>3, <2>1 DEF Stretch
    <3> QED
      BY <3>1, <3>2 DEF Alike
  <2>2. CASE p \notin at..j
    <3>1. s[p] = order[p]
      BY <1>8, <2>2
    <3> QED
      BY <3>1 DEF Alike
  <2> QED
    BY <2>1, <2>2
<1>11. /\ \A p \in RouteStop : Edge(survey, order, p) <=> Edge(survey, s, p)
       /\ \A x, y \in RouteStop : Stretch(survey, order, x, y) <=> Stretch(survey, s, x, y)
  <2>1. order \in [RouteStop -> RouteStop]
    BY <1>1
  <2>3. s \in [RouteStop -> RouteStop]
    BY <1>8
  <2>2. \A p \in RouteStop : Alike(survey, order[p], s[p])
    BY <1>10
  <2> QED
    BY <2>1, <2>2, <2>3, SamePattern
<1>12. Edge(survey, s, j + 1)
  <2>1. CASE j + 1 \in RouteStop
    BY <1>3, <1>11, <2>1
  <2>2. CASE j + 1 \notin RouteStop
    BY <1>2, <1>6, <2>2 DEF Edge
  <2> QED
    BY <2>1, <2>2
<1>13. ASSUME NEW x \in RouteStop, NEW y \in RouteStop, Stretch(survey, s, x, y), y < j + 1
       PROVE  Tidy(survey, s, x, y)
  <2>1. Stretch(survey, order, x, y)
    BY <1>11, <1>13
  <2>2. x \in Int /\ y \in Int
    BY <1>2
  <2>3. CASE y < at
    <3>1. Tidy(survey, order, x, y)
      BY <2>1, <2>3 DEF ImproveInv
    <3>2. \A k \in x..y : s[k] = order[k]
      <4>1. \A k \in x..y : k \in RouteStop \ (at..j)
        BY <1>2, <2>2, <2>3
      <4> QED
        BY <1>8, <4>1
    <3>3. {s[k] : k \in x..y} = {order[k] : k \in x..y}
      BY <3>2
    <3>4. s[x] = order[x]
      BY <2>1, <2>2, <3>2 DEF Stretch
    <3>5. \A k \in x..(y - 1) : s[k] = order[k] /\ s[k + 1] = order[k + 1]
      BY <2>2, <3>2
    <3> DEFINE al == AlongIn(survey, {order[k] : k \in x..y}, survey.bearing[order[x]])
    <3>6. al = AlongIn(survey, {s[k] : k \in x..y}, survey.bearing[s[x]])
      BY <3>3, <3>4
    <3>7. al.known => \A k \in x..(y - 1) : al.key[order[k]] <= al.key[order[k + 1]]
      BY <3>1 DEF Tidy
    <3> HIDE DEF al
    <3>8. al.known => \A k \in x..(y - 1) : al.key[s[k]] <= al.key[s[k + 1]]
      BY <3>5, <3>7
    <3> QED
      BY <3>6, <3>8 DEF Tidy
  <2>4. CASE ~(y < at)
    <3>1. y \in at..j
      BY <1>2, <1>6, <1>13, <2>2, <2>4
    <3>2. x = at /\ y = j
      BY <1>3, <2>1, <3>1, StretchesApart
    <3>3. survey.bearing[s[at]] = survey.bearing[order[at]]
      BY <1>10 DEF Alike
    <3>4. along = AlongIn(survey, {s[k] : k \in at..j}, survey.bearing[s[at]])
      BY <1>8, <3>3
    <3>5. along.known => \A k \in at..(j - 1) : along.key[s[k]] <= along.key[s[k + 1]]
      BY <1>8
    <3> HIDE DEF along
    <3>6. Tidy(survey, s, at, j)
      BY <3>4, <3>5 DEF Tidy
    <3> QED
      BY <3>2, <3>6
  <2> QED
    BY <2>3, <2>4
<1> QED
  BY <1>12, <1>13

(* Where every corridor runs one way, the last pass corrects nothing.      *)
LEMMA SanityCorrectsNothing ==
    ASSUME OrderInv, ImproveInv, Sanity
    PROVE  order' = order /\ Edge(survey, order, at')
<1>1. /\ survey \in Survey /\ order \in Orders /\ order \in [RouteStop -> RouteStop]
      /\ at \in 1..(Length + 1) /\ Len(order) = Length
  BY OrderLength DEF OrderInv, OrderTypeOK, OrderKeepsStops
<1>2. RouteStop = 1..Length /\ Length \in Nat
  BY OrderAssumption DEF RouteStop
<1>3. /\ pass = "sanity" /\ at \in RouteStop /\ at \in Int
  BY <1>1, <1>2 DEF Sanity
<1>4. Edge(survey, order, at)
  BY <1>3 DEF ImproveInv
<1>5. CASE ~OnCorridor(order[at])
  <2>1. order' = order /\ at' = at + 1
    BY <1>5 DEF Sanity
  <2>2. ~On(survey, order[at])
    BY <1>5, AsSurveyed
  <2> QED
    BY <1>1, <1>3, <2>1, <2>2, NoCorridorAhead
<1>6. CASE OnCorridor(order[at])
  <2> DEFINE j == CorridorEnd(at)
             along == Along({order[k] : k \in at..j}, survey.bearing[order[at]])
             good == {k \in at..(j - 1) : along.key[order[k]] <= along.key[order[k + 1]]}
  <2>1. /\ at' = j + 1
        /\ order' = IF j > at /\ along.known /\ 5 * Cardinality(good) < 4 * (j - at)
                    THEN Sorted(order, at, j, along.key) ELSE order
    BY <1>6, Zenon DEF Sanity
  <2>2. On(survey, order[at])
    BY <1>6, AsSurveyed
  <2>3. /\ j \in RouteStop /\ Stretch(survey, order, at, j) /\ Edge(survey, order, j + 1)
    BY <1>1, <1>3, <1>4, <2>2, CorridorAhead
  <2>4. Tidy(survey, order, at, j)
    BY <1>3, <2>3 DEF ImproveInv
  <2>5. along = AlongIn(survey, {order[k] : k \in at..j}, survey.bearing[order[at]])
    BY AsSurveyed
  <2>6. ASSUME along.known
        PROVE  good = at..(j - 1)
    <3>1. \A k \in at..(j - 1) : along.key[order[k]] <= along.key[order[k + 1]]
      BY <2>4, <2>5, <2>6 DEF Tidy
    <3> HIDE DEF along
    <3> QED
      BY <3>1
  <2> HIDE DEF good, along
  <2>7. ASSUME j > at, along.known
        PROVE  ~(5 * Cardinality(good) < 4 * (j - at))
    <3>1. j \in Int
      BY <1>2, <2>3
    <3>2. Cardinality(at..(j - 1)) = j - at
      <4> HIDE DEF j
      <4>1. j - 1 \in Int /\ at <= j - 1
        BY <1>3, <2>7, <3>1
      <4>2. Cardinality(at..(j - 1)) = (j - 1) - at + 1
        BY <1>3, <4>1, FS_Interval
      <4> QED
        BY <1>3, <3>1, <4>2
    <3>3. Cardinality(good) = j - at
      BY <2>6, <2>7, <3>2
    <3> HIDE DEF j
    <3> QED
      BY <1>3, <2>7, <3>1, <3>3
  <2>8. order' = order
    BY <2>1, <2>7
  <2> QED
    BY <2>1, <2>3, <2>8
<1> QED
  BY <1>5, <1>6

(* Refine goes on by a corridor, or by a stop that is on none; Sanity      *)
(* leaves all as it was.                                                   *)
LEMMA ImproveStepInv == OrderInv /\ ImproveInv /\ [OrderNext]_orderVars => ImproveInv'
<1> SUFFICES ASSUME OrderInv, ImproveInv, [OrderNext]_orderVars
             PROVE  ImproveInv'
  OBVIOUS
<1>1. /\ survey \in Survey /\ order \in Orders /\ order \in [RouteStop -> RouteStop]
      /\ at \in 1..(Length + 1) /\ Len(order) = Length
  BY OrderLength DEF OrderInv, OrderTypeOK, OrderKeepsStops
<1>2. RouteStop = 1..Length /\ Length \in Nat
  BY OrderAssumption DEF RouteStop
<1>3. ASSUME pass' \notin {"refine", "sanity"}
      PROVE  ImproveInv'
  BY <1>3 DEF ImproveInv
<1>4. CASE PlanTrip \/ OsrmFails \/ Search \/ Regroup \/ SaveRun \/ Over("sanity")
  <2>1. pass' \notin {"refine", "sanity"}
    BY <1>4 DEF PlanTrip, OsrmFails, Search, Regroup, SaveRun, Over
  <2> QED
    BY <1>3, <2>1
<1>5. Edge(survey, order, 1)
  BY DEF Edge
<1>6. CASE Over("regroup")
  <2>1. pass' = "refine" /\ at' = 1 /\ survey' = survey /\ order' = order
    BY <1>6 DEF Over
  <2>2. \A y \in RouteStop : ~(y < 1)
    BY <1>2
  <2> QED
    BY <1>5, <2>1, <2>2 DEF ImproveInv
<1>7. CASE Over("refine")
  <2>1. pass' = "sanity" /\ at' = 1 /\ survey' = survey /\ order' = order /\ pass = "refine"
        /\ at > Length
    BY <1>1, <1>7 DEF Over
  <2>2. \A y \in RouteStop : y < at
    BY <1>1, <1>2, <2>1
  <2> QED
    BY <1>5, <2>1, <2>2 DEF ImproveInv
<1>8. CASE Refine
  <2>1. /\ pass = "refine" /\ pass' = "refine" /\ survey' = survey /\ at \in RouteStop
        /\ at \in Int
    BY <1>1, <1>2, <1>8 DEF Refine
  <2>2. CASE ~OnCorridor(order[at])
    <3>1. order' = order /\ at' = at + 1
      BY <1>8, <2>2 DEF Refine
    <3>2. ~On(survey, order[at])
      BY <2>2, AsSurveyed
    <3>3. Edge(survey, order, at + 1) /\ \A x \in RouteStop : ~Stretch(survey, order, x, at)
      BY <1>1, <2>1, <3>2, NoCorridorAhead
    <3>4. \A y \in RouteStop : y < at + 1 => y < at \/ y = at
      BY <1>2, <2>1
    <3> QED
      BY <2>1, <3>1, <3>3, <3>4 DEF ImproveInv
  <2>3. CASE OnCorridor(order[at])
    <3>1. /\ at' = CorridorEnd(at) + 1
          /\ order' = IF CorridorEnd(at) > at
                    /\ Along({order[k] : k \in at..CorridorEnd(at)}, survey.bearing[order[at]]).known
               THEN Sorted(order, at, CorridorEnd(at),
                       Along({order[k] : k \in at..CorridorEnd(at)}, survey.bearing[order[at]]).key)
               ELSE order
      BY <1>8, <2>3, Zenon DEF Refine
    <3>2. On(survey, order[at])
      BY <2>3, AsSurveyed
    <3>3. /\ Edge(survey, order', at')
          /\ \A x, y \in RouteStop :
                 Stretch(survey, order', x, y) /\ y < at' => Tidy(survey, order', x, y)
      BY <2>1, <3>1, <3>2, RefinedRunsOneWay
    <3> QED
      BY <2>1, <3>3 DEF ImproveInv
  <2> QED
    BY <2>2, <2>3
<1>9. CASE Sanity
  <2>1. order' = order /\ Edge(survey, order, at')
    BY <1>9, SanityCorrectsNothing
  <2>2. pass = "sanity" /\ pass' = "sanity" /\ survey' = survey
    BY <1>9 DEF Sanity
  <2> QED
    BY <2>1, <2>2 DEF ImproveInv
<1>10. CASE UNCHANGED orderVars
  BY <1>10 DEF orderVars, ImproveInv
<1> QED
  BY <1>4, <1>6, <1>7, <1>8, <1>9, <1>10 DEF OrderNext

(* The time between the stops of two places.                               *)
Leg(o, x, y) == survey.leg[o[x], o[y]]

(* The time to each of the first n places, from that to the one before it. *)
To(o, n, f) == [k \in 1..n |-> IF k = 1 THEN 0 ELSE f[k - 1] + survey.leg[o[k - 1], o[k]]]

(* Times are numbers.                                                      *)
LEMMA LegsAreNumbers ==
    ASSUME survey \in Survey, NEW o \in [RouteStop -> RouteStop]
    PROVE  \A x, y \in RouteStop : Leg(o, x, y) \in Nat
<1> SUFFICES ASSUME NEW x \in RouteStop, NEW y \in RouteStop
             PROVE  Leg(o, x, y) \in Nat
  OBVIOUS
<1>1. o[x] \in Places /\ o[y] \in Places
  BY SurveyTyped
<1>2. <<o[x], o[y]>> \in Places \X Places
  BY <1>1
<1>3. \A p \in Places \X Places : survey.leg[p] \in Nat
  BY SurveyTyped
<1> QED
  BY <1>2, <1>3 DEF Leg

(* The duration of an order is the time to its last stop.                  *)
LEMMA DurationUnfolds ==
    ASSUME survey \in Survey, Length > 0, NEW o \in [RouteStop -> RouteStop]
    PROVE  \E to : /\ Duration(o) = to[Length]
                   /\ to[1] = 0
                   /\ \A k \in RouteStop : to[k] \in Nat
                   /\ \A k \in 2..Length : to[k] = to[k - 1] + Leg(o, k - 1, k)
<1>0. RouteStop = 1..Length /\ Length \in Nat /\ Len(o) = Length
  BY OrderAssumption, OrderLength DEF RouteStop
<1> DEFINE P == {n \in Nat : \E f : f = To(o, n, f)}
<1>1. 0 \in P
  <2> DEFINE f == [k \in 1..0 |-> 0]
  <2>1. 1..0 = {}
    OBVIOUS
  <2>2. f = To(o, 0, f)
    BY <2>1 DEF To
  <2> QED
    BY <2>2
<1>2. ASSUME NEW n \in Nat, n \in P
      PROVE  n + 1 \in P
  <2>1. PICK g : g = To(o, n, g)
    BY <1>2
  <2> DEFINE f == To(o, n + 1, g)
  <2>2. \A k \in 1..n : f[k] = g[k]
    <3> TAKE k \in 1..n
    <3>1. k \in 1..(n + 1)
      OBVIOUS
    <3> QED
      BY <2>1, <3>1 DEF To
  <2>3. \A k \in 1..(n + 1) : k # 1 => f[k - 1] = g[k - 1]
    BY <2>2
  <2> HIDE DEF f
  <2>4. To(o, n + 1, f) = To(o, n + 1, g)
    BY <2>3 DEF To
  <2>5. f = To(o, n + 1, f)
    BY <2>4 DEF f
  <2> QED
    BY <2>5
<1>3. Length \in P
  <2> HIDE DEF P
  <2> QED
    BY <1>0, <1>1, <1>2, EveryNumber
<1>4. \E f : f = To(o, Length, f)
  BY <1>3
<1> DEFINE to == CHOOSE f : f = To(o, Length, f)
<1>5. to = To(o, Length, to)
  BY <1>4
<1>6. Duration(o) = to[Length]
  BY <1>0 DEF Duration, To
<1> HIDE DEF to
<1>7. to[1] = 0
  <2>1. 1 \in 1..Length
    BY <1>0
  <2> QED
    BY <1>5, <2>1 DEF To
<1>8. ASSUME NEW k \in 2..Length
      PROVE  to[k] = to[k - 1] + Leg(o, k - 1, k)
  <2>1. k \in 1..Length /\ k # 1
    BY <1>0
  <2> QED
    BY <1>5, <2>1 DEF To, Leg
<1> DEFINE Q == {n \in Nat : n + 1 <= Length => to[n + 1] \in Nat}
<1>9. 0 \in Q
  BY <1>7
<1>10. ASSUME NEW n \in Nat, n \in Q
       PROVE  n + 1 \in Q
  <2> SUFFICES ASSUME n + 2 <= Length
               PROVE  to[n + 2] \in Nat
    OBVIOUS
  <2>1. n + 2 \in 2..Length /\ (n + 2) - 1 = n + 1 /\ n + 1 \in RouteStop /\ n + 2 \in RouteStop
    BY <1>0
  <2>2. to[n + 2] = to[n + 1] + Leg(o, n + 1, n + 2)
    BY <1>8, <2>1
  <2>3. Leg(o, n + 1, n + 2) \in Nat
    BY <2>1, LegsAreNumbers
  <2>4. to[n + 1] \in Nat
    BY <1>0, <1>10
  <2> QED
    BY <2>2, <2>3, <2>4
<1>11. Nat \subseteq Q
  <2> HIDE DEF Q
  <2> QED
    BY <1>9, <1>10, EveryNumber
<1>12. ASSUME NEW k \in RouteStop
       PROVE  to[k] \in Nat
  <2>1. k - 1 \in Nat /\ (k - 1) + 1 = k /\ k <= Length
    BY <1>0
  <2>2. k - 1 \in Q
    BY <1>11, <2>1
  <2> QED
    BY <2>1, <2>2
<1> QED
  BY <1>6, <1>7, <1>8, <1>12

(* Times that grow by the legs c.                                          *)
Grows(a, c, m, n) == \A k \in m..n : k # m => c[k] \in Int /\ a[k] = a[k - 1] + c[k]

(* Times that grow by the same legs stay as far apart as they start.       *)
LEMMA ApartAlways ==
    ASSUME NEW m \in Nat, NEW n \in Nat, NEW a, NEW b, NEW c,
           \A k \in m..n : a[k] \in Int /\ b[k] \in Int,
           Grows(a, c, m, n), Grows(b, c, m, n)
    PROVE  \A k \in m..n : b[k] = a[k] + (b[m] - a[m])
<1> DEFINE d == b[m] - a[m]
           P == {x \in Nat : m + x <= n => b[m + x] = a[m + x] + d}
<1>1. 0 \in P
  <2>1. m <= n => m \in m..n
    OBVIOUS
  <2>2. m <= n => b[m] = a[m] + d
    BY <2>1
  <2> QED
    BY <2>2
<1>2. ASSUME NEW x \in Nat, x \in P
      PROVE  x + 1 \in P
  <2> SUFFICES ASSUME m + x + 1 <= n
               PROVE  b[m + x + 1] = a[m + x + 1] + d
    BY m + (x + 1) = m + x + 1
  <2> DEFINE k == m + x + 1
  <2>1. k \in m..n /\ k # m /\ k - 1 = m + x /\ m + x \in m..n /\ m \in m..n
    OBVIOUS
  <2>2. b[m + x] = a[m + x] + d
    BY <1>2
  <2>3. c[k] \in Int /\ a[k] = a[m + x] + c[k] /\ b[k] = b[m + x] + c[k] /\ a[m + x] \in Int
    BY <2>1 DEF Grows
  <2>4. d \in Int
    BY <2>1
  <2> HIDE DEF k, d
  <2>5. b[k] = a[k] + d
    BY <2>2, <2>3, <2>4
  <2> QED
    BY <2>5 DEF k
<1>3. Nat \subseteq P
  <2> HIDE DEF P
  <2> QED
    BY <1>1, <1>2, EveryNumber
<1> SUFFICES ASSUME NEW k \in m..n
             PROVE  b[k] = a[k] + d
  OBVIOUS
<1>4. k - m \in Nat /\ m + (k - m) = k /\ k <= n
  OBVIOUS
<1>5. k - m \in P
  BY <1>3, <1>4
<1> QED
  BY <1>4, <1>5

(* Moving a stop changes the duration of the whole route by what the       *)
(* search reckons with, four or five legs of it, whatever the way back     *)
(* takes.                                                                  *)
LEMMA MoveChanges ==
    ASSUME survey \in Survey, order \in Orders, NEW i \in RouteStop, NEW j \in RouteStop, j >= i + 2
    PROVE  /\ Delta(i, j) \in Int
           /\ Duration(order) \in Int
           /\ Duration(MoveBehind(order, j, i)) = Duration(order) + Delta(i, j)
<1> DEFINE m == MoveBehind(order, j, i)
           L(x, y) == Leg(order, x, y)
           M(x, y) == Leg(m, x, y)
           gap == IF j < Length THEN L(j - 1, j + 1) - L(j, j + 1) ELSE 0
           c == L(i, j) + L(j, i + 1) - L(i, i + 1)
<1>0. /\ RouteStop = 1..Length /\ Length \in Nat /\ i \in Nat /\ j \in Nat
      /\ 1 <= i /\ j <= Length /\ Length > 0
  BY OrderAssumption DEF RouteStop
<1>1. order \in [RouteStop -> RouteStop] /\ DOMAIN order = RouteStop /\ Len(order) = Length
  BY OrderLength DEF Orders
<1>2. m \in [RouteStop -> RouteStop]
  <2>1. m \in Orders
    BY BehindKeeps
  <2> QED
    BY <2>1 DEF Orders
<1>3. /\ \A k \in 1..i : m[k] = order[k]
      /\ m[i + 1] = order[j]
      /\ \A k \in (i + 2)..j : m[k] = order[k - 1]
      /\ \A k \in (j + 1)..Length : m[k] = order[k]
  BY <1>0, <1>1 DEF MoveBehind
<1>5. \A x, y \in RouteStop : L(x, y) \in Nat
  BY <1>1, LegsAreNumbers
<1>6. /\ \A k \in 2..i : M(k - 1, k) = L(k - 1, k)
      /\ M(i, i + 1) = L(i, j)
      /\ M(i + 1, i + 2) = L(j, i + 1)
      /\ \A k \in (i + 3)..j : M(k - 1, k) = L(k - 2, k - 1)
      /\ j < Length => M(j, j + 1) = L(j - 1, j + 1)
      /\ \A k \in (j + 2)..Length : M(k - 1, k) = L(k - 1, k)
  <2>1. \A k \in 2..i : k \in 1..i /\ k - 1 \in 1..i
    BY <1>0
  <2>2. i \in 1..i /\ i + 2 \in (i + 2)..j /\ (i + 2) - 1 = i + 1 /\ j \in (i + 2)..j
    BY <1>0
  <2>3. \A k \in (i + 3)..j : k \in (i + 2)..j /\ k - 1 \in (i + 2)..j /\ (k - 1) - 1 = k - 2
    BY <1>0
  <2>4. j < Length => j + 1 \in (j + 1)..Length
    BY <1>0
  <2>5. \A k \in (j + 2)..Length : k \in (j + 1)..Length /\ k - 1 \in (j + 1)..Length
    BY <1>0
  <2> HIDE DEF m
  <2> QED
    BY <1>3, <2>1, <2>2, <2>3, <2>4, <2>5 DEF Leg
<1>7. PICK a : /\ Duration(order) = a[Length]
               /\ a[1] = 0
               /\ \A k \in RouteStop : a[k] \in Nat
               /\ \A k \in 2..Length : a[k] = a[k - 1] + L(k - 1, k)
  BY <1>0, <1>1, DurationUnfolds
<1>8. PICK b : /\ Duration(m) = b[Length]
               /\ b[1] = 0
               /\ \A k \in RouteStop : b[k] \in Nat
               /\ \A k \in 2..Length : b[k] = b[k - 1] + M(k - 1, k)
  BY <1>0, <1>2, DurationUnfolds
<1>9. /\ i \in RouteStop /\ i + 1 \in RouteStop /\ j - 1 \in RouteStop /\ j \in RouteStop
      /\ i + 1 \in 2..Length /\ i + 2 \in 2..Length /\ j \in 2..Length
      /\ j < Length => j + 1 \in RouteStop /\ j + 1 \in 2..Length
  BY <1>0
<1>10. c \in Int /\ gap \in Int /\ L(j - 1, j) \in Int /\ c - L(j - 1, j) + gap \in Int
  <2>1. L(i, j) \in Int /\ L(j, i + 1) \in Int /\ L(i, i + 1) \in Int /\ L(j - 1, j) \in Int
    BY <1>5, <1>9
  <2>2. j < Length => L(j - 1, j + 1) \in Int /\ L(j, j + 1) \in Int
    BY <1>5, <1>9
  <2> HIDE DEF L
  <2> QED
    BY <2>1, <2>2
<1>4. Delta(i, j) = c - L(j - 1, j) + gap
  <2> DEFINE leg(x, y) == survey.leg[order[x], order[y]]
             g == IF j < Len(order) THEN leg(j - 1, j + 1) - leg(j, j + 1) ELSE 0
  <2>1. Delta(i, j) = leg(i, j) + leg(j, i + 1) - leg(i, i + 1) - leg(j - 1, j) + g
    BY DEF Delta
  <2>2. g = gap
    BY <1>1 DEF Leg
  <2>3. /\ leg(i, j) = L(i, j) /\ leg(j, i + 1) = L(j, i + 1) /\ leg(i, i + 1) = L(i, i + 1)
        /\ leg(j - 1, j) = L(j - 1, j)
    BY DEF Leg
  <2>4. L(i, j) \in Int /\ L(j, i + 1) \in Int /\ L(i, i + 1) \in Int /\ L(j - 1, j) \in Int
        /\ gap \in Int
    BY <1>5, <1>9, <1>10
  <2> HIDE DEF leg, L, g, gap
  <2> QED
    BY <2>1, <2>2, <2>3, <2>4
<1> HIDE DEF m, L, M, gap, c
<1>11. b[i] = a[i]
  <2> DEFINE C == [k \in 1..i |-> L(k - 1, k)]
  <2>1. \A k \in 1..i : a[k] \in Int /\ b[k] \in Int
    BY <1>0, <1>7, <1>8
  <2>2. ASSUME NEW k \in 1..i, k # 1
        PROVE  C[k] \in Int /\ a[k] = a[k - 1] + C[k] /\ b[k] = b[k - 1] + C[k]
    <3>1. k \in 2..i /\ k \in 2..Length /\ k - 1 \in RouteStop /\ k \in RouteStop
      BY <1>0, <2>2
    <3>2. C[k] = L(k - 1, k) /\ C[k] \in Int
      BY <1>5, <3>1
    <3> HIDE DEF C
    <3> QED
      BY <1>6, <1>7, <1>8, <3>1, <3>2
  <2> HIDE DEF C
  <2>3. Grows(a, C, 1, i) /\ Grows(b, C, 1, i)
    BY <2>2 DEF Grows
  <2>4. \A k \in 1..i : b[k] = a[k] + (b[1] - a[1])
    BY <1>0, <2>1, <2>3, ApartAlways
  <2>5. b[i] = a[i] + (b[1] - a[1]) /\ a[i] \in Int
    BY <1>0, <2>1, <2>4
  <2> QED
    BY <1>7, <1>8, <2>5
<1>12. b[i + 1] = a[i] + L(i, j)
  BY <1>6, <1>8, <1>9, <1>11
<1>13. b[i + 2] = a[i + 1] + c
  <2>1. b[i + 2] = b[i + 1] + L(j, i + 1)
    BY <1>0, <1>6, <1>8, <1>9
  <2>2. a[i + 1] = a[i] + L(i, i + 1)
    BY <1>0, <1>7, <1>9
  <2>3. a[i] \in Int /\ a[i + 1] \in Int /\ L(i, j) \in Int /\ L(j, i + 1) \in Int /\ L(i, i + 1) \in Int
    BY <1>5, <1>7, <1>9
  <2> QED
    BY <1>12, <2>1, <2>2, <2>3 DEF c
<1>14. b[j] = a[j - 1] + c
  <2> DEFINE A == [k \in (i + 1)..j |-> a[k - 1]]
             C == [k \in (i + 2)..j |-> L(k - 2, k - 1)]
  <2>1. \A k \in (i + 2)..j : A[k] = a[k - 1] /\ A[k] \in Int /\ b[k] \in Int
    <3> SUFFICES ASSUME NEW k \in (i + 2)..j
                 PROVE  A[k] = a[k - 1] /\ A[k] \in Int /\ b[k] \in Int
      OBVIOUS
    <3>1. k - 1 \in RouteStop /\ k \in RouteStop /\ k \in (i + 1)..j
      BY <1>0
    <3> QED
      BY <1>7, <1>8, <3>1
  <2>2. ASSUME NEW k \in (i + 2)..j, k # i + 2
        PROVE  C[k] \in Int /\ A[k] = A[k - 1] + C[k] /\ b[k] = b[k - 1] + C[k]
    <3>1. /\ k \in (i + 3)..j /\ k \in 2..Length /\ k - 1 \in 2..Length /\ (k - 1) - 1 = k - 2
          /\ k - 2 \in RouteStop /\ k - 1 \in RouteStop /\ k - 1 \in (i + 2)..j
      BY <1>0, <2>2
    <3>2. C[k] = L(k - 2, k - 1) /\ C[k] \in Int
      BY <1>5, <3>1
    <3>3. A[k] = a[k - 1] /\ A[k - 1] = a[k - 2]
      BY <2>1, <3>1
    <3> HIDE DEF A, C
    <3>4. b[k] = b[k - 1] + L(k - 2, k - 1)
      BY <1>6, <1>8, <3>1
    <3>5. a[k - 1] = a[k - 2] + L(k - 2, k - 1)
      BY <1>7, <3>1
    <3> QED
      BY <3>2, <3>3, <3>4, <3>5
  <2> HIDE DEF A, C
  <2>3. Grows(A, C, i + 2, j) /\ Grows(b, C, i + 2, j)
    BY <2>2 DEF Grows
  <2>4. i + 2 \in Nat /\ \A k \in (i + 2)..j : A[k] \in Int /\ b[k] \in Int
    BY <1>0, <2>1
  <2>5. \A k \in (i + 2)..j : b[k] = A[k] + (b[i + 2] - A[i + 2])
    BY <1>0, <2>3, <2>4, ApartAlways
  <2>6. j \in (i + 2)..j /\ i + 2 \in (i + 2)..j /\ (i + 2) - 1 = i + 1
    BY <1>0
  <2>7. A[i + 2] = a[i + 1] /\ A[j] = a[j - 1] /\ b[j] = A[j] + (b[i + 2] - A[i + 2])
    BY <2>1, <2>5, <2>6
  <2>8. a[i + 1] \in Int /\ a[j - 1] \in Int /\ b[i + 2] \in Int
    BY <1>7, <1>8, <1>9, <2>1, <2>6
  <2> QED
    BY <1>10, <1>13, <2>7, <2>8
<1>15. a[j] = a[j - 1] + L(j - 1, j)
  BY <1>7, <1>9
<1>16. a[j - 1] \in Int /\ a[j] \in Int
  BY <1>7, <1>9
<1>17. CASE j = Length
  <2>1. gap = 0
    BY <1>0, <1>17 DEF gap
  <2>2. b[Length] = a[Length] + (c - L(j - 1, j) + gap)
    BY <1>10, <1>14, <1>15, <1>16, <1>17, <2>1
  <2>3. a[Length] \in Int
    BY <1>16, <1>17
  <2> QED
    BY <1>4, <1>7, <1>8, <1>10, <2>2, <2>3 DEF m
<1>18. CASE j < Length
  <2> DEFINE d == c - L(j - 1, j) + gap
             C == [k \in (j + 1)..Length |-> L(k - 1, k)]
  <2>1. b[j + 1] = a[j + 1] + d
    <3>1. b[j + 1] = b[j] + L(j - 1, j + 1)
      BY <1>0, <1>6, <1>8, <1>9, <1>18
    <3>2. a[j + 1] = a[j] + L(j, j + 1)
      BY <1>0, <1>7, <1>9, <1>18
    <3>3. L(j - 1, j + 1) \in Int /\ L(j, j + 1) \in Int
      BY <1>5, <1>9, <1>18
    <3>4. gap = L(j - 1, j + 1) - L(j, j + 1)
      BY <1>18 DEF gap
    <3> QED
      BY <1>10, <1>14, <1>15, <1>16, <3>1, <3>2, <3>3, <3>4
  <2>2. \A k \in (j + 1)..Length : a[k] \in Int /\ b[k] \in Int
    BY <1>0, <1>7, <1>8
  <2>3. ASSUME NEW k \in (j + 1)..Length, k # j + 1
        PROVE  C[k] \in Int /\ a[k] = a[k - 1] + C[k] /\ b[k] = b[k - 1] + C[k]
    <3>1. k \in (j + 2)..Length /\ k \in 2..Length /\ k - 1 \in RouteStop /\ k \in RouteStop
      BY <1>0, <2>3
    <3>2. C[k] = L(k - 1, k) /\ C[k] \in Int
      BY <1>5, <3>1
    <3> HIDE DEF C
    <3> QED
      BY <1>6, <1>7, <1>8, <3>1, <3>2
  <2>4. d \in Int
    BY <1>10
  <2> HIDE DEF C, d
  <2>5. Grows(a, C, j + 1, Length) /\ Grows(b, C, j + 1, Length)
    BY <2>3 DEF Grows
  <2>6. \A k \in (j + 1)..Length : b[k] = a[k] + d
    <3>1. j + 1 \in Nat /\ j + 1 \in (j + 1)..Length
      BY <1>0, <1>18
    <3>2. \A k \in (j + 1)..Length : b[k] = a[k] + (b[j + 1] - a[j + 1])
      BY <1>0, <2>2, <2>5, <3>1, ApartAlways
    <3>3. b[j + 1] - a[j + 1] = d
      BY <2>1, <2>2, <2>4, <3>1
    <3> QED
      BY <3>2, <3>3
  <2>7. b[Length] = a[Length] + d /\ a[Length] \in Int
    BY <1>0, <1>18, <2>2, <2>6
  <2>8. Delta(i, j) = d
    BY <1>4 DEF d
  <2> QED
    BY <1>7, <1>8, <2>4, <2>7, <2>8 DEF m
<1> QED
  BY <1>0, <1>17, <1>18

(* What PassesImprove says of a step.                                      *)
ImprovesStep ==
    /\ pass = "search" /\ moves' > moves =>
           Duration(order') + MinImprovement < Duration(order)
    /\ pass = "sanity" => order' = order

(* A move is made only if it saves enough, and the last pass finds nothing *)
(* to correct.                                                             *)
LEMMA StepImproves ==
    OrderInv /\ ImproveInv /\ [OrderNext]_orderVars => [ImprovesStep]_orderVars
<1> SUFFICES ASSUME OrderInv, ImproveInv, OrderNext
             PROVE  ImprovesStep
  BY DEF orderVars
<1>1. /\ survey \in Survey /\ order \in Orders /\ order \in [RouteStop -> RouteStop]
      /\ at \in 1..(Length + 1) /\ moves \in Nat /\ Len(order) = Length /\ DOMAIN order = RouteStop
  BY OrderLength, OrderAssumption DEF OrderInv, OrderTypeOK, OrderKeepsStops
<1>2. RouteStop = 1..Length /\ Length \in Nat /\ MinImprovement \in Nat
  BY OrderAssumption DEF RouteStop
<1>3. CASE pass = "sanity"
  <2>1. Sanity \/ Over("sanity")
    BY <1>3 DEF OrderNext, PlanTrip, OsrmFails, Search, Regroup, Refine, SaveRun, Over
  <2>2. order' = order
    BY <2>1, SanityCorrectsNothing DEF Over
  <2> QED
    BY <1>3, <2>2 DEF ImprovesStep
<1>4. CASE pass = "search" /\ moves' > moves
  <2> DEFINE reach == {j \in DOMAIN order : j >= at + 2 /\ j <= at + Lookahead}
             best == CHOOSE j \in reach : \A k \in reach :
                        \/ Delta(at, j) < Delta(at, k)
                        \/ Delta(at, j) = Delta(at, k) /\ j <= k
  <2>1. Search
    BY <1>1, <1>4 DEF OrderNext, PlanTrip, OsrmFails, Regroup, Refine, Sanity, SaveRun, Over
  <2>2. /\ at < Len(order) /\ reach # {} /\ Delta(at, best) < -MinImprovement
        /\ order' = MoveBehind(order, best, at)
    <3>1. moves' # moves
      BY <1>1, <1>4
    <3> QED
      BY <2>1, <3>1, Zenon DEF Search
  <2>3. at \in RouteStop
    BY <1>1, <1>2, <2>2
  <2>4. best \in reach
    <3>1. \E j \in reach : \A k \in reach :
         Delta(at, j) < Delta(at, k) \/ (Delta(at, j) = Delta(at, k) /\ j <= k)
      BY <1>1, <2>2, <2>3, MoveInReach
    <3> HIDE DEF reach
    <3> QED
      BY <3>1
  <2>5. best \in RouteStop /\ best >= at + 2
    BY <1>1, <2>4
  <2> HIDE DEF best, reach
  <2>6. /\ Delta(at, best) \in Int /\ Duration(order) \in Int
        /\ Duration(MoveBehind(order, best, at)) = Duration(order) + Delta(at, best)
    BY <1>1, <2>3, <2>5, MoveChanges
  <2>7. Duration(order') = Duration(order) + Delta(at, best)
    BY <2>2, <2>6
  <2>8. Duration(order') + MinImprovement < Duration(order)
    BY <1>2, <2>2, <2>6, <2>7
  <2> QED
    BY <1>4, <2>8 DEF ImprovesStep
<1> QED
  BY <1>3, <1>4 DEF ImprovesStep

(* Every move of the local search shortens the route by more than the      *)
(* least saving asked for (postOptimizeCurbsideOrder), and                 *)
(* enforceCorridorSanity changes no order refineCorridorRuns has left, for *)
(* any number of stops, legs, streets, bearings and coordinates.           *)
THEOREM PassesCorrect == OrderSpec => PassesImprove
<1>1. OrderInit => ImproveInv
  BY DEF OrderInit, ImproveInv
<1> QED
  BY <1>1, OrderInitInv, OrderStepInv, ImproveStepInv, StepImproves, PTL
  DEF OrderSpec, PassesImprove, ImprovesStep
=============================================================================
