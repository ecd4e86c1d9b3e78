----------------------------- MODULE RouteOrder -----------------------------
(***************************************************************************)
(* The order in which a run visits its stops, as createRouteRun computes   *)
(* it (routing/*.ts, osrmRouteStop.ts): OSRM's trip from the base, a greedy   *)
(* local search, and three passes over the corridors, the maximal          *)
(* stretches of stops on one street in one bearing.  One action is one     *)
(* round of a loop.                                                        *)
(***************************************************************************)
EXTENDS Integers, Sequences, FiniteSets

CONSTANTS Length,          \* stops of the route
          Survey,          \* what can be known of them
          Lookahead, MaxMoves, MinImprovement, MaxOptimised,
          Window           \* of regroupCorridorWithinWindow

RouteStop == 1..Length
Places == 0..Length    \* 0 is the base

ASSUME OrderAssumption ==
    /\ {Length, Lookahead, MaxMoves, MinImprovement, MaxOptimised, Window} \subseteq Nat
    /\ Survey \subseteq [lon : [Places -> Int], lat : [Places -> Int],
                         street : [RouteStop -> STRING], bearing : [RouteStop -> STRING],
                         leg : [Places \X Places -> Nat]]

VARIABLES survey,    \* coordinates, street, bearing, duration of each leg
          order,     \* the stops as they stand
          pass,      \* the pass being made
          at,        \* its position
          moves      \* of the local search

orderVars == <<survey, order, pass, at, moves>>

Orders == {o \in [RouteStop -> RouteStop] : \A s \in RouteStop : \E i \in RouteStop : o[i] = s}

Pass == {"trip", "search", "regroup", "refine", "sanity", "write", "saved", "failed"}

OrderTypeOK == /\ survey \in Survey
               /\ order \in [RouteStop -> RouteStop]
               /\ pass \in Pass
               /\ at \in 1..(Length + 1)
               /\ moves \in 0..MaxMoves

OrderInit == /\ survey \in Survey
             /\ order = [i \in RouteStop |-> i]
             /\ pass = "trip"
             /\ at = 1
             /\ moves = 0

-----------------------------------------------------------------------------
Duration(o) == LET to[i \in 1..Len(o)] ==
                     IF i = 1 THEN 0 ELSE to[i - 1] + survey.leg[o[i - 1], o[i]]
               IN  to[Len(o)]

(* planRouteWithOsrm from the base: OSRM's order, whatever it is (the      *)
(* waypoints sorted by waypoint_index), without the base.                  *)
PlanTrip == /\ pass = "trip"
            /\ order' \in Orders
            /\ pass' = IF Length > MaxOptimised THEN "regroup" ELSE "search"
            /\ UNCHANGED <<survey, at, moves>>

(* OSRM does not answer, or knows no way; the route is not made.           *)
OsrmFails == /\ pass \in {"trip", "search", "write"}
             /\ pass' = "failed"
             /\ UNCHANGED <<survey, order, at, moves>>

-----------------------------------------------------------------------------
(* What moving the stop at j to just behind i changes.                     *)
DeltaForgetsGap(i, j) ==
    survey.leg[order[i], order[j]] + survey.leg[order[j], order[i + 1]]
        - survey.leg[order[i], order[i + 1]] - survey.leg[order[j - 1], order[j]]

Delta(i, j) ==
    LET leg(x, y) == survey.leg[order[x], order[y]]
        gap == IF j < Len(order) THEN leg(j - 1, j + 1) - leg(j, j + 1) ELSE 0
    IN  leg(i, j) + leg(j, i + 1) - leg(i, i + 1) - leg(j - 1, j) + gap

MoveBehind(o, j, i) == [k \in DOMAIN o |-> IF k = i + 1 THEN o[j]
                                           ELSE IF k \in (i + 2)..j THEN o[k - 1]
                                           ELSE o[k]]

(* postOptimizeCurbsideOrder, one position: the best of the stops within   *)
(* reach, the nearest of equals, if it saves enough.                       *)
Search ==
    LET reach == {j \in DOMAIN order : j >= at + 2 /\ j <= at + Lookahead}
        best == CHOOSE j \in reach : \A k \in reach :
                    \/ Delta(at, j) < Delta(at, k)
                    \/ Delta(at, j) = Delta(at, k) /\ j <= k
    IN  /\ pass = "search"
        /\ IF at < Len(order) /\ moves < MaxMoves
           THEN /\ at' = at + 1
                /\ UNCHANGED pass
                /\ IF reach # {} /\ Delta(at, best) < -MinImprovement
                   THEN order' = MoveBehind(order, best, at) /\ moves' = moves + 1
                   ELSE UNCHANGED <<order, moves>>
           ELSE /\ pass' = "regroup"
                /\ at' = 1
                /\ UNCHANGED <<order, moves>>
        /\ UNCHANGED survey

-----------------------------------------------------------------------------
OnCorridor(s) == survey.street[s] # "" /\ survey.bearing[s] # ""
SameCorridor(s, t) == /\ survey.street[s] = survey.street[t]
                      /\ survey.bearing[s] = survey.bearing[t]

Over(p) == /\ pass = p
           /\ at > Len(order)
           /\ pass' = CASE p = "regroup" -> "refine" [] p = "refine" -> "sanity"
                        [] OTHER -> "write"
           /\ at' = 1
           /\ UNCHANGED <<survey, order, moves>>

(* The legs, the first of them from the base, are asked for once more,     *)
(* inside the transaction, and saved with the stops.                       *)
SaveRun == /\ pass = "write"
           /\ pass' = "saved"
           /\ UNCHANGED <<survey, order, at, moves>>

RegroupShiftsIndices ==
    LET near == {j \in (at + 1)..(at + Window - 1) \intersect DOMAIN order :
                    SameCorridor(order[at], order[j])}
    IN  /\ pass = "regroup"
        /\ at <= Len(order)
        /\ order' = [k \in DOMAIN order |->
                        IF OnCorridor(order[at]) /\ near # {} /\ k = at + 1
                        THEN order[CHOOSE j \in near : TRUE] ELSE order[k]]
        /\ at' = at + 1
        /\ UNCHANGED <<survey, pass, moves>>

(* Those near are pulled up to just behind i, in their order, and the      *)
(* others behind it move down.                                             *)
PulledUp(o, i, near) ==
    LET Place(j) == IF j \in near THEN i + Cardinality({k \in near : k <= j})
                    ELSE IF j <= i THEN j
                    ELSE j + Cardinality({k \in near : k > j})
    IN  [k \in DOMAIN o |-> o[CHOOSE j \in DOMAIN o : Place(j) = k]]

(* regroupCorridorWithinWindow, one position: stops of the same corridor   *)
(* within the window are pulled up.                                        *)
Regroup ==
    LET near == {j \in (at + 1)..(at + Window - 1) \intersect DOMAIN order :
                    SameCorridor(order[at], order[j])}
    IN  /\ pass = "regroup"
        /\ at <= Len(order)
        /\ order' = IF OnCorridor(order[at]) THEN PulledUp(order, at, near) ELSE order
        /\ at' = at + 1
        /\ UNCHANGED <<survey, pass, moves>>

-----------------------------------------------------------------------------
(* getBearingComponents looks for the letters anywhere in the word, so     *)
(* "WEST" has an E and an S as well.                                       *)
Components(bearing) == CASE bearing = "EB" -> {"E"}
                         [] bearing = "SW" -> {"S", "W"}
                         [] bearing = "WEST" -> {"W", "E", "S"}
                         [] OTHER -> {bearing}

SpreadOf(S, coordinate) == LET v == {coordinate[s] : s \in S}
                           IN  CHOOSE d \in {a - b : a \in v, b \in v} :
                                  \A e \in {a - b : a \in v, b \in v} : e <= d

(* resolveRunMeta: along which axis, and which way, a corridor runs.       *)
Along(S, bearing) ==
    LET flat == SpreadOf(S, survey.lon) >= SpreadOf(S, survey.lat)
        letters == Components(bearing)
        up == IF flat THEN "E" ELSE "N"
        down == IF flat THEN "W" ELSE "S"
        axis == IF flat THEN survey.lon ELSE survey.lat
    IN  [known |-> {up, down} \intersect letters # {},
         key |-> IF up \in letters THEN axis ELSE [s \in DOMAIN axis |-> -axis[s]]]

(* The last position of the corridor that starts at i.                     *)
CorridorEnd(i) ==
    CHOOSE j \in i..Len(order) :
        /\ \A k \in i..j : SameCorridor(order[i], order[k])
        /\ j < Len(order) => ~SameCorridor(order[i], order[j + 1])

(* Sorting is stable.                                                      *)
Sorted(o, i, j, key) ==
    LET before(k) == {m \in i..j : \/ key[o[m]] < key[o[k]]
                                   \/ key[o[m]] = key[o[k]] /\ m < k}
    IN  [p \in DOMAIN o |-> IF p \in i..j
                            THEN o[CHOOSE k \in i..j : i + Cardinality(before(k)) = p]
                            ELSE o[p]]

(* refineCorridorRuns, one corridor.                                       *)
Refine ==
    LET j == CorridorEnd(at)
        along == Along({order[k] : k \in at..j}, survey.bearing[order[at]])
    IN  /\ pass = "refine"
        /\ at <= Len(order)
        /\ IF OnCorridor(order[at])
           THEN /\ order' = IF j > at /\ along.known
                            THEN Sorted(order, at, j, along.key) ELSE order
                /\ at' = j + 1
           ELSE at' = at + 1 /\ UNCHANGED order
        /\ UNCHANGED <<survey, pass, moves>>

(* enforceCorridorSanity, one corridor: sorted again if less than four     *)
(* fifths of its steps go the right way (scoreMonotonicRun).               *)
Sanity ==
    LET j == CorridorEnd(at)
        along == Along({order[k] : k \in at..j}, survey.bearing[order[at]])
        good == {k \in at..(j - 1) : along.key[order[k]] <= along.key[order[k + 1]]}
    IN  /\ pass = "sanity"
        /\ at <= Len(order)
        /\ IF OnCorridor(order[at])
           THEN /\ order' = IF /\ j > at
                               /\ along.known
                               /\ 5 * Cardinality(good) < 4 * (j - at)
                            THEN Sorted(order, at, j, along.key) ELSE order
                /\ at' = j + 1
           ELSE at' = at + 1 /\ UNCHANGED order
        /\ UNCHANGED <<survey, pass, moves>>

OrderNext == \/ PlanTrip \/ OsrmFails \/ Search \/ Regroup \/ Refine \/ Sanity
             \/ SaveRun
             \/ Over("regroup") \/ Over("refine") \/ Over("sanity")

OrderSpec == OrderInit /\ [][OrderNext]_orderVars

-----------------------------------------------------------------------------
(* However stops are spliced out, pulled up and sorted, none is lost or    *)
(* doubled: createRouteRun inserts a row per entry and requires as many    *)
(* assignments as stops.                                                   *)
OrderKeepsStops == order \in Orders

(* Every move of the local search saves at least minImprovementSeconds on  *)
(* the whole route, with legs whose way back takes another time; and the   *)
(* last pass finds nothing to correct: after refining, every corridor runs *)
(* one way already, although regrouping has joined what was apart and the  *)
(* axis of a corridor depends on all of its stops.                         *)
PassesImprove ==
    [][/\ pass = "search" /\ moves' > moves =>
             Duration(order') + MinImprovement < Duration(order)
       /\ pass = "sanity" => order' = order]_orderVars
=============================================================================
