------------------------------- MODULE RiskMap -------------------------------
(***************************************************************************)
(* The risk map: stop_risk_snapshot, rebuilt for one organisation at a     *)
(* time by an administrator's request or by the job, in one READ COMMITTED *)
(* transaction (riskMapService.ts).  Rebuilds may overlap.  The scores are *)
(* numeric(4,2): one that does not fit fails the rebuild.                  *)
(***************************************************************************)
EXTENDS Integers

CONSTANTS RiskOrg, RiskStop,
          OrgOfStop,     \* OrgOfStop[s]: transit_stops.org_id
          InBase,        \* stops with a pool and a bin or a compactor
          Hotspot,       \* stops with is_hotspot
          Signs,         \* what visits and observations can say of a stop
          FirstSigns,
          Rebuild,       \* rebuilds running at one time
          LastRebuild    \* bound on the rebuilds that begin

(* A sign that is missing is -1: no completed visit, no trash reported in  *)
(* 7 days, no hazard in 7 days, a hazard without a severity.               *)
Missing == -1
Reading == Nat \union {Missing}

ASSUME RiskAssumption == /\ OrgOfStop \in [RiskStop -> RiskOrg]
                         /\ InBase \subseteq RiskStop
                         /\ Signs \subseteq [l3 : Reading, trash : Reading,
                                            hazardDays : Reading, severity : Reading,
                                            issues : Nat]
                         /\ FirstSigns \in Signs
                         /\ LastRebuild \in Nat

VARIABLES signs,         \* signs[s]: what the canonical tables say of a stop now
          snapshot,      \* committed rows of stop_risk_snapshot
          scored,        \* stops whose last visit is in stop_condition_history
          rebuild,       \* the transactions
          built,         \* history: organisations with a committed rebuild
          count          \* rebuilds begun, the number that stamps their rows

riskVars == <<signs, snapshot, scored, rebuild, built, count>>

Base(o) == {s \in InBase : OrgOfStop[s] = o}
Asleep == [at |-> "asleep", org |-> "none", stamp |-> 0, gone |-> {}, rows |-> {},
           marks |-> {}]
StopsIn(rows) == {row.stop : row \in rows}

RiskRow == [stop : RiskStop, org : RiskOrg, stamp : 1..LastRebuild, risk : Int]
Rebuilding == [at : {"asleep", "begun", "deleting", "deleted", "inserted", "ready"},
               org : RiskOrg \union {"none"}, stamp : 0..LastRebuild,
               gone : SUBSET RiskRow, rows : SUBSET RiskRow, marks : SUBSET RiskStop]

RiskTypeOK ==
    /\ signs \in [RiskStop -> Signs]
    /\ snapshot \subseteq RiskRow
    /\ rebuild \in [Rebuild -> Rebuilding]
    /\ scored \subseteq RiskStop
    /\ built \subseteq RiskOrg
    /\ count \in 0..LastRebuild

RiskInit == /\ signs = [s \in RiskStop |-> FirstSigns]
            /\ snapshot = {}
            /\ scored = {}
            /\ rebuild = [r \in Rebuild |-> Asleep]
            /\ built = {}
            /\ count = 0

-----------------------------------------------------------------------------
(* The scores, in hundredths.                                              *)
HOTSPOT_BASE_WEIGHT == 1000
L3_DAYS_CAP == 365
HAZARD_MAX_DAYS_FOR_EFFECT == 7
Largest == 9999

AtMost(x, y) == IF x < y THEN x ELSE y
AtLeast(x, y) == IF x > y THEN x ELSE y
Coalesce(x, y) == IF x = Missing THEN y ELSE x

HotspotWeight(s) == IF s \in Hotspot THEN HOTSPOT_BASE_WEIGHT ELSE 0

(* Only days over the target window count.                                 *)
Urgency(s, e) == LET days == AtMost(Coalesce(e.l3, L3_DAYS_CAP), L3_DAYS_CAP)
                 IN  20 * AtLeast(days - (IF s \in Hotspot THEN 21 ELSE 30), 0)

Cleanliness(s, e) == HotspotWeight(s) + 150 * Coalesce(e.trash, 0) + Urgency(s, e)

(* A hazard without a severity counts with 1, no hazard with 0; the effect *)
(* is gone after seven days.                                               *)
Safety(e) ==
    IF e.hazardDays = Missing THEN 0
    ELSE (300 * Coalesce(e.severity, 1) * AtLeast(0, HAZARD_MAX_DAYS_FOR_EFFECT - e.hazardDays))
            \div HAZARD_MAX_DAYS_FOR_EFFECT

Infrastructure(e) == 200 * AtMost(e.issues, 5)

Fits(s, e) == /\ Cleanliness(s, e) <= Largest
              /\ Safety(e) <= Largest
              /\ Infrastructure(e) <= Largest

Scored(s, stamp) ==
    LET e == signs[s]
    IN  [stop |-> s, org |-> OrgOfStop[s], stamp |-> stamp,
         risk |-> Cleanliness(s, e) + Safety(e) + Infrastructure(e)]

-----------------------------------------------------------------------------
(* Work goes on while the map is built; a visit that ended is a new one.   *)
SignsChange(s) ==
    \E e \in Signs \ {signs[s]} :
        LET seen == IF e.l3 = 0 THEN {s} ELSE {}
        IN  /\ signs' = [signs EXCEPT ![s] = e]
            /\ scored' = scored \ seen
            /\ rebuild' = [r \in Rebuild |-> [rebuild[r] EXCEPT !.marks = @ \ seen]]
            /\ UNCHANGED <<snapshot, built, count>>

AtStep(r, step) == rebuild[r].at = step
Rest(r) == {rebuild[q] : q \in Rebuild \ {r}}

Begin(r, o) ==
    /\ AtStep(r, "asleep")
    /\ count < LastRebuild
    /\ count' = count + 1
    /\ rebuild' = [rebuild EXCEPT ![r].at = "begun", ![r].org = o, ![r].stamp = count + 1]
    /\ UNCHANGED <<signs, snapshot, scored, built>>

VisibleToAll(r) == snapshot
Visible(r) == {row \in snapshot : row.org = rebuild[r].org}

(* DELETE without a WHERE: row security leaves it the organisation's rows. *)
(* It fixes what it sees, then waits for rows another rebuild has deleted; *)
(* when that one has committed they are gone, and the rows it inserted are *)
(* too new to be seen.                                                     *)
StartDelete(r) ==
    /\ AtStep(r, "begun")
    /\ rebuild' = [rebuild EXCEPT ![r].at = "deleting", ![r].gone = Visible(r)]
    /\ UNCHANGED <<signs, snapshot, scored, built, count>>

Delete(r) ==
    /\ AtStep(r, "deleting")
    /\ \A d \in Rest(r) : d.at \in {"deleted", "inserted", "ready"} =>
                             d.gone \intersect rebuild[r].gone = {}
    /\ rebuild' = [rebuild EXCEPT ![r].at = "deleted",
                                   ![r].gone = @ \intersect snapshot]
    /\ UNCHANGED <<signs, snapshot, scored, built, count>>

(* The primary key is the stop: a row another rebuild has inserted, or     *)
(* deleted, is waited for; one that is there fails the statement.          *)
Taken(r) == snapshot \ rebuild[r].gone
Clashes(r, rows) == StopsIn(rows) \intersect Base(rebuild[r].org) # {}

Insert(r) ==
    LET o == rebuild[r].org
    IN  /\ AtStep(r, "deleted")
        /\ \A d \in Rest(r) : ~Clashes(r, d.rows)
        /\ ~Clashes(r, Taken(r))
        /\ \A s \in Base(o) : Fits(s, signs[s])
        /\ rebuild' = [rebuild EXCEPT ![r].at = "inserted",
                          ![r].rows = {Scored(s, rebuild[r].stamp) : s \in Base(o)}]
        /\ UNCHANGED <<signs, snapshot, scored, built, count>>

(* The score of every visit of the last day, unless it has one.            *)
WriteHistory(r) ==
    /\ AtStep(r, "inserted")
    /\ rebuild' = [rebuild EXCEPT ![r].at = "ready",
                      ![r].marks = {s \in StopsIn(rebuild[r].rows) : signs[s].l3 = 0}]
    /\ UNCHANGED <<signs, snapshot, scored, built, count>>

Commit(r) ==
    /\ AtStep(r, "ready")
    /\ snapshot' = (snapshot \ rebuild[r].gone) \union rebuild[r].rows
    /\ scored' = scored \union rebuild[r].marks
    /\ built' = built \union {rebuild[r].org}
    /\ rebuild' = [rebuild EXCEPT ![r] = Asleep]
    /\ UNCHANGED <<signs, count>>

(* A key that is taken, a score that does not fit, a connection that is    *)
(* lost: ROLLBACK.                                                         *)
RebuildFails(r) ==
    /\ ~AtStep(r, "asleep")
    /\ rebuild' = [rebuild EXCEPT ![r] = Asleep]
    /\ UNCHANGED <<signs, snapshot, scored, built, count>>

RiskNext == \/ \E s \in RiskStop : SignsChange(s)
            \/ \E r \in Rebuild :
                 \/ \E o \in RiskOrg : Begin(r, o)
                 \/ StartDelete(r) \/ Delete(r) \/ Insert(r)
                 \/ WriteHistory(r) \/ Commit(r) \/ RebuildFails(r)

RiskSpec == RiskInit /\ [][RiskNext]_riskVars

-----------------------------------------------------------------------------
(* Whoever rebuilds what at the same time, and however a rebuild fails, an *)
(* organisation that has a risk map keeps a whole one: one row for each    *)
(* stop of its base, all scored by the same rebuild, and the rebuild of    *)
(* another organisation changes none of them (riskMapService.ts:59-68).    *)
SnapshotIsWhole ==
    \A o \in built :
        LET rows == {row \in snapshot : row.org = o}
        IN  /\ StopsIn(rows) = Base(o)
            /\ \A x, y \in rows : /\ x.stop = y.stop => x = y
                                 /\ x.stamp = y.stamp
=============================================================================
