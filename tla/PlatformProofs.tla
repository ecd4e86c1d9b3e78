--------------------------- MODULE PlatformProofs ---------------------------
(***************************************************************************)
(* Theorems about the reports, and about Platform: the screens of the      *)
(* control centre, the dispatcher and the administrator agree with each    *)
(* other and with the clean log, whatever was recorded of any stops on any *)
(* number of days; and Platform is each of its parts, so that what holds   *)
(* of a part holds of the whole.                                           *)
(***************************************************************************)
EXTENDS Platform, JobProofs, DispatchProofs, OfficeProofs, OrgDeletionProofs

-----------------------------------------------------------------------------
(* Finite sums.                                                            *)

(* A sum over a function, one element at a time.                           *)
Added(h, f, s) == IF s = {} THEN 0 ELSE LET x == CHOOSE x \in s : TRUE
                                        IN  h[x] + f[s \ {x}]

(* The sum of the community modules is such a function, over the subsets   *)
(* of the domain.                                                          *)
LEMMA SumUnfolds ==
    ASSUME NEW h, IsFiniteSet(DOMAIN h)
    PROVE  \E f : /\ f = [s \in SUBSET DOMAIN h |-> Added(h, f, s)]
                  /\ SumFunction(h) = f[DOMAIN h]
<1> DEFINE D == DOMAIN h
           Small(n) == {s \in SUBSET D : Cardinality(s) <= n}
           P == {n \in Nat : \E f : f = [s \in Small(n) |-> Added(h, f, s)]}
<1>1. \A s \in SUBSET D : IsFiniteSet(s) /\ Cardinality(s) \in Nat
  BY FS_Subset, FS_CardinalityType
<1>2. 0 \in P
  <2> DEFINE f == [s \in Small(0) |-> 0]
  <2>1. \A s \in Small(0) : s = {}
    BY <1>1, FS_EmptySet
  <2>2. \A s \in Small(0) : Added(h, f, s) = 0
    BY <2>1 DEF Added
  <2>3. f = [s \in Small(0) |-> Added(h, f, s)]
    BY <2>2
  <2> QED
    BY <2>3
<1>3. ASSUME NEW n \in Nat, n \in P
      PROVE  n + 1 \in P
  <2>1. PICK g : g = [s \in Small(n) |-> Added(h, g, s)]
    BY <1>3
  <2> DEFINE f == [s \in Small(n + 1) |-> Added(h, g, s)]
  <2>2. \A s \in Small(n) : f[s] = g[s]
    <3> TAKE s \in Small(n)
    <3>1. s \in Small(n + 1)
      BY <1>1
    <3> QED
      BY <2>1, <3>1
  <2>3. ASSUME NEW s \in Small(n + 1)
        PROVE  Added(h, f, s) = Added(h, g, s)
    <3>1. CASE s = {}
      BY <3>1 DEF Added
    <3>2. CASE s # {}
      <4> DEFINE x == CHOOSE x \in s : TRUE
      <4>1. x \in s
        BY <3>2
      <4> HIDE DEF x
      <4>2. s \ {x} \in SUBSET D /\ Cardinality(s \ {x}) = Cardinality(s) - 1
        BY <1>1, <4>1, FS_RemoveElement
      <4>3. s \ {x} \in Small(n)
        BY <1>1, <4>2
      <4>4. f[s \ {x}] = g[s \ {x}]
        BY <2>2, <4>3
      <4> QED
        BY <4>4 DEF Added, x
    <3> QED
      BY <3>1, <3>2
  <2>4. f = [s \in Small(n + 1) |-> Added(h, f, s)]
    BY <2>3
  <2>5. \E e : e = [s \in Small(n + 1) |-> Added(h, e, s)]
    <3> HIDE DEF f
    <3> QED
      BY <2>4
  <2> HIDE DEF Small
  <2> QED
    BY <2>5
<1>4. Cardinality(D) \in P
  <2> HIDE DEF P
  <2> QED
    BY <1>2, <1>3, EveryNumber, FS_CardinalityType
<1>5. Small(Cardinality(D)) = SUBSET D
  BY FS_Subset
<1>6. \E f : f = [s \in SUBSET D |-> Added(h, f, s)]
  BY <1>4, <1>5
<1> DEFINE F == CHOOSE f : f = [s \in SUBSET D |-> Added(h, f, s)]
<1>7. F = [s \in SUBSET D |-> Added(h, F, s)]
  BY <1>6
<1>8. SumFunction(h) = F[D]
  BY DEF SumFunction, SumFunctionOnSet, FoldFunctionOnSet, MapThenFoldSet, Added
<1> HIDE DEF F
<1> QED
  BY <1>7, <1>8

(* The counts of the parts of a finite set add up to the count of it.      *)
LEMMA PartsAddUp ==
    ASSUME NEW h, IsFiniteSet(DOMAIN h), NEW H, IsFiniteSet(H), NEW g \in [H -> DOMAIN h],
           \A r \in DOMAIN h : h[r] = Cardinality({x \in H : g[x] = r})
    PROVE  SumFunction(h) = Cardinality(H)
<1> DEFINE D == DOMAIN h
           Within(s) == {x \in H : g[x] \in s}
<1>1. PICK f : f = [s \in SUBSET D |-> Added(h, f, s)] /\ SumFunction(h) = f[D]
  BY SumUnfolds
<1> DEFINE P == {n \in Nat : \A s \in SUBSET D : Cardinality(s) = n => f[s] = Cardinality(Within(s))}
<1>2. \A s \in SUBSET D : IsFiniteSet(s) /\ Cardinality(s) \in Nat
  BY FS_Subset, FS_CardinalityType
<1>3. 0 \in P
  <2>1. Within({}) = {}
    OBVIOUS
  <2>2. f[{}] = 0
    BY <1>1 DEF Added
  <2>3. \A s \in SUBSET D : Cardinality(s) = 0 => s = {}
    BY <1>2, FS_EmptySet
  <2>4. Cardinality(Within({})) = 0
    BY <2>1, FS_EmptySet
  <2> HIDE DEF Within
  <2> QED
    BY <2>2, <2>3, <2>4
<1>4. ASSUME NEW n \in Nat, n \in P
      PROVE  n + 1 \in P
  <2> HIDE DEF Within
  <2> SUFFICES ASSUME NEW s \in SUBSET D, Cardinality(s) = n + 1
               PROVE  f[s] = Cardinality(Within(s))
    OBVIOUS
  <2> USE DEF Within
  <2>1. s # {}
    BY FS_EmptySet
  <2> DEFINE x == CHOOSE x \in s : TRUE
             rest == s \ {x}
             ofx == {y \in H : g[y] = x}
  <2>2. x \in s
    BY <2>1
  <2>3. f[s] = h[x] + f[rest]
    BY <1>1, <2>1 DEF Added
  <2> HIDE DEF x
  <2>4. rest \in SUBSET D /\ Cardinality(rest) = n
    <3>1. Cardinality(rest) = Cardinality(s) - 1
      BY <1>2, <2>2, FS_RemoveElement
    <3>2. rest \in SUBSET D
      OBVIOUS
    <3> HIDE DEF rest
    <3> QED
      BY <3>1, <3>2
  <2>5. f[rest] = Cardinality(Within(rest))
    BY <1>4, <2>4
  <2>6. h[x] = Cardinality(ofx)
    BY <2>2
  <2>7. Within(s) = ofx \union Within(rest) /\ ofx \intersect Within(rest) = {}
    BY <2>2
  <2>8. ofx \in SUBSET H /\ Within(rest) \in SUBSET H
    OBVIOUS
  <2> HIDE DEF ofx, rest, Within
  <2>9. /\ IsFiniteSet(ofx) /\ IsFiniteSet(Within(rest))
        /\ Cardinality(ofx) \in Nat /\ Cardinality(Within(rest)) \in Nat
    BY <2>8, FS_Subset, FS_CardinalityType
  <2>10. Cardinality(Within(s)) = Cardinality(ofx) + Cardinality(Within(rest)) - Cardinality({})
    BY <2>7, <2>9, FS_Union
  <2> QED
    BY <2>3, <2>5, <2>6, <2>9, <2>10, FS_EmptySet
<1>5. Cardinality(D) \in P
  <2> HIDE DEF P
  <2> QED
    BY <1>3, <1>4, EveryNumber, FS_CardinalityType
<1>6. Within(D) = H
  OBVIOUS
<1>7. f[D] = Cardinality(Within(D))
  BY <1>5
<1> QED
  BY <1>1, <1>6, <1>7

-----------------------------------------------------------------------------
(* Reports.                                                                *)

(* The types a form's entries are written under.                           *)
WrittenTypes == SafetyPresenceTypes \union InfraPresenceTypes \union CleanActionKeys
                  \union {"trash_volume", "spot_check"}

(* What a form's entries carry.                                            *)
Payloads == {<<>>} \union [{"severity"} -> Int] \union [{"level"} -> Int]

(* The rows that may be in core.observations on a day.                     *)
WrittenBy(d) == {AsWritten(t, p, e) : t \in WrittenTypes, p \in Payloads, e \in 1..d}

(* Their types.                                                            *)
TypesIn(obs) == {obs[k].type : k \in DOMAIN obs}

(* A visit once it is there: attached to an assignment of its own run.     *)
VisitsOf(i, d) == [outcome : {"open", "completed", "skipped"}, day : 0..d,
                   assignment : StopsOf(ItemRun[i])]

(* What has become of the visit of a stop in each state; a stop may be     *)
(* done after its visit was skipped.                                       *)
OutcomeOK(st, v) == CASE st = "pending"     -> v = NoVisit
                      [] st = "in_progress" -> v.outcome = "open"
                      [] st = "skipped"     -> v.outcome = "skipped"
                      [] st = "done"        -> v.outcome \in {"completed", "skipped"}

(* What is recorded of a stop is what was done there: the actions and the  *)
(* spot check among its rows are those of the form it was completed with,  *)
(* and before that there are none.                                         *)
RecordOK(st, obs, said, eff) ==
    /\ TypesIn(obs) \intersect CleanActionKeys = IF st = "done" THEN said.acts ELSE {}
    /\ "spot_check" \in TypesIn(obs) <=> st = "done" /\ said.spot
    /\ st = "done" => /\ said \in CompleteForm
                      /\ said.hazards # <<>> => eff.hazard
                      /\ eff.volume = said.volume

(* What holds of each stop and its visit.                                  *)
StopOK(i, d, st, v, obs, left, said, eff) ==
    /\ st \in {"pending", "in_progress", "skipped", "done"}
    /\ st # "pending" => v \in VisitsOf(i, d)
    /\ OutcomeOK(st, v)
    /\ obs \in Seq(WrittenBy(d))
    /\ left \in SkipForm \union {NoForm}
    /\ said \in CompleteForm \union {NoForm}
    /\ st \in {"pending", "in_progress"} => obs = <<>> /\ left = NoForm
    /\ RecordOK(st, obs, said, eff)

(* The invariant of the reports: what holds of each stop.                  *)
ReportInv ==
    /\ today \in 1..LastDay
    /\ closed \subseteq ReportRun
    /\ item \in [Item -> {"pending", "in_progress"} \union Resolved]
    /\ owedSkip \in [Item -> SkipForm \union {NoForm}]
    /\ sent \in [Item -> CompleteForm \union {NoForm}]
    /\ DOMAIN visitOf = Item /\ DOMAIN observed = Item /\ DOMAIN effort = Item
    /\ \A i \in Item : StopOK(i, today, item[i], visitOf[i], observed[i], owedSkip[i], sent[i], effort[i])

(* No type is registered as two of action, presence, volume and spot       *)
(* check.                                                                  *)
LEMMA TypesApart ==
    /\ CleanActionKeys \intersect (SafetyPresenceTypes \union InfraPresenceTypes) = {}
    /\ SafetyPresenceTypes \intersect InfraPresenceTypes = {}
    /\ "spot_check" \notin SafetyPresenceTypes \union InfraPresenceTypes \union CleanActionKeys
    /\ "trash_volume" \notin SafetyPresenceTypes \union InfraPresenceTypes \union CleanActionKeys
<1>1. \A t \in CleanActionKeys : t \in DOMAIN Rule /\ Rule[t].kind = "action"
  BY ReportsAssumption
<1>2. \A t \in SafetyPresenceTypes \union InfraPresenceTypes :
         t \in DOMAIN Rule /\ Rule[t].kind = "presence"
  BY ReportsAssumption
<1>3. \A t \in {"trash_volume", "spot_check"} \intersect DOMAIN Rule :
         Rule[t].kind \in {"measurement", "condition"}
  BY ReportsAssumption
<1>4. SafetyPresenceTypes \intersect InfraPresenceTypes = {}
  BY DEF InfraPresenceTypes
<1> QED
  BY <1>1, <1>2, <1>3, <1>4

(* Whatever key a screen sends, a hazard or an issue is mapped to a        *)
(* presence.                                                               *)
LEMMA MapsToPresence ==
    \A key : /\ MapSafetyHazard(key) \in SafetyPresenceTypes
             /\ MapInfraIssue(key) \in SafetyPresenceTypes \union InfraPresenceTypes
<1> TAKE key
<1>1. \A m, x : x \in DOMAIN m => m[x] \in ValuesOf(m)
  BY DEF ValuesOf
<1>2. "other" \in DOMAIN SafetyHazardTypeMap
      /\ SafetyHazardTypeMap["other"] = "other_safety_concern_present"
  BY DEF SafetyHazardTypeMap
<1>3. "other" \in DOMAIN InfraIssueTypeMap
      /\ InfraIssueTypeMap["other"] = "other_infrastructure_issue_present"
  BY DEF InfraIssueTypeMap
<1>4. MapSafetyHazard(key) \in ValuesOf(SafetyHazardTypeMap)
  BY <1>1, <1>2 DEF MapSafetyHazard, TypeOf
<1>5. MapInfraIssue(key) \in ValuesOf(InfraIssueTypeMap)
  BY <1>1, <1>3 DEF MapInfraIssue, TypeOf
<1> QED
  BY <1>4, <1>5 DEF SafetyPresenceTypes, InfraPresenceTypes

(* How a row of each type is written.                                      *)
LEMMA RowsWritten ==
    ASSUME NEW d \in Nat, NEW r \in WrittenBy(d)
    PROVE  /\ r.type \in WrittenTypes /\ r.day \in 1..d
           /\ r.kind = "presence" <=> r.type \in SafetyPresenceTypes \union InfraPresenceTypes
           /\ r.kind = "action" <=> r.type \in CleanActionKeys
           /\ r.kind = "action" => r.intervention = r.type
<1>1. PICK t \in WrittenTypes, p \in Payloads, e \in 1..d : r = AsWritten(t, p, e)
  BY DEF WrittenBy
<1> DEFINE n == NormalizeObservation(t, p)
<1>2. /\ r.type = t /\ r.day = e /\ r.kind = n.kind /\ r.intervention = n.intervention
  BY <1>1 DEF AsWritten
<1>3. CASE t \in DOMAIN Rule
  <2>1. /\ n.kind = Rule[t].kind
        /\ n.kind = "action" => n.intervention = t
    BY <1>3 DEF NormalizeObservation
  <2> HIDE DEF n
  <2>2. CASE t \in CleanActionKeys
    BY <1>2, <2>1, <2>2, TypesApart, ReportsAssumption
  <2>3. CASE t \in SafetyPresenceTypes \union InfraPresenceTypes
    BY <1>2, <2>1, <2>3, TypesApart, ReportsAssumption
  <2>4. CASE t \in {"trash_volume", "spot_check"}
    <3>1. Rule[t].kind \in {"measurement", "condition"}
      BY <1>3, <2>4, ReportsAssumption
    <3> QED
      BY <1>2, <2>1, <2>4, <3>1, TypesApart
  <2> QED
    BY <2>2, <2>3, <2>4 DEF WrittenTypes
<1>4. CASE t \notin DOMAIN Rule
  <2>1. n.kind = "null"
    BY <1>4 DEF NormalizeObservation, EmptyNormalized
  <2>2. t \notin CleanActionKeys \union SafetyPresenceTypes \union InfraPresenceTypes
    BY <1>4, ReportsAssumption
  <2> HIDE DEF n
  <2> QED
    BY <1>2, <2>1, <2>2
<1> QED
  BY <1>3, <1>4

(* One list of rows after another.                                         *)
Join(a, b) == a \o b

(* Its rows are those of both.                                             *)
LEMMA Joined ==
    ASSUME NEW A, NEW a \in Seq(A), NEW b \in Seq(A)
    PROVE  /\ Join(a, b) \in Seq(A)
           /\ TypesIn(Join(a, b)) = TypesIn(a) \union TypesIn(b)
<1> USE DEF Join
<1>1. a \o b \in Seq(A)
  OBVIOUS
<1>2. TypesIn(a \o b) \subseteq TypesIn(a) \union TypesIn(b)
  BY DEF TypesIn
<1>3. TypesIn(a) \subseteq TypesIn(a \o b)
  BY DEF TypesIn
<1>4. TypesIn(b) \subseteq TypesIn(a \o b)
  <2> SUFFICES ASSUME NEW k \in DOMAIN b
               PROVE  b[k].type \in TypesIn(a \o b)
    BY DEF TypesIn
  <2>1. Len(a) + k \in DOMAIN (a \o b) /\ (a \o b)[Len(a) + k] = b[k]
    OBVIOUS
  <2> QED
    BY <2>1 DEF TypesIn
<1> QED
  BY <1>1, <1>2, <1>3, <1>4

(* Rows of earlier days are rows.                                          *)
LEMMA MoreDays ==
    ASSUME NEW d \in Nat
    PROVE  WrittenBy(d) \subseteq WrittenBy(d + 1)
<1>1. 1..d \subseteq 1..(d + 1)
  OBVIOUS
<1> QED
  BY <1>1 DEF WrittenBy

(* Rows before they are normalised.                                        *)
Unwritten == [type : WrittenTypes, payload : Payloads]

(* One field of a completed form writes the action it is of, or nothing.   *)
LEMMA ActionRow ==
    ASSUME NEW ui \in StopUiPayload, NEW key \in CleanActionKeys
    PROVE  /\ Done(ui, key) \in Seq(Unwritten)
           /\ TypesIn(Done(ui, key)) = ui.acts \intersect {key}
<1>1. <<>> \in Payloads /\ key \in WrittenTypes
  BY DEF Payloads, WrittenTypes
<1>2. CASE key \in ui.acts
  <2> DEFINE row == [type |-> key, payload |-> <<>>]
  <2>1. row \in Unwritten /\ row.type = key
    BY <1>1 DEF Unwritten
  <2>2. Done(ui, key) = <<row>>
    BY <1>2 DEF Done
  <2> HIDE DEF row
  <2> QED
    BY <1>2, <2>1, <2>2 DEF TypesIn
<1>3. CASE key \notin ui.acts
  BY <1>3 DEF Done, TypesIn
<1> QED
  BY <1>2, <1>3

(* The rows of a form: its actions are those it says were done, whatever   *)
(* hazards and issues go with them.                                        *)
LEMMA FormRows ==
    ASSUME NEW ui \in StopUiPayload
    PROVE  LET obs == SubmitObservations(ui)
           IN  /\ obs \in Seq(Unwritten)
               /\ TypesIn(obs) \intersect CleanActionKeys = ui.acts
               /\ "spot_check" \notin TypesIn(obs)
               /\ ui.hazards # <<>> => \E t \in TypesIn(obs) : t \in SafetyPresenceTypes
<1> DEFINE hazards == [k \in DOMAIN ui.hazards |->
                        [type |-> MapSafetyHazard(ui.hazards[k]),
                         payload |-> Numbered("severity", ui.severity)]]
           a1 == Done(ui, "picked_up_litter")
           a2 == Done(ui, "emptied_trash")
           a3 == Done(ui, "washed_shelter")
           a4 == Done(ui, "washed_pad")
           a5 == Done(ui, "washed_can")
           actions == Join(Join(Join(Join(a1, a2), a3), a4), a5)
           volume == IF ui.volume = NULL THEN <<>>
                     ELSE <<[type |-> "trash_volume", payload |-> Numbered("level", ui.volume)]>>
           issues == [k \in DOMAIN ui.issues |->
                        [type |-> MapInfraIssue(ui.issues[k]), payload |-> <<>>]]
<1>1. /\ ui.hazards \in Seq(STRING) /\ ui.severity \in Int /\ ui.acts \subseteq CleanActionKeys
      /\ ui.volume \in Int /\ ui.issues \in Seq(STRING)
  BY DEF StopUiPayload
<1>2. \A n \in Int : Numbered("severity", n) \in Payloads /\ Numbered("level", n) \in Payloads
  BY DEF Numbered, Payloads
<1>3. /\ hazards \in Seq(Unwritten) /\ TypesIn(hazards) \subseteq SafetyPresenceTypes
      /\ ui.hazards # <<>> => TypesIn(hazards) # {}
  <2>1. \A k \in DOMAIN ui.hazards :
           /\ hazards[k] \in Unwritten
           /\ hazards[k].type \in SafetyPresenceTypes
    BY <1>1, <1>2, MapsToPresence DEF Unwritten, WrittenTypes
  <2>2. DOMAIN hazards = 1..Len(ui.hazards) /\ Len(ui.hazards) \in Nat
    BY <1>1
  <2>3. ui.hazards # <<>> => 1 \in DOMAIN hazards
    BY <1>1, <2>2
  <2>4. hazards \in [1..Len(ui.hazards) -> Unwritten]
    BY <2>1, <2>2
  <2> HIDE DEF hazards
  <2>5. hazards \in Seq(Unwritten)
    BY <2>2, <2>4
  <2> QED
    BY <2>1, <2>2, <2>3, <2>5 DEF TypesIn
<1>4. /\ issues \in Seq(Unwritten)
      /\ TypesIn(issues) \subseteq SafetyPresenceTypes \union InfraPresenceTypes
  <2>0. <<>> \in Payloads
    BY DEF Payloads
  <2>1. \A k \in DOMAIN ui.issues :
           /\ issues[k] \in Unwritten
           /\ issues[k].type \in SafetyPresenceTypes \union InfraPresenceTypes
    BY <1>1, <2>0, MapsToPresence DEF Unwritten, WrittenTypes
  <2>2. DOMAIN issues = 1..Len(ui.issues) /\ Len(ui.issues) \in Nat
    BY <1>1
  <2>4. issues \in [1..Len(ui.issues) -> Unwritten]
    BY <2>1, <2>2
  <2> HIDE DEF issues
  <2>5. issues \in Seq(Unwritten)
    BY <2>2, <2>4
  <2> QED
    BY <2>1, <2>2, <2>5 DEF TypesIn
<1>5. volume \in Seq(Unwritten) /\ TypesIn(volume) \subseteq {"trash_volume"}
  <2> DEFINE row == [type |-> "trash_volume", payload |-> Numbered("level", ui.volume)]
  <2>1. row \in Unwritten /\ row.type = "trash_volume"
    BY <1>1, <1>2 DEF Unwritten, WrittenTypes
  <2>2. volume \in {<<>>, <<row>>}
    OBVIOUS
  <2> HIDE DEF row, volume
  <2>3. <<row>> \in Seq(Unwritten) /\ TypesIn(<<row>>) = {"trash_volume"}
    BY <2>1 DEF TypesIn
  <2>4. <<>> \in Seq(Unwritten) /\ TypesIn(<<>>) = {}
    BY DEF TypesIn
  <2> QED
    BY <2>2, <2>3, <2>4
<1>6. actions \in Seq(Unwritten) /\ TypesIn(actions) = ui.acts
  <2>1. /\ a1 \in Seq(Unwritten) /\ TypesIn(a1) = ui.acts \intersect {"picked_up_litter"}
        /\ a2 \in Seq(Unwritten) /\ TypesIn(a2) = ui.acts \intersect {"emptied_trash"}
        /\ a3 \in Seq(Unwritten) /\ TypesIn(a3) = ui.acts \intersect {"washed_shelter"}
        /\ a4 \in Seq(Unwritten) /\ TypesIn(a4) = ui.acts \intersect {"washed_pad"}
        /\ a5 \in Seq(Unwritten) /\ TypesIn(a5) = ui.acts \intersect {"washed_can"}
    BY ActionRow DEF CleanActionKeys
  <2>2. ui.acts = (ui.acts \intersect {"picked_up_litter"}) \union (ui.acts \intersect {"emptied_trash"})
                    \union (ui.acts \intersect {"washed_shelter"})
                    \union (ui.acts \intersect {"washed_pad"}) \union (ui.acts \intersect {"washed_can"})
    BY <1>1 DEF CleanActionKeys
  <2> HIDE DEF a1, a2, a3, a4, a5
  <2>a. a1 \in Seq(Unwritten) /\ a2 \in Seq(Unwritten) /\ a3 \in Seq(Unwritten)
        /\ a4 \in Seq(Unwritten) /\ a5 \in Seq(Unwritten)
    BY <2>1
  <2>3. Join(a1, a2) \in Seq(Unwritten) /\ TypesIn(Join(a1, a2)) = TypesIn(a1) \union TypesIn(a2)
    BY <2>a, Joined
  <2>4. Join(Join(a1, a2), a3) \in Seq(Unwritten)
        /\ TypesIn(Join(Join(a1, a2), a3)) = TypesIn(Join(a1, a2)) \union TypesIn(a3)
    BY <2>a, <2>3, Joined
  <2>5. Join(Join(Join(a1, a2), a3), a4) \in Seq(Unwritten)
        /\ TypesIn(Join(Join(Join(a1, a2), a3), a4)) = TypesIn(Join(Join(a1, a2), a3)) \union TypesIn(a4)
    BY <2>a, <2>4, Joined
  <2>6. actions \in Seq(Unwritten)
        /\ TypesIn(actions) = TypesIn(Join(Join(Join(a1, a2), a3), a4)) \union TypesIn(a5)
    BY <2>a, <2>5, Joined
  <2> HIDE DEF actions
  <2> QED
    BY <2>1, <2>2, <2>3, <2>4, <2>5, <2>6
<1>7. SubmitObservations(ui) = Join(Join(Join(hazards, actions), volume), issues)
  BY DEF SubmitObservations, Join
<1> HIDE DEF hazards, actions, volume, issues
<1>a. /\ hazards \in Seq(Unwritten) /\ actions \in Seq(Unwritten)
      /\ volume \in Seq(Unwritten) /\ issues \in Seq(Unwritten)
  BY <1>3, <1>4, <1>5, <1>6
<1>8. /\ Join(hazards, actions) \in Seq(Unwritten)
      /\ TypesIn(Join(hazards, actions)) = TypesIn(hazards) \union TypesIn(actions)
  BY <1>a, Joined
<1>9. /\ Join(Join(hazards, actions), volume) \in Seq(Unwritten)
      /\ TypesIn(Join(Join(hazards, actions), volume)) = TypesIn(Join(hazards, actions)) \union TypesIn(volume)
  BY <1>a, <1>8, Joined
<1>10. /\ Join(Join(Join(hazards, actions), volume), issues) \in Seq(Unwritten)
       /\ TypesIn(Join(Join(Join(hazards, actions), volume), issues)) =
             TypesIn(Join(Join(hazards, actions), volume)) \union TypesIn(issues)
  BY <1>a, <1>9, Joined
<1> DEFINE all == SubmitObservations(ui)
<1>11. /\ all \in Seq(Unwritten)
       /\ TypesIn(all) = TypesIn(hazards) \union ui.acts \union TypesIn(volume) \union TypesIn(issues)
  BY <1>6, <1>7, <1>8, <1>9, <1>10
<1> HIDE DEF all
<1>12. TypesIn(all) \intersect CleanActionKeys = ui.acts
  BY <1>1, <1>3, <1>4, <1>5, <1>11, TypesApart
<1>13. "spot_check" \notin TypesIn(all)
  BY <1>1, <1>3, <1>4, <1>5, <1>11, TypesApart
<1>14. ui.hazards # <<>> => \E t \in TypesIn(all) : t \in SafetyPresenceTypes
  BY <1>3, <1>11
<1> QED
  BY <1>11, <1>12, <1>13, <1>14 DEF all

(* They are written as they are, in order.                                 *)
LEMMA FormIsWritten ==
    ASSUME NEW ui \in StopUiPayload, NEW d \in Nat, d > 0
    PROVE  /\ InsertObservations(ui, d) \in Seq(WrittenBy(d))
           /\ TypesIn(InsertObservations(ui, d)) = TypesIn(SubmitObservations(ui))
<1> DEFINE obs == SubmitObservations(ui)
           ins == InsertObservations(ui, d)
<1>1. obs \in Seq(Unwritten)
  BY FormRows
<1>2. ins = [k \in DOMAIN obs |-> AsWritten(obs[k].type, obs[k].payload, d)]
  BY DEF InsertObservations
<1> HIDE DEF obs, ins
<1>3. \A k \in DOMAIN obs : /\ obs[k].type \in WrittenTypes /\ obs[k].payload \in Payloads
  <2> TAKE k \in DOMAIN obs
  <2>1. obs[k] \in Unwritten
    BY <1>1
  <2> QED
    BY <2>1 DEF Unwritten
<1>4. d \in 1..d
  OBVIOUS
<1>5. \A k \in DOMAIN obs : ins[k] \in WrittenBy(d) /\ ins[k].type = obs[k].type
  BY <1>2, <1>3, <1>4 DEF WrittenBy, AsWritten
<1>6. DOMAIN obs = 1..Len(obs) /\ Len(obs) \in Nat /\ DOMAIN ins = DOMAIN obs
  BY <1>1, <1>2
<1>7. ins \in [1..Len(obs) -> WrittenBy(d)]
  BY <1>2, <1>5, <1>6
<1>8. ins \in Seq(WrittenBy(d))
  BY <1>6, <1>7
<1>9. TypesIn(ins) = TypesIn(obs)
  BY <1>5, <1>6 DEF TypesIn
<1> QED
  BY <1>8, <1>9 DEF obs, ins

(* A completion adds the rows of its form to those of the skip there may   *)
(* be.                                                                     *)
LEMMA CompletionIsWritten ==
    ASSUME NEW ui \in StopUiPayload, today \in Nat, today > 0
    PROVE  /\ Emitted(ui) \in Seq(WrittenBy(today))
           /\ TypesIn(Emitted(ui)) =
                 TypesIn(SubmitObservations(ui)) \union (IF ui.spot THEN {"spot_check"} ELSE {})
<1> DEFINE ins == InsertObservations(ui, today)
           row == AsWritten("spot_check", <<>>, today)
<1>1. ins \in Seq(WrittenBy(today)) /\ TypesIn(ins) = TypesIn(SubmitObservations(ui))
  BY FormIsWritten
<1>2. row \in WrittenBy(today) /\ row.type = "spot_check"
  <2>1. "spot_check" \in WrittenTypes /\ <<>> \in Payloads /\ today \in 1..today
    BY DEF WrittenTypes, Payloads
  <2>2. row.type = "spot_check"
    BY DEF AsWritten
  <2> QED
    BY <2>1, <2>2 DEF WrittenBy
<1> DEFINE first == IF ui.spot THEN <<row>> ELSE <<>>
<1>3. Emitted(ui) = Join(first, ins)
  BY DEF Emitted, EmitSpotCheck, Join
<1>4. first \in Seq(WrittenBy(today))
      /\ TypesIn(first) = IF ui.spot THEN {"spot_check"} ELSE {}
  <2> HIDE DEF row
  <2>1. CASE ui.spot
    BY <1>2, <2>1 DEF TypesIn
  <2>2. CASE ~ui.spot
    BY <2>2 DEF TypesIn
  <2> QED
    BY <2>1, <2>2
<1> HIDE DEF ins, row, first
<1>5. first \in Seq(WrittenBy(today)) /\ ins \in Seq(WrittenBy(today))
  BY <1>1, <1>4
<1>6. /\ Join(first, ins) \in Seq(WrittenBy(today))
      /\ TypesIn(Join(first, ins)) = TypesIn(first) \union TypesIn(ins)
  BY <1>5, Joined
<1> QED
  BY <1>1, <1>3, <1>4, <1>6

(* To begin with every stop is pending and has no visit.                   *)
LEMMA ReportInitInv == ReportInit => ReportInv
<1> SUFFICES ASSUME ReportInit
             PROVE  ReportInv
  OBVIOUS
<1> USE DEF ReportInit
<1>1. today \in 1..LastDay
  BY ReportsAssumption
<1>2. TypesIn(<<>>) = {}
  BY DEF TypesIn
<1>3. \A i \in Item : StopOK(i, today, item[i], visitOf[i], observed[i], owedSkip[i], sent[i], effort[i])
  BY <1>2 DEF StopOK, OutcomeOK, RecordOK
<1> QED
  BY <1>1, <1>3 DEF ReportInv

(* An endpoint changes one stop, and of the others nothing.                *)
LEMMA OneStopMoves ==
    ASSUME ReportInv, NEW i \in Item, today' = today, closed' \subseteq ReportRun,
           item' \in [Item -> {"pending", "in_progress"} \union Resolved],
           owedSkip' \in [Item -> SkipForm \union {NoForm}],
           sent' \in [Item -> CompleteForm \union {NoForm}],
           DOMAIN visitOf' = Item, DOMAIN observed' = Item, DOMAIN effort' = Item,
           \A j \in Item \ {i} :
              /\ item'[j] = item[j] /\ visitOf'[j] = visitOf[j] /\ observed'[j] = observed[j]
              /\ effort'[j] = effort[j] /\ owedSkip'[j] = owedSkip[j] /\ sent'[j] = sent[j],
           StopOK(i, today, item'[i], visitOf'[i], observed'[i], owedSkip'[i], sent'[i], effort'[i])
    PROVE  ReportInv'
<1>1. \A j \in Item : StopOK(j, today', item'[j], visitOf'[j], observed'[j], owedSkip'[j], sent'[j], effort'[j])
  <2> TAKE j \in Item
  <2>1. CASE j = i
    BY <2>1
  <2>2. CASE j # i
    BY <2>2 DEF ReportInv
  <2> QED
    BY <2>1, <2>2
<1> QED
  BY <1>1 DEF ReportInv

(* A night changes nothing of a stop.                                      *)
LEMMA StillOK ==
    ASSUME NEW i, NEW d \in Nat, NEW st, NEW v, NEW obs, NEW left, NEW said, NEW eff,
           StopOK(i, d, st, v, obs, left, said, eff)
    PROVE  StopOK(i, d + 1, st, v, obs, left, said, eff)
<1>1. 0..d \subseteq 0..(d + 1)
  OBVIOUS
<1>2. VisitsOf(i, d) \subseteq VisitsOf(i, d + 1)
  BY <1>1 DEF VisitsOf
<1>3. Seq(WrittenBy(d)) \subseteq Seq(WrittenBy(d + 1))
  BY MoreDays
<1> QED
  BY <1>2, <1>3 DEF StopOK

(* What is closed are runs.                                                *)
LEMMA ClosedAreRuns ==
    ASSUME closed \subseteq ReportRun, NEW i \in Item, NEW items
    PROVE  AfterCheck(ItemRun[i], items) \subseteq ReportRun
BY DEF AfterCheck, ReportRun

(* A visit keeps its assignment when it is closed.                         *)
LEMMA VisitCloses ==
    ASSUME NEW i, today \in Nat, NEW v \in VisitsOf(i, today), NEW outcome \in {"completed", "skipped"}
    PROVE  /\ CloseVisit(v, outcome) \in VisitsOf(i, today)
           /\ CloseVisit(v, outcome).outcome = IF v.outcome = "open" THEN outcome ELSE v.outcome
<1> DEFINE w == [v EXCEPT !.outcome = outcome, !.day = today]
<1>1. today \in 0..today
  OBVIOUS
<1>2. w \in VisitsOf(i, today) /\ w.outcome = outcome
  BY <1>1 DEF VisitsOf
<1>3. CloseVisit(v, outcome) = IF v.outcome = "open" THEN w ELSE v
  BY DEF CloseVisit
<1> HIDE DEF w
<1> QED
  BY <1>2, <1>3

(* Each endpoint leaves its stop, its visit and its rows in agreement.     *)
LEMMA ReportStepInv == ReportInv /\ [ReportNext]_reportVars => ReportInv'
<1> SUFFICES ASSUME ReportInv, [ReportNext]_reportVars
             PROVE  ReportInv'
  OBVIOUS
<1>0. /\ today \in 1..LastDay /\ LastDay \in Nat /\ today \in Nat /\ today > 0
      /\ closed \subseteq ReportRun
      /\ item \in [Item -> {"pending", "in_progress"} \union Resolved]
      /\ owedSkip \in [Item -> SkipForm \union {NoForm}]
      /\ sent \in [Item -> CompleteForm \union {NoForm}]
      /\ DOMAIN visitOf = Item /\ DOMAIN observed = Item /\ DOMAIN effort = Item
  BY ReportsAssumption DEF ReportInv
<1>a. \A i \in Item : StopOK(i, today, item[i], visitOf[i], observed[i], owedSkip[i], sent[i], effort[i])
  BY DEF ReportInv
<1>1. CASE UNCHANGED reportVars
  BY <1>1 DEF reportVars, ReportInv
<1>2. CASE MidnightPasses
  <2>1. today' = today + 1 /\ today' \in 1..LastDay
    BY <1>0, <1>2 DEF MidnightPasses
  <2>2. \A i \in Item : StopOK(i, today + 1, item[i], visitOf[i], observed[i], owedSkip[i], sent[i], effort[i])
    BY <1>0, <1>a, StillOK
  <2> QED
    BY <1>0, <1>2, <2>1, <2>2 DEF MidnightPasses, ReportInv
<1>3. ASSUME NEW r \in ReportRun, RestartRunOf(r) \/ FinishRunOf(r)
      PROVE  ReportInv'
  BY <1>3 DEF RestartRunOf, FinishRunOf, ReportInv
<1>4. ASSUME NEW i \in Item, StartStop(i)
      PROVE  ReportInv'
  <2>1. PICK v \in EnsureVisit(i) : visitOf' = [visitOf EXCEPT ![i] = v]
    BY <1>4 DEF StartStop
  <2>2. /\ item[i] = "pending" /\ item' = [item EXCEPT ![i] = "in_progress"]
        /\ UNCHANGED <<today, closed, observed, effort, owedSkip, sent>>
    BY <1>4 DEF StartStop
  <2>3. visitOf[i] = NoVisit
    BY <1>a, <2>2 DEF StopOK, OutcomeOK
  <2>4. v \in VisitsOf(i, today) /\ v.outcome = "open"
    <3>1. PICK a \in StopsOf(ItemRun[i]) : v = [outcome |-> "open", day |-> 0, assignment |-> a]
      BY <2>1, <2>3 DEF EnsureVisit
    <3>2. 0 \in 0..today
      BY <1>0
    <3> QED
      BY <3>1, <3>2 DEF VisitsOf
  <2>5. StopOK(i, today, "in_progress", v, observed[i], owedSkip[i], sent[i], effort[i])
    <3>1. StopOK(i, today, "pending", visitOf[i], observed[i], owedSkip[i], sent[i], effort[i])
      BY <1>a, <2>2
    <3> QED
      BY <2>4, <3>1 DEF StopOK, OutcomeOK, RecordOK
  <2>6. /\ item'[i] = "in_progress" /\ visitOf'[i] = v
        /\ item' \in [Item -> {"pending", "in_progress"} \union Resolved]
    BY <1>0, <2>1, <2>2
  <2> QED
    BY <1>0, <2>1, <2>2, <2>5, <2>6, OneStopMoves
<1>5. ASSUME NEW i \in Item, SkipEmits(i)
      PROVE  ReportInv'
  <2> DEFINE ins == InsertObservations(owedSkip[i], today)
  <2>1. /\ owedSkip[i] # NoForm
        /\ observed' = [observed EXCEPT ![i] = Join(@, ins)]
        /\ owedSkip' = [owedSkip EXCEPT ![i] = NoForm]
        /\ closed' = AfterCheck(ItemRun[i], item)
        /\ UNCHANGED <<today, item, visitOf, effort, sent>>
    BY <1>5 DEF SkipEmits, Join
  <2>2. /\ owedSkip[i] \in SkipForm /\ owedSkip[i] \in StopUiPayload /\ owedSkip[i].acts = {}
        /\ item[i] \in {"skipped", "done"}
    BY <1>a, <2>1, ReportsAssumption DEF StopOK
  <2>3. /\ ins \in Seq(WrittenBy(today))
        /\ TypesIn(ins) \intersect CleanActionKeys = {}
        /\ "spot_check" \notin TypesIn(ins)
    BY <1>0, <2>2, FormRows, FormIsWritten
  <2> HIDE DEF ins
  <2>4. ins \in Seq(WrittenBy(today)) /\ observed[i] \in Seq(WrittenBy(today))
    BY <1>a, <2>3 DEF StopOK
  <2>5. /\ Join(observed[i], ins) \in Seq(WrittenBy(today))
        /\ TypesIn(Join(observed[i], ins)) = TypesIn(observed[i]) \union TypesIn(ins)
    BY <2>4, Joined
  <2>6. StopOK(i, today, item[i], visitOf[i], Join(observed[i], ins), NoForm, sent[i], effort[i])
    <3>1. StopOK(i, today, item[i], visitOf[i], observed[i], owedSkip[i], sent[i], effort[i])
      BY <1>a
    <3>2. RecordOK(item[i], Join(observed[i], ins), sent[i], effort[i])
      BY <2>3, <2>5, <3>1 DEF StopOK, RecordOK
    <3> QED
      BY <2>2, <2>5, <3>1, <3>2 DEF StopOK
  <2>7. /\ observed'[i] = Join(observed[i], ins) /\ owedSkip'[i] = NoForm
        /\ DOMAIN observed' = Item /\ owedSkip' \in [Item -> SkipForm \union {NoForm}]
        /\ \A j \in Item \ {i} : observed'[j] = observed[j] /\ owedSkip'[j] = owedSkip[j]
    BY <1>0, <2>1
  <2>8. closed' \subseteq ReportRun
    BY <1>0, <2>1, ClosedAreRuns
  <2> QED
    BY <1>0, <2>1, <2>6, <2>7, <2>8, OneStopMoves
<1>6. ASSUME NEW i \in Item, SkipBreaksOff(i)
      PROVE  ReportInv'
  <2>1. /\ owedSkip' = [owedSkip EXCEPT ![i] = NoForm]
        /\ UNCHANGED <<today, item, closed, visitOf, observed, effort, sent>>
    BY <1>6 DEF SkipBreaksOff
  <2>2. StopOK(i, today, item[i], visitOf[i], observed[i], NoForm, sent[i], effort[i])
    BY <1>a DEF StopOK
  <2> QED
    BY <1>0, <2>1, <2>2, OneStopMoves
<1>7. ASSUME NEW i \in Item, NEW ui \in SkipForm, SkipStop(i, ui)
      PROVE  ReportInv'
  <2> DEFINE v == CloseVisit(visitOf[i], "skipped")
  <2>1. /\ item[i] = "in_progress"
        /\ item' = [item EXCEPT ![i] = "skipped"]
        /\ visitOf' = [visitOf EXCEPT ![i] = v]
        /\ owedSkip' = [owedSkip EXCEPT ![i] = ui]
        /\ UNCHANGED <<today, closed, observed, effort, sent>>
    BY <1>7 DEF SkipStop
  <2>2. visitOf[i] \in VisitsOf(i, today) /\ visitOf[i].outcome = "open"
    BY <1>a, <2>1 DEF StopOK, OutcomeOK
  <2>3. v \in VisitsOf(i, today) /\ v.outcome = "skipped"
    BY <1>0, <2>2, VisitCloses
  <2> HIDE DEF v
  <2>4. StopOK(i, today, "skipped", v, observed[i], ui, sent[i], effort[i])
    <3>1. StopOK(i, today, "in_progress", visitOf[i], observed[i], owedSkip[i], sent[i], effort[i])
      BY <1>a, <2>1
    <3> QED
      BY <2>3, <3>1 DEF StopOK, OutcomeOK, RecordOK
  <2>5. /\ item'[i] = "skipped" /\ visitOf'[i] = v /\ owedSkip'[i] = ui
        /\ item' \in [Item -> {"pending", "in_progress"} \union Resolved]
        /\ DOMAIN visitOf' = Item /\ owedSkip' \in [Item -> SkipForm \union {NoForm}]
        /\ \A j \in Item \ {i} : /\ item'[j] = item[j] /\ visitOf'[j] = visitOf[j]
                                 /\ owedSkip'[j] = owedSkip[j]
    BY <1>0, <2>1 DEF Resolved
  <2> QED
    BY <1>0, <2>1, <2>4, <2>5, OneStopMoves
<1>8. ASSUME NEW i \in Item, NEW ui \in CompleteForm, CompleteStop(i, ui)
      PROVE  ReportInv'
  <2> DEFINE v == CloseVisit(visitOf[i], "completed")
             obs == Join(observed[i], Emitted(ui))
             eff == Effort(obs, ui)
  <2>1. /\ item[i] \in {"in_progress", "skipped"}
        /\ item' = [item EXCEPT ![i] = "done"]
        /\ visitOf' = [visitOf EXCEPT ![i] = v]
        /\ observed' = [observed EXCEPT ![i] = obs]
        /\ sent' = [sent EXCEPT ![i] = ui]
        /\ closed' = AfterCheck(ItemRun[i], item')
        /\ UNCHANGED <<today, owedSkip>>
    BY <1>8 DEF CompleteStop, Join
  <2>a. effort' = [effort EXCEPT ![i] = Effort(observed'[i], ui)]
    BY <1>8 DEF CompleteStop
  <2>b. observed'[i] = obs
    BY <1>0, <2>1
  <2>c. effort' = [effort EXCEPT ![i] = eff]
    BY <2>a, <2>b
  <2>2. /\ visitOf[i] \in VisitsOf(i, today)
        /\ visitOf[i].outcome = IF item[i] = "skipped" THEN "skipped" ELSE "open"
    BY <1>a, <2>1 DEF StopOK, OutcomeOK
  <2>3. v \in VisitsOf(i, today) /\ v.outcome \in {"completed", "skipped"}
    <3>1. visitOf[i].outcome \in {"open", "skipped"}
      BY <2>2
    <3> QED
      BY <1>0, <2>2, <3>1, VisitCloses
  <2>4. ui \in StopUiPayload
    BY ReportsAssumption
  <2>5. /\ Emitted(ui) \in Seq(WrittenBy(today))
        /\ TypesIn(Emitted(ui)) =
              TypesIn(SubmitObservations(ui)) \union (IF ui.spot THEN {"spot_check"} ELSE {})
    BY <1>0, <2>4, CompletionIsWritten
  <2>6. /\ TypesIn(SubmitObservations(ui)) \intersect CleanActionKeys = ui.acts
        /\ "spot_check" \notin TypesIn(SubmitObservations(ui))
        /\ ui.hazards # <<>> => \E t \in TypesIn(SubmitObservations(ui)) : t \in SafetyPresenceTypes
    BY <2>4, FormRows
  <2>7. observed[i] \in Seq(WrittenBy(today)) /\ Emitted(ui) \in Seq(WrittenBy(today))
    BY <1>a, <2>5 DEF StopOK
  <2>8. obs \in Seq(WrittenBy(today)) /\ TypesIn(obs) = TypesIn(observed[i]) \union TypesIn(Emitted(ui))
    BY <2>7, Joined
  <2>9. eff.volume = ui.volume /\ (eff.hazard <=> \E t \in TypesIn(obs) : t \in SafetyPresenceTypes)
    BY DEF Effort, TypesIn
  <2> HIDE DEF v, obs, eff
  <2>10. StopOK(i, today, item[i], visitOf[i], observed[i], owedSkip[i], sent[i], effort[i])
    BY <1>a
  <2>11. RecordOK("done", obs, ui, eff)
    <3>1. /\ TypesIn(observed[i]) \intersect CleanActionKeys = {}
          /\ "spot_check" \notin TypesIn(observed[i])
      BY <2>1, <2>10 DEF StopOK, RecordOK
    <3>2. TypesIn(obs) \intersect CleanActionKeys = ui.acts
      BY <2>5, <2>6, <2>8, <3>1, TypesApart
    <3>3. "spot_check" \in TypesIn(obs) <=> ui.spot
      BY <2>5, <2>6, <2>8, <3>1
    <3>4. ui.hazards # <<>> => eff.hazard
      BY <2>5, <2>6, <2>8, <2>9
    <3> QED
      BY <2>9, <3>2, <3>3, <3>4 DEF RecordOK
  <2>12. StopOK(i, today, "done", v, obs, owedSkip[i], ui, eff)
    BY <2>3, <2>8, <2>10, <2>11 DEF StopOK, OutcomeOK
  <2>13. /\ item'[i] = "done" /\ visitOf'[i] = v /\ sent'[i] = ui /\ effort'[i] = eff
         /\ item' \in [Item -> {"pending", "in_progress"} \union Resolved]
         /\ DOMAIN visitOf' = Item /\ sent' \in [Item -> CompleteForm \union {NoForm}]
         /\ DOMAIN observed' = Item /\ DOMAIN effort' = Item
         /\ \A j \in Item \ {i} :
               /\ item'[j] = item[j] /\ visitOf'[j] = visitOf[j] /\ observed'[j] = observed[j]
               /\ effort'[j] = effort[j] /\ sent'[j] = sent[j]
    BY <1>0, <2>1, <2>c DEF Resolved
  <2>14. closed' \subseteq ReportRun
    BY <1>0, <2>1, ClosedAreRuns
  <2> QED
    BY <1>0, <2>1, <2>b, <2>12, <2>13, <2>14, OneStopMoves
<1> QED
  BY <1>1, <1>2, <1>3, <1>4, <1>5, <1>6, <1>7, <1>8 DEF ReportNext

(* The invariant has the types of the module.                              *)
LEMMA ReportTypes == ReportInv => ReportTypeOK
<1> SUFFICES ASSUME ReportInv
             PROVE  ReportTypeOK
  OBVIOUS
<1>1. /\ today \in 1..LastDay /\ today \in Nat
  BY ReportsAssumption DEF ReportInv
<1>2. ASSUME NEW i \in Item
      PROVE  /\ visitOf[i].outcome \in {"none", "open", "completed", "skipped"}
             /\ visitOf[i].day \in 0..today
             /\ \A k \in DOMAIN observed[i] : observed[i][k].day \in 1..today
  <2>1. StopOK(i, today, item[i], visitOf[i], observed[i], owedSkip[i], sent[i], effort[i])
    BY DEF ReportInv
  <2>2. visitOf[i] = NoVisit \/ visitOf[i] \in VisitsOf(i, today)
    BY <2>1 DEF StopOK, OutcomeOK
  <2>3. visitOf[i].outcome \in {"none", "open", "completed", "skipped"} /\ visitOf[i].day \in 0..today
    BY <1>1, <2>2 DEF NoVisit, VisitsOf
  <2>4. \A k \in DOMAIN observed[i] : observed[i][k] \in WrittenBy(today)
    BY <2>1 DEF StopOK
  <2>5. \A k \in DOMAIN observed[i] : observed[i][k].day \in 1..today
    BY <1>1, <2>4, RowsWritten
  <2> QED
    BY <2>3, <2>5
<1> QED
  BY <1>2 DEF ReportInv, ReportTypeOK

(* What the queries join: visits with their runs, rows with their visits.  *)
LEMMA JoinsHold ==
    ASSUME ReportInv
    PROVE  /\ \A i \in Item : visitOf[i] # NoVisit <=> item[i] # "pending"
           /\ \A i \in Item : visitOf[i] # NoVisit => RunOfVisit(i) = ItemRun[i]
           /\ \A i \in Item : visitOf[i].outcome = "completed" => item[i] = "done" /\ visitOf[i] # NoVisit
           /\ \A i \in Item : \A k \in DOMAIN observed[i] :
                 item[i] \in {"skipped", "done"} /\ visitOf[i] # NoVisit
<1>1. ASSUME NEW i \in Item
      PROVE  /\ visitOf[i] # NoVisit <=> item[i] # "pending"
             /\ visitOf[i] # NoVisit => RunOfVisit(i) = ItemRun[i]
             /\ visitOf[i].outcome = "completed" => item[i] = "done" /\ visitOf[i] # NoVisit
             /\ \A k \in DOMAIN observed[i] : item[i] \in {"skipped", "done"}
  <2>1. StopOK(i, today, item[i], visitOf[i], observed[i], owedSkip[i], sent[i], effort[i])
    BY DEF ReportInv
  <2>2. item[i] # "pending" => /\ visitOf[i].outcome \in {"open", "completed", "skipped"}
                               /\ visitOf[i].assignment \in StopsOf(ItemRun[i])
    BY <2>1 DEF StopOK, VisitsOf
  <2>3. item[i] = "pending" => visitOf[i] = NoVisit
    BY <2>1 DEF StopOK, OutcomeOK
  <2>4. visitOf[i] # NoVisit <=> item[i] # "pending"
    BY <2>2, <2>3 DEF NoVisit
  <2>5. visitOf[i] # NoVisit => RunOfVisit(i) = ItemRun[i]
    BY <2>2, <2>4 DEF RunOfVisit, StopsOf
  <2>6. visitOf[i].outcome = "completed" => item[i] = "done"
    <3>1. item[i] \in {"pending", "in_progress", "skipped", "done"} /\ OutcomeOK(item[i], visitOf[i])
      BY <2>1 DEF StopOK
    <3>2. NoVisit.outcome = "none"
      BY DEF NoVisit
    <3> QED
      BY <2>3, <3>1, <3>2 DEF OutcomeOK
  <2>7. \A k \in DOMAIN observed[i] : item[i] \in {"skipped", "done"}
    BY <2>1 DEF StopOK
  <2> QED
    BY <2>4, <2>5, <2>6, <2>7
<1> QED
  BY <1>1

(* What is known of each row.                                              *)
LEMMA RowsAre ==
    ASSUME ReportInv
    PROVE  /\ IsFiniteSet(Rows)
           /\ \A i \in Item : \A k \in DOMAIN observed[i] : <<i, k>> \in Rows
           /\ \A x \in Rows : /\ x[1] \in Item /\ x[2] \in DOMAIN observed[x[1]]
                              /\ x = <<x[1], x[2]>>
                              /\ RowAt(x) \in WrittenBy(today)
                              /\ visitOf[x[1]] # NoVisit
                              /\ RunOfVisit(x[1]) = ItemRun[x[1]]
<1>1. \A i \in Item : observed[i] \in Seq(WrittenBy(today))
  BY DEF ReportInv, StopOK
<1>2. ASSUME NEW i \in Item
      PROVE  IsFiniteSet({i} \X (DOMAIN observed[i]))
  <2>1. DOMAIN observed[i] = 1..Len(observed[i]) /\ Len(observed[i]) \in Nat
    BY <1>1
  <2> QED
    <3>1. IsFiniteSet(DOMAIN observed[i])
      BY <2>1, FS_Interval
    <3>2. IsFiniteSet({i})
      BY FS_Singleton
    <3> QED
      BY <3>1, <3>2, FS_Product
<1> DEFINE pairs == [i \in Item |-> {i} \X (DOMAIN observed[i])]
           All == {pairs[i] : i \in Item}
<1>3. Rows = UNION All
  BY DEF Rows
<1>4. \A T \in All : IsFiniteSet(T)
  BY <1>2
<1>5. IsFiniteSet(All)
  <2> HIDE DEF pairs
  <2>1. pairs \in Surjection(Item, All)
    <3>1. DOMAIN pairs = Item /\ pairs = [i \in Item |-> pairs[i]]
      BY DEF pairs
    <3> QED
      BY <3>1 DEF Surjection
  <2> QED
    BY <2>1, FS_Surjection, ReportsAssumption
<1>6. IsFiniteSet(Rows)
  <2> HIDE DEF All
  <2> QED
    BY <1>3, <1>4, <1>5, FS_UNION
<1>7. \A i \in Item : \A k \in DOMAIN observed[i] : <<i, k>> \in Rows
  BY DEF Rows
<1>8. ASSUME NEW x \in Rows
      PROVE  /\ x[1] \in Item /\ x[2] \in DOMAIN observed[x[1]]
             /\ x = <<x[1], x[2]>>
             /\ RowAt(x) \in WrittenBy(today)
             /\ visitOf[x[1]] # NoVisit
             /\ RunOfVisit(x[1]) = ItemRun[x[1]]
  <2>1. PICK i \in Item : x \in {i} \X (DOMAIN observed[i])
    BY DEF Rows
  <2>2. x[1] = i /\ x[2] \in DOMAIN observed[i] /\ x = <<x[1], x[2]>>
    BY <2>1
  <2>3. RowAt(x) \in WrittenBy(today)
    BY <1>1, <2>2 DEF RowAt
  <2> QED
    BY <2>2, <2>3, JoinsHold
<1> QED
  BY <1>6, <1>7, <1>8

(* Sets whose members go together one for one are of a size.               *)
LEMMA OneForOne ==
    ASSUME NEW S, IsFiniteSet(S), NEW T, NEW f \in [S -> T],
           \A x, y \in S : f[x] = f[y] => x = y,
           \A z \in T : \E x \in S : f[x] = z
    PROVE  IsFiniteSet(T) /\ Cardinality(T) = Cardinality(S)
<1>1. f \in Bijection(S, T)
  <2>1. f \in Injection(S, T)
    BY DEF Injection, IsInjective
  <2>2. f \in Surjection(S, T)
    BY DEF Surjection
  <2> QED
    BY <2>1, <2>2 DEF Bijection
<1> QED
  BY <1>1, FS_Bijection DEF ExistsBijection

(* The actions among the rows of a stop.                                   *)
ActsOf(i) == {RowAt(x).intervention : x \in {y \in Rows : y[1] = i /\ RowAt(y).kind = "action"}}

(* The actions of a completed stop, by its rows, are those of its form.    *)
LEMMA ActsAreSent ==
    ASSUME ReportInv, NEW i \in Item, item[i] = "done"
    PROVE  ActsOf(i) = sent[i].acts
<1>0. today \in Nat
  BY ReportsAssumption DEF ReportInv
<1>1. TypesIn(observed[i]) \intersect CleanActionKeys = sent[i].acts
  BY DEF ReportInv, StopOK, RecordOK
<1>2. ASSUME NEW x \in Rows, x[1] = i, RowAt(x).kind = "action"
      PROVE  RowAt(x).intervention \in sent[i].acts
  <2>1. RowAt(x) = observed[i][x[2]] /\ x[2] \in DOMAIN observed[i] /\ RowAt(x) \in WrittenBy(today)
    BY <1>2, RowsAre DEF RowAt
  <2>2. RowAt(x).intervention = RowAt(x).type /\ RowAt(x).type \in CleanActionKeys
    BY <1>0, <1>2, <2>1, RowsWritten
  <2>3. RowAt(x).type \in TypesIn(observed[i])
    BY <2>1 DEF TypesIn
  <2> QED
    BY <1>1, <2>2, <2>3
<1>3. ASSUME NEW t \in sent[i].acts
      PROVE  \E x \in Rows : x[1] = i /\ RowAt(x).kind = "action" /\ RowAt(x).intervention = t
  <2>1. PICK k \in DOMAIN observed[i] : observed[i][k].type = t
    BY <1>1 DEF TypesIn
  <2>2. <<i, k>> \in Rows /\ RowAt(<<i, k>>) = observed[i][k] /\ RowAt(<<i, k>>) \in WrittenBy(today)
    BY RowsAre DEF RowAt
  <2>3. t \in CleanActionKeys
    BY <1>1
  <2>4. RowAt(<<i, k>>).kind = "action" /\ RowAt(<<i, k>>).intervention = t
    BY <1>0, <2>1, <2>2, <2>3, RowsWritten
  <2> QED
    BY <2>2, <2>4
<1> QED
  BY <1>2, <1>3 DEF ActsOf

(* The stops whose visit was completed.                                    *)
Completed == {i \in Item : visitOf[i].outcome = "completed"}

(* The row of the clean log for one of them.                               *)
LogRowOf(i) == [visit |-> i, item |-> i, acts |-> sent[i].acts]

(* The clean log has one row for each of them, with the actions of its     *)
(* form.                                                                   *)
LEMMA CleanLogIs ==
    ASSUME ReportInv
    PROVE  CleanLog = {LogRowOf(i) : i \in Completed}
<1> DEFINE joined == {v \in Item \X Item :
                        /\ visitOf[v[1]].outcome = "completed"
                        /\ ItemRun[v[2]] = RunOfVisit(v[1])
                        /\ ItemStop[v[2]] = ItemStop[v[1]]}
           row(j) == [visit |-> j[1], item |-> j[2], acts |-> ActsOf(j[1])]
<1>1. CleanLog = {row(j) : j \in joined}
  BY DEF CleanLog, ActsOf
<1>2. \A i \in Completed : <<i, i>> \in joined
  BY JoinsHold DEF Completed
<1>3. \A j \in joined : j[1] \in Completed /\ j[2] = j[1]
  <2> TAKE j \in joined
  <2>1. j[1] \in Item /\ j[2] \in Item /\ visitOf[j[1]].outcome = "completed"
    OBVIOUS
  <2>2. ItemRun[j[2]] = ItemRun[j[1]] /\ ItemStop[j[2]] = ItemStop[j[1]]
    BY <2>1, JoinsHold
  <2> QED
    BY <2>1, <2>2, ReportsAssumption DEF Completed
<1>4. \A i \in Completed : ActsOf(i) = sent[i].acts
  BY ActsAreSent, JoinsHold DEF Completed
<1>5. \A j \in joined : row(j) = LogRowOf(j[1])
  BY <1>3, <1>4 DEF LogRowOf
<1>6. \A i \in Completed : row(<<i, i>>) = LogRowOf(i)
  BY <1>4 DEF LogRowOf
<1> HIDE DEF joined, row
<1>7. \A l \in CleanLog : \E i \in Completed : l = LogRowOf(i)
  BY <1>1, <1>3, <1>5
<1>8. \A i \in Completed : LogRowOf(i) \in CleanLog
  BY <1>1, <1>2, <1>6
<1> QED
  BY <1>7, <1>8

(* The page of a run shows of a stop what its own visit says.              *)
LEMMA DetailIs ==
    ASSUME ReportInv, NEW i \in Item, item[i] = "done"
    PROVE  /\ RunDetail(ItemRun[i])[i].acts = ActsOf(i)
           /\ RunDetail(ItemRun[i])[i].spot = ("spot_check" \in TypesIn(observed[i]))
<1> DEFINE seen == {v \in Item : /\ visitOf[v] # NoVisit
                                 /\ RunOfVisit(v) = ItemRun[i]
                                 /\ ItemStop[v] = ItemStop[i]}
           shown == {RowAt(x) : x \in {y \in Rows : y[1] \in seen}}
<1>1. RunDetail(ItemRun[i])[i] =
         [status |-> item[i], acts |-> {o.intervention : o \in {w \in shown : w.kind = "action"}},
          spot |-> \E o \in shown : o.type = "spot_check"]
  BY DEF RunDetail, StopsOf
<1>2. seen = {i}
  <2>1. visitOf[i] # NoVisit /\ \A v \in Item : visitOf[v] # NoVisit => RunOfVisit(v) = ItemRun[v]
    BY JoinsHold
  <2> QED
    BY <2>1, ReportsAssumption
<1> HIDE DEF seen
<1>3. shown = {RowAt(x) : x \in {y \in Rows : y[1] = i}}
  BY <1>2
<1>4. {o.intervention : o \in {w \in shown : w.kind = "action"}} = ActsOf(i)
  BY <1>3 DEF ActsOf
<1>5. (\E o \in shown : o.type = "spot_check") <=> "spot_check" \in TypesIn(observed[i])
  <2>1. ASSUME NEW x \in Rows, x[1] = i
        PROVE  RowAt(x).type \in TypesIn(observed[i])
    BY <2>1, RowsAre DEF RowAt, TypesIn
  <2>2. ASSUME NEW k \in DOMAIN observed[i], observed[i][k].type = "spot_check"
        PROVE  \E x \in Rows : x[1] = i /\ RowAt(x).type = "spot_check"
    <3>1. <<i, k>> \in Rows /\ RowAt(<<i, k>>) = observed[i][k]
      BY RowsAre DEF RowAt
    <3> QED
      BY <2>2, <3>1
  <2> QED
    BY <1>3, <2>1, <2>2 DEF TypesIn
<1> DEFINE acts == {o.intervention : o \in {w \in shown : w.kind = "action"}}
           spot == \E o \in shown : o.type = "spot_check"
           page == RunDetail(ItemRun[i])[i]
           there == "spot_check" \in TypesIn(observed[i])
<1>7. page = [status |-> item[i], acts |-> acts, spot |-> spot]
  BY <1>1
<1>a. spot <=> there
  BY <1>5
<1>b. spot \in BOOLEAN /\ there \in BOOLEAN
  OBVIOUS
<1> HIDE DEF page, spot, acts, there
<1>6. spot = there
  BY <1>a, <1>b
<1>8. page.acts = acts /\ page.spot = spot
  BY <1>7
<1> QED
  BY <1>4, <1>6, <1>8 DEF acts, page, there

(* So the clean log and the pages tell what the forms said.                *)
LEMMA InvImpliesCleanLog == ReportInv => CleanLogTellsTheForm
<1> SUFFICES ASSUME ReportInv
             PROVE  CleanLogTellsTheForm
  OBVIOUS
<1>1. CleanLog = {LogRowOf(i) : i \in Completed}
  BY CleanLogIs
<1>2. \A i \in Item : visitOf[i].outcome = "completed" =>
         \E l \in CleanLog : l = [visit |-> i, item |-> i, acts |-> sent[i].acts]
  BY <1>1 DEF Completed, LogRowOf
<1>3. Cardinality(CleanLog) = Cardinality(Completed)
  <2> DEFINE f == [i \in Completed |-> LogRowOf(i)]
  <2>1. f \in [Completed -> CleanLog]
    BY <1>1
  <2>2. \A x, y \in Completed : f[x] = f[y] => x = y
    BY DEF LogRowOf
  <2>3. \A l \in CleanLog : \E i \in Completed : f[i] = l
    BY <1>1
  <2>4. IsFiniteSet(Completed)
    BY ReportsAssumption, FS_Subset DEF Completed
  <2> HIDE DEF f
  <2> QED
    BY <2>1, <2>2, <2>3, <2>4, OneForOne
<1>4. ASSUME NEW i \in Item, item[i] = "done"
      PROVE  /\ sent[i].hazards # <<>> => effort[i].hazard
             /\ effort[i].volume = sent[i].volume
             /\ RunDetail(ItemRun[i])[i].spot = sent[i].spot
  <2>1. RecordOK("done", observed[i], sent[i], effort[i])
    BY <1>4 DEF ReportInv, StopOK
  <2>2. sent[i].spot \in BOOLEAN
    <3>1. sent[i] \in StopUiPayload
      BY <2>1, ReportsAssumption DEF RecordOK
    <3> QED
      BY <3>1 DEF StopUiPayload
  <2>3. RunDetail(ItemRun[i])[i].spot = ("spot_check" \in TypesIn(observed[i]))
    BY <1>4, DetailIs
  <2>4. ("spot_check" \in TypesIn(observed[i])) <=> sent[i].spot
    BY <2>1 DEF RecordOK
  <2>5. RunDetail(ItemRun[i])[i].spot = sent[i].spot
    <3> DEFINE page == RunDetail(ItemRun[i])[i].spot
               there == "spot_check" \in TypesIn(observed[i])
    <3>1. there = sent[i].spot
      BY <2>2, <2>4
    <3>2. page = there
      BY <2>3
    <3> HIDE DEF page, there
    <3>3. page = sent[i].spot
      BY <3>1, <3>2, Zenon
    <3> QED
      BY <3>3 DEF page
  <2> QED
    BY <2>1, <2>5 DEF RecordOK
<1> QED
  BY <1>2, <1>3, <1>4 DEF CleanLogTellsTheForm, Completed

(* The counts of all the screens are of the same rows; those of the runs   *)
(* are of their parts, and add up.                                         *)
LEMMA ScreensFollow == ReportInv => ScreensAgree
<1> SUFFICES ASSUME ReportInv
             PROVE  ScreensAgree
  OBVIOUS
<1> DEFINE presences == {x \in Rows : RowAt(x).kind = "presence" /\ OfToday(x)}
           hazards == {x \in Rows : IsPresence(x, SafetyPresenceTypes) /\ OfToday(x)}
           infra == {x \in Rows : IsPresence(x, InfraPresenceTypes) /\ OfToday(x)}
<1>0. /\ today \in 1..LastDay /\ today \in Nat /\ closed \subseteq ReportRun
      /\ IsFiniteSet(Item)
  BY ReportsAssumption DEF ReportInv
<1>a. /\ IsFiniteSet(Rows)
      /\ \A x \in Rows : /\ x[1] \in Item /\ visitOf[x[1]] # NoVisit
                         /\ RunOfVisit(x[1]) = ItemRun[x[1]]
                         /\ RowAt(x) \in WrittenBy(today)
  BY RowsAre
<1>b. \A x \in Rows : RowAt(x).kind = "presence" <=>
                         RowAt(x).type \in SafetyPresenceTypes \union InfraPresenceTypes
  BY <1>0, <1>a, RowsWritten
<1>c. IsFiniteSet(ReportRun)
  <2> DEFINE f == [i \in Item |-> ItemRun[i]]
  <2>1. f \in Surjection(Item, ReportRun)
    BY DEF Surjection, ReportRun
  <2> HIDE DEF f
  <2> QED
    BY <1>0, <2>1, FS_Surjection
<1>d. /\ IsFiniteSet(presences) /\ IsFiniteSet(hazards) /\ IsFiniteSet(infra)
      /\ Cardinality(presences) \in Nat /\ Cardinality(hazards) \in Nat /\ Cardinality(infra) \in Nat
  <2>1. presences \subseteq Rows /\ hazards \subseteq Rows /\ infra \subseteq Rows
    OBVIOUS
  <2> HIDE DEF presences, hazards, infra
  <2> QED
    BY <1>a, <2>1, FS_Subset, FS_CardinalityType
<1>e. Exceptions.hazards = Cardinality(hazards) /\ Exceptions.infra = Cardinality(infra)
  BY DEF Exceptions
<1>1. Cardinality(presences) = Exceptions.hazards + Exceptions.infra
  <2>1. presences = hazards \union infra
    BY <1>b DEF IsPresence
  <2>2. hazards \intersect infra = {}
    BY TypesApart DEF IsPresence
  <2> HIDE DEF presences, hazards, infra
  <2>3. Cardinality(hazards \union infra)
          = Cardinality(hazards) + Cardinality(infra) - Cardinality(hazards \intersect infra)
    BY <1>d, FS_Union
  <2>4. Cardinality(hazards \intersect infra) = 0
    BY <2>2, FS_EmptySet
  <2>5. Cardinality(hazards \union infra) = Cardinality(hazards) + Cardinality(infra)
    BY <1>d, <2>3, <2>4
  <2> QED
    BY <1>e, <2>1, <2>5
<1>2. Overview.hazards = Exceptions.hazards
  <2>1. {x \in Rows : RowAt(x).type \in SafetyPresenceTypes /\ OfToday(x)} = hazards
    BY <1>b DEF IsPresence
  <2> QED
    BY <2>1 DEF Overview, Exceptions
<1>3. SumFunction([r \in ReportRun |-> RunRow(r).hazards]) = Exceptions.hazards
  <2> DEFINE h == [r \in ReportRun |-> RunRow(r).hazards]
             g == [x \in hazards |-> RunOfVisit(x[1])]
  <2>1. g \in [hazards -> DOMAIN h]
    BY <1>a DEF ReportRun
  <2>2. ASSUME NEW r \in ReportRun
        PROVE  h[r] = Cardinality({x \in hazards : g[x] = r})
    <3>1. {x \in Rows : RunOfVisit(x[1]) = r /\ IsPresence(x, SafetyPresenceTypes) /\ OfToday(x)}
             = {x \in hazards : g[x] = r}
      OBVIOUS
    <3>2. h[r] = RunRow(r).hazards
      BY <2>2
    <3> QED
      BY <3>1, <3>2 DEF RunRow
  <2>3. DOMAIN h = ReportRun
    OBVIOUS
  <2> HIDE DEF h, g, hazards
  <2>4. SumFunction(h) = Cardinality(hazards)
    BY <1>c, <1>d, <2>1, <2>2, <2>3, PartsAddUp
  <2> QED
    BY <1>e, <2>4 DEF h
<1>f. IsFiniteSet(CleanedToday) /\ CleanedToday \subseteq Item
  BY <1>0, FS_Subset DEF CleanedToday
<1>4. SumFunction([r \in ReportRun |-> Cardinality(RouteWork(r))]) = Overview.cleanEvents
  <2> DEFINE h == [r \in ReportRun |-> Cardinality(RouteWork(r))]
             g == [i \in CleanedToday |-> RunOfVisit(i)]
  <2>1. g \in [CleanedToday -> DOMAIN h]
    <3>1. \A i \in CleanedToday : i \in Item /\ RunOfVisit(i) = ItemRun[i]
      BY JoinsHold DEF CleanedToday
    <3> QED
      BY <3>1 DEF ReportRun
  <2>2. ASSUME NEW r \in ReportRun
        PROVE  h[r] = Cardinality({i \in CleanedToday : g[i] = r})
    <3>1. RouteWork(r) = {i \in CleanedToday : g[i] = r}
      BY DEF RouteWork
    <3> QED
      BY <3>1
  <2>3. DOMAIN h = ReportRun
    OBVIOUS
  <2> HIDE DEF h, g
  <2>4. SumFunction(h) = Cardinality(CleanedToday)
    BY <1>c, <1>f, <2>1, <2>2, <2>3, PartsAddUp
  <2> QED
    BY <2>4 DEF h, Overview
<1>5. Cardinality({l \in CleanLog : l.visit \in CleanedToday}) = Overview.cleanEvents
  <2> DEFINE f == [i \in CleanedToday |-> LogRowOf(i)]
             logged == {l \in CleanLog : l.visit \in CleanedToday}
  <2>1. CleanLog = {LogRowOf(i) : i \in Completed} /\ CleanedToday \subseteq Completed
    BY CleanLogIs DEF CleanedToday, Completed
  <2>2. f \in [CleanedToday -> logged]
    BY <2>1 DEF LogRowOf
  <2>3. \A x, y \in CleanedToday : f[x] = f[y] => x = y
    BY DEF LogRowOf
  <2>4. \A l \in logged : \E i \in CleanedToday : f[i] = l
    BY <2>1 DEF LogRowOf
  <2> HIDE DEF f, logged
  <2>5. Cardinality(logged) = Cardinality(CleanedToday)
    BY <1>f, <2>2, <2>3, <2>4, OneForOne
  <2> QED
    BY <2>5 DEF Overview, logged
<1>6. today = RunDate => Cardinality(RouteStatus) = Dashboard.active
  <2> SUFFICES ASSUME today = RunDate
               PROVE  Cardinality(RouteStatus) = Dashboard.active
    OBVIOUS
  <2> DEFINE stillOut == ReportRun \ closed
             f == [r \in stillOut |-> <<r, RunRow(r).stops, RunRow(r).resolved, RunRow(r).skipped>>]
  <2>1. f \in [stillOut -> RouteStatus]
    BY DEF RouteStatus
  <2>2. \A x, y \in stillOut : f[x] = f[y] => x = y
    OBVIOUS
  <2>3. \A t \in RouteStatus : \E r \in stillOut : f[r] = t
    BY DEF RouteStatus
  <2>4. IsFiniteSet(stillOut)
    BY <1>c, FS_Subset
  <2>5. Dashboard.active = Cardinality(stillOut)
    BY DEF Dashboard, RunsOfToday
  <2> HIDE DEF f, stillOut
  <2> QED
    BY <2>1, <2>2, <2>3, <2>4, <2>5, OneForOne
<1>7. Cardinality(AdminRuns) = Dashboard.active + Dashboard.completed
  <2> DEFINE f == [r \in RunsOfToday |-> <<r, Cardinality(StopsOf(r))>>]
  <2>1. f \in [RunsOfToday -> AdminRuns]
    BY DEF AdminRuns
  <2>2. \A x, y \in RunsOfToday : f[x] = f[y] => x = y
    OBVIOUS
  <2>3. \A t \in AdminRuns : \E r \in RunsOfToday : f[r] = t
    BY DEF AdminRuns
  <2>4. IsFiniteSet(RunsOfToday)
    BY <1>c, FS_EmptySet DEF RunsOfToday
  <2> HIDE DEF f
  <2>5. Cardinality(AdminRuns) = Cardinality(RunsOfToday)
    BY <2>1, <2>2, <2>3, <2>4, OneForOne
  <2>6. /\ Cardinality(RunsOfToday \ closed) = Cardinality(RunsOfToday) - Cardinality(RunsOfToday \intersect closed)
        /\ Cardinality(RunsOfToday) \in Nat
        /\ Cardinality(RunsOfToday \intersect closed) \in Nat
    BY <2>4, FS_Difference, FS_Intersection, FS_CardinalityType
  <2> QED
    BY <2>5, <2>6 DEF Dashboard
<1>8. \A l \in CleanLog : RunDetail(ItemRun[l.item])[l.item].acts = l.acts
  <2> TAKE l \in CleanLog
  <2>1. PICK i \in Completed : l = LogRowOf(i)
    BY CleanLogIs
  <2>2. l.item = i /\ l.acts = sent[i].acts
    BY <2>1 DEF LogRowOf
  <2>3. i \in Item /\ item[i] = "done"
    BY JoinsHold DEF Completed
  <2> QED
    BY <2>2, <2>3, DetailIs, ActsAreSent
<1>9. \A t \in RouteStatus : t[3] = RunRow(t[1]).resolved /\ t[4] <= t[3]
  <2> TAKE t \in RouteStatus
  <2>1. PICK r \in ReportRun : t = <<r, RunRow(r).stops, RunRow(r).resolved, RunRow(r).skipped>>
    BY DEF RouteStatus
  <2> DEFINE resolved == {i \in StopsOf(r) : item[i] \in Resolved}
             skipped == {i \in StopsOf(r) : item[i] = "skipped"}
  <2>2. t[1] = r /\ t[3] = RunRow(r).resolved /\ t[4] = RunRow(r).skipped
    BY <2>1
  <2>3. RunRow(r).resolved = Cardinality(resolved) /\ RunRow(r).skipped = Cardinality(skipped)
    BY DEF RunRow
  <2>4. skipped \subseteq resolved /\ resolved \subseteq Item
    BY DEF Resolved, StopsOf
  <2> HIDE DEF resolved, skipped
  <2>5. IsFiniteSet(resolved)
    BY <1>0, <2>4, FS_Subset
  <2>6. Cardinality(skipped) <= Cardinality(resolved)
    BY <2>4, <2>5, FS_Subset
  <2> QED
    BY <2>2, <2>3, <2>6
<1>10. UNION {StopHistory(ItemStop[i]).rows : i \in Item} = Rows
  <2>1. \A s : StopHistory(s).rows \subseteq Rows
    BY DEF StopHistory
  <2>2. ASSUME NEW x \in Rows
        PROVE  \E i \in Item : x \in StopHistory(ItemStop[i]).rows
    <3>1. x[1] \in Item /\ visitOf[x[1]] # NoVisit
      BY <1>a
    <3>2. x \in StopHistory(ItemStop[x[1]]).rows
      BY <3>1 DEF StopHistory
    <3> QED
      BY <3>1, <3>2
  <2> QED
    BY <2>1, <2>2
<1> HIDE DEF hazards, infra
<1> QED
  BY <1>1, <1>2, <1>3, <1>4, <1>5, <1>6, <1>7, <1>8, <1>9, <1>10 DEF ScreensAgree

(* The screens agree with each other on every count, and the clean log     *)
(* tells what the forms said (controlCenterRoutes.ts,                      *)
(* routeRunStopRoutes.ts), for any stops, runs, forms, registry and number *)
(* of days: every count is of the same rows, which the endpoints write     *)
(* with the visit and the stop.                                            *)
THEOREM ReportsCorrect == ReportSpec => [](ReportTypeOK /\ ScreensAgree /\ CleanLogTellsTheForm)
<1>1. ReportInv => ReportTypeOK /\ ScreensAgree /\ CleanLogTellsTheForm
  BY ReportTypes, ScreensFollow, InvImpliesCleanLog
<1> QED
  BY <1>1, ReportInitInv, ReportStepInv, PTL DEF ReportSpec

-----------------------------------------------------------------------------
(* Platform.                                                               *)

(* Every part makes a step of its own, or none.                            *)
PartsStep ==
    /\ [BridgeNext]_bridgeVars
    /\ [SftpNext]_sftpVars
    /\ [DelNext]_delVars
    /\ [MigNext]_migVars
    /\ [OrderNext]_orderVars
    /\ [DispatchNext]_dispatchVars
    /\ [SessionNext]_sessionVars
    /\ [AccessNext]_accessVars
    /\ [PoolNext]_poolVars
    /\ [RegistryNext]_registryVars
    /\ [ReportNext]_reportVars
    /\ [RiskNext]_riskVars
    /\ [PanelNext]_panelVars
    /\ [FormNext]_formVars

(* A step of the platform is of its one part, and the others stand still.  *)
LEMMA PartsMove == [PlatformNext]_platformVars => PartsStep
<1> SUFFICES ASSUME [PlatformNext]_platformVars
             PROVE  PartsStep
  OBVIOUS
<1> USE DEF PartsStep
<1>1. CASE UNCHANGED platformVars
  BY <1>1 DEF platformVars
<1>2. ASSUME BridgeNext, OthersStand, part = "bridge"
      PROVE  PartsStep
  BY <1>2 DEF OthersStand
<1>3. ASSUME SftpNext, OthersStand, part = "sftp"
      PROVE  PartsStep
  BY <1>3 DEF OthersStand
<1>4. ASSUME DelNext, OthersStand, part = "deletion"
      PROVE  PartsStep
  BY <1>4 DEF OthersStand
<1>5. ASSUME MigNext, OthersStand, part = "migrations"
      PROVE  PartsStep
  BY <1>5 DEF OthersStand
<1>6. ASSUME OrderNext, OthersStand, part = "order"
      PROVE  PartsStep
  BY <1>6 DEF OthersStand
<1>7. ASSUME DispatchNext, OthersStand, part = "dispatch"
      PROVE  PartsStep
  BY <1>7 DEF OthersStand
<1>8. ASSUME SessionNext, OthersStand, part = "session"
      PROVE  PartsStep
  BY <1>8 DEF OthersStand
<1>9. ASSUME AccessNext, OthersStand, part = "access"
      PROVE  PartsStep
  BY <1>9 DEF OthersStand
<1>10. ASSUME PoolNext, OthersStand, part = "pools"
      PROVE  PartsStep
  BY <1>10 DEF OthersStand
<1>11. ASSUME RegistryNext, OthersStand, part = "registry"
      PROVE  PartsStep
  BY <1>11 DEF OthersStand
<1>12. ASSUME ReportNext, OthersStand, part = "reports"
      PROVE  PartsStep
  BY <1>12 DEF OthersStand
<1>13. ASSUME RiskNext, OthersStand, part = "risk"
      PROVE  PartsStep
  BY <1>13 DEF OthersStand
<1>14. ASSUME PanelNext, OthersStand, part = "panel"
      PROVE  PartsStep
  BY <1>14 DEF OthersStand
<1>15. ASSUME FormNext, OthersStand, part = "form"
      PROVE  PartsStep
  BY <1>15 DEF OthersStand
<1> HIDE DEF PartsStep
<1> QED
  BY <1>1, <1>2, <1>3, <1>4, <1>5, <1>6, <1>7, <1>8, <1>9, <1>10,
     <1>11, <1>12, <1>13, <1>14, <1>15 DEF PlatformNext

(* Each part begins in one of its initial states.                          *)
LEMMA PartsBegin ==
    PlatformInit => /\ BridgeInit
                    /\ SftpInit
                    /\ DelInit
                    /\ MigInit
                    /\ OrderInit
                    /\ DispatchInit
                    /\ SessionInit
                    /\ AccessInit
                    /\ PoolInit
                    /\ RegistryInit
                    /\ ReportInit
                    /\ RiskInit
                    /\ PanelInit
                    /\ FormInit
  BY DEF PlatformInit

(* Platform implements the specification of each of its parts, so that     *)
(* what is checked and proved of the parts is of the same behaviours.      *)
THEOREM PartsBehave ==
    PlatformSpec => /\ BridgeSpec
                    /\ SftpSpec
                    /\ DelSpec
                    /\ MigSpec
                    /\ OrderSpec
                    /\ DispatchSpec
                    /\ SessionSpec
                    /\ AccessSpec
                    /\ PoolSpec
                    /\ RegistrySpec
                    /\ ReportSpec
                    /\ RiskSpec
                    /\ PanelSpec
                    /\ FormSpec
  BY PartsBegin, PartsMove, PTL
  DEF PlatformSpec, PartsStep, BridgeSpec, SftpSpec, DelSpec, MigSpec, OrderSpec, DispatchSpec,
      SessionSpec, AccessSpec, PoolSpec, RegistrySpec, ReportSpec, RiskSpec, PanelSpec, FormSpec

(* The bridge and its log have their types.                                *)
LEMMA BridgeTypes == BridgeSpec => []BridgeTypeOK
<1>1. BridgeInv => BridgeTypeOK
  BY DEF BridgeInv
<1> QED
  BY <1>1, BridgeInitInv, BridgeStepInv, PTL DEF BridgeSpec

(* So have the requests and rows of an organisation that is deleted.       *)
LEMMA DeletionTypes == DelSpec => []DelTypeOK
<1>1. DelInv => DelTypeOK
  BY DEF DelInv
<1> QED
  BY <1>1, DelInitInv, DelStepInv, PTL DEF DelSpec

(* The safety properties of the parts.                                     *)
PlatformSafe ==
    /\ WatermarkWasLogged /\ ExportIsUsable /\ AppliedExactlyOnce /\ OrderKeepsStops
    /\ RunIsWhole /\ NobodyIsStranded /\ ServedInOwnOrg /\ PoolNamedOnce /\ FilesDoNotMix
    /\ ScreensAgree /\ CleanLogTellsTheForm /\ SnapshotIsWhole /\ TaggedRunIsPicked
    /\ SpotCheckStandsAlone

(* The part that runs has its types.                                       *)
LEMMA PlatformTypes == PlatformSpec => []PlatformTypeOK
<1>1. PlatformInit => part \in Parts
  BY DEF PlatformInit
<1>2. part \in Parts /\ [PlatformNext]_platformVars => (part \in Parts)'
  BY DEF PlatformNext, platformVars, OthersStand
<1>3. PlatformSpec => [](part \in Parts)
  BY <1>1, <1>2, PTL DEF PlatformSpec
<1>4. /\ part \in Parts /\ BridgeTypeOK /\ SftpTypeOK /\ DelTypeOK /\ MigTypeOK /\ OrderTypeOK
      /\ DispatchTypeOK /\ SessionTypeOK /\ AccessTypeOK /\ PoolTypeOK /\ RegistryTypeOK
      /\ ReportTypeOK /\ RiskTypeOK /\ PanelTypeOK /\ FormTypeOK
      => PlatformTypeOK
  BY DEF PlatformTypeOK
<1> QED
  BY <1>3, <1>4, PartsBehave, BridgeTypes, DeletionTypes, SftpCorrect, MigrationsCorrect,
     OrderCorrect, DispatchTypeCorrect, SessionCorrect, AccessCorrect, PoolsCorrect,
     RegistryCorrect, ReportsCorrect, RiskMapCorrect, PanelCorrect, FormCorrect, PTL

(* Everything TLC checks of Platform holds for any constants the parts     *)
(* allow; that a plan honours the overrides only while the bumps of a      *)
(* stop, which the code adds up without a bound, stay below what being     *)
(* forced in counts.                                                       *)
THEOREM PlatformCorrect ==
    PlatformSpec => /\ [](PlatformTypeOK /\ PlatformSafe)
                    /\ DeletionIsWhole
                    /\ PassesImprove
                    /\ []BumpsAreModest => PlanHonoursOverrides
  BY PlatformTypes, PartsBehave, WatermarkCorrect, SftpCorrect, MigrationsCorrect, OrderCorrect,
     RunCorrect, SessionCorrect, AccessCorrect, PoolsCorrect, RegistryCorrect, ReportsCorrect,
     RiskMapCorrect, PanelCorrect, FormCorrect, DeletionCorrect, PlanCorrect, PassesCorrect, PTL
  DEF PlatformSafe
=============================================================================
