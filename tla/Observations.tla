---------------------------- MODULE Observations ----------------------------
(***************************************************************************)
(* What a stop form becomes in core.observations: the rows it is split     *)
(* into (observationService.ts), the registry rule that normalises each    *)
(* (observationNormalizer.ts) and the sets the readers count them by       *)
(* (presenceTaxonomy.ts).  NULL is -1 in a number column and "null" in a   *)
(* text column.                                                            *)
(***************************************************************************)
EXTENDS Integers, Sequences

CONSTANT Rule     \* core.observation_type_registry of the org: type -> its rule

NULL == -1
NoRule == [field |-> "null"]

-----------------------------------------------------------------------------
(* The maps of the write path, and what the readers derive from them.      *)
ValuesOf(f) == {f[x] : x \in DOMAIN f}

SafetyAlias == [active_drug_use |-> "drug_use", traffic |-> "access_blocked"]

InfraAlias ==
    [glass_broken |-> "glass_damage", graffiti_excessive |-> "graffiti",
     receptacle_damaged |-> "receptacle_damage", panel_damaged |-> "shelter_panel_damage",
     lighting_out |-> "lighting_failure", landscaping_blocking |-> "landscape_obstruction",
     structure_damaged |-> "structural_damage", other_infra_issue |-> "other"]

SafetyHazardTypeMap ==
    [encampment |-> "encampment_present", fire |-> "fire_present",
     dangerous_activity |-> "dangerous_activity_present", drug_use |-> "drug_use_present",
     violence |-> "violence_present", biohazard |-> "biohazard_present",
     access_blocked |-> "access_blocked", other |-> "other_safety_concern_present"]

InfraIssueTypeMap ==
    [glass_damage |-> "glass_damage_present", graffiti |-> "graffiti_present",
     receptacle_damage |-> "receptacle_damage_present",
     shelter_panel_damage |-> "shelter_panel_damage_present",
     lighting_failure |-> "lighting_failure_present",
     landscape_obstruction |-> "access_obstructed_by_landscape",
     structural_damage |-> "structural_damage_present",
     contaminated_waste |-> "biohazard_present",
     other |-> "other_infrastructure_issue_present"]

Normalized(alias, key) == IF key \in DOMAIN alias THEN alias[key] ELSE key

TypeOf(map, alias, key, other) ==
    LET norm == Normalized(alias, key)
    IN  IF norm \in DOMAIN map THEN map[norm] ELSE other

MapSafetyHazard(key) ==
    TypeOf(SafetyHazardTypeMap, SafetyAlias, key, "other_safety_concern_present")
MapInfraIssue(key) ==
    TypeOf(InfraIssueTypeMap, InfraAlias, key, "other_infrastructure_issue_present")

SafetyPresenceTypes == ValuesOf(SafetyHazardTypeMap)
InfraPresenceTypes == ValuesOf(InfraIssueTypeMap) \ SafetyPresenceTypes

CleanActionKeys == {"picked_up_litter", "emptied_trash", "washed_shelter",
                    "washed_pad", "washed_can"}

-----------------------------------------------------------------------------
(* The rows of a form, in the order they are written.  A form has its      *)
(* hazards and issues as lists of keys, its cleaning actions as a set, and *)
(* a severity and a trash volume that may be missing.                      *)
StopUiPayload == [hazards : Seq(STRING), severity : Int, acts : SUBSET CleanActionKeys,
                  volume : Int, issues : Seq(STRING), spot : BOOLEAN]

Numbered(field, n) == IF n = NULL THEN <<>> ELSE [f \in {field} |-> n]

Done(ui, key) == IF key \in ui.acts THEN <<[type |-> key, payload |-> <<>>]>> ELSE <<>>

SubmitObservations(ui) ==
    LET hazards == [k \in DOMAIN ui.hazards |->
                        [type |-> MapSafetyHazard(ui.hazards[k]),
                         payload |-> Numbered("severity", ui.severity)]]
        actions == Done(ui, "picked_up_litter") \o Done(ui, "emptied_trash")
                     \o Done(ui, "washed_shelter") \o Done(ui, "washed_pad")
                     \o Done(ui, "washed_can")
        volume == IF ui.volume = NULL THEN <<>>
                  ELSE <<[type |-> "trash_volume", payload |-> Numbered("level", ui.volume)]>>
        issues == [k \in DOMAIN ui.issues |->
                        [type |-> MapInfraIssue(ui.issues[k]), payload |-> <<>>]]
    IN  hazards \o actions \o volume \o issues

-----------------------------------------------------------------------------
(* The normaliser: a type without a rule is written with every derived     *)
(* column NULL.                                                            *)
EvaluateOkRule(rule, payload) ==
    IF rule.field \notin DOMAIN payload THEN "null"
    ELSE LET value == payload[rule.field]
             holds == CASE rule.op = "eq"  -> value = rule.bound
                        [] rule.op = "lte" -> value <= rule.bound
                        [] rule.op = "gte" -> value >= rule.bound
         IN  IF holds THEN "ok" ELSE "not_ok"

SmallInt(n) == IF n < -32768 THEN -32768 ELSE IF n > 32767 THEN 32767 ELSE n

EvaluateSeverityMap(map, payload) ==
    IF map.field \in DOMAIN payload THEN SmallInt(payload[map.field]) ELSE NULL

EmptyNormalized == [kind |-> "null", status |-> "null", severity |-> NULL,
                    intervention |-> "null"]

NormalizeOnlyPayloads(type, payload) ==
    IF type \notin DOMAIN Rule \/ payload = <<>> THEN EmptyNormalized
    ELSE [kind |-> Rule[type].kind, status |-> "null",
          severity |-> EvaluateSeverityMap(Rule[type].severity, payload),
          intervention |-> IF Rule[type].kind = "action" THEN type ELSE "null"]

NormalizeObservation(type, payload) ==
    IF type \notin DOMAIN Rule THEN EmptyNormalized
    ELSE LET rule == Rule[type]
         IN  [kind |-> rule.kind,
              status |-> IF rule.kind \in {"condition", "measurement"} /\ rule.ok # NoRule
                         THEN EvaluateOkRule(rule.ok, payload) ELSE "null",
              severity |-> EvaluateSeverityMap(rule.severity, payload),
              intervention |-> IF rule.kind = "action" THEN type ELSE "null"]

AsWritten(type, payload, day) ==
    LET n == NormalizeObservation(type, payload)
    IN  [type |-> type, day |-> day, kind |-> n.kind, status |-> n.status,
         severity |-> n.severity, intervention |-> n.intervention]

(* insertObservations, and emitSpotCheckObservation before it.             *)
InsertObservations(ui, day) ==
    LET obs == SubmitObservations(ui)
    IN  [k \in DOMAIN obs |-> AsWritten(obs[k].type, obs[k].payload, day)]

EmitSpotCheck(day) == <<AsWritten("spot_check", <<>>, day)>>
=============================================================================
