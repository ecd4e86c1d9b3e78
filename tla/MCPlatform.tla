------------------------------ MODULE MCPlatform ------------------------------
(***************************************************************************)
(* The instance of Platform that TLC checks; each constant is chosen so    *)
(* that the cases its part's properties are about can happen.              *)
(***************************************************************************)
EXTENDS Platform, TLC

CONSTANTS o1, o2, stranger, noOrg, noChoice

(* EamBridge, OrgDeletion: two organisations; of the one whose rows are    *)
(* deleted, a visit and its evidence are there and another pair may come.  *)
MCRunOrg == CHOOSE f \in [BridgeRun -> BridgeOrg] :
                \A o \in BridgeOrg : \E r \in BridgeRun : f[r] = o

RowOf(o, t, v) == [org |-> o, table |-> t, visit |-> v]
MCFirstRows == {RowOf("a", "visits", 1), RowOf("a", "evidence", 1), RowOf("b", "visits", 3)}
MCRow == MCFirstRows \union {RowOf("a", "visits", 2), RowOf("a", "evidence", 2),
                             RowOf("a", "audit_log", 0)}

(* RouteOrder: four stops that double back, on corridors or on none.       *)
Kinds == {<<"", "">>, <<"A", "WEST">>, <<"B", "SW">>}
Xs == <<0, 2, 1, 3, 1>>
Ys == <<0, 0, 3, 0, 1>>
Apart(x, y) == IF x < y THEN y - x ELSE x - y
MCSurvey ==
    {[lon |-> [s \in 0..4 |-> Xs[s + 1]], lat |-> [s \in 0..4 |-> Ys[s + 1]],
      street |-> [s \in 1..4 |-> k[s][1]], bearing |-> [s \in 1..4 |-> k[s][2]],
      leg |-> [p \in (0..4) \X (0..4) |->
                  2 * Apart(Xs[p[1] + 1], Xs[p[2] + 1]) + Apart(Ys[p[1] + 1], Ys[p[2] + 1])
                    + (IF p[1] > p[2] THEN 1 ELSE 0)]] : k \in [1..4 -> Kinds]}

(* Dispatch: more pool stops than a run takes, and overrides that agree,   *)
(* that conflict, that exceed the limit and that bump past the bonus.      *)
MCPoolStop == {"a", "b", "c"}
MCRisks == {[a |-> 0, b |-> 1, c |-> 2]}
Override(s, t, v) == [stop |-> s, type |-> t, value |-> v]
Include(s) == Override(s, "FORCE_INCLUDE", 0)
Exclude(s) == Override(s, "FORCE_EXCLUDE", 0)
MCOverrides == {{Include("a")},
                {Include("a"), Exclude("a"), Override("b", "PRIORITY_BUMP", 3)},
                {Include("a"), Include("b"), Include("c")},
                {Include("a"), Exclude("c"), Override("b", "PRIORITY_BUMP", 9)}}

(* RoutePanel: a pool with a base of its own and one without.              *)
MCPoolBase == [p1 |-> "b1", p2 |-> noChoice]

(* Access: a good token of the home organisation, one of a stranger, one   *)
(* of another tenant, one of the old issuer; a production and a            *)
(* development deployment, both with the bypass asked for.                 *)
Says(v2, tid, roles, groups) ==
    [verified |-> TRUE, v2 |-> v2, oid |-> TRUE, tid |-> tid, roles |-> roles,
     groups |-> groups]
MCToken == {Says(TRUE, o1, {"something else"}, {"Admin"}),
            Says(TRUE, stranger, {"Dispatch"}, {}),
            Says(TRUE, o2, {"UL"}, {}),
            Says(FALSE, o2, {"Admin"}, {})}
MCDeployment == {[production |-> TRUE, bypass |-> TRUE, provisioned |-> {o1, o2}],
                 [production |-> FALSE, bypass |-> TRUE, provisioned |-> {o1}]}

(* Registry: files that share rows in another order, and one that is bad.  *)
MCCsvFile == {<<"a", "b">>, <<"b", "c", "a">>, <<"">>}
MCBadCsv == <<"">>
MCForm == {<<"k", "l">>, <<"l", "k">>}

(* Reports: one run of two stops and a second of one of them; forms with   *)
(* aliases, an out-of-range answer and nothing wrong at all.               *)
Presence == [kind |-> "presence", ok |-> NoRule, severity |-> [field |-> "severity"]]
Act == [kind |-> "action", ok |-> NoRule, severity |-> NoRule]
MCRule ==
   [t \in SafetyPresenceTypes \union InfraPresenceTypes |-> Presence]
   @@ [t \in {"picked_up_litter", "emptied_trash", "washed_shelter", "washed_pad",
              "washed_can"} |-> Act]
   @@ ("trash_volume" :> [kind |-> "measurement",
                          ok |-> [field |-> "level", op |-> "lte", bound |-> 1],
                          severity |-> [field |-> "level"]])
   @@ ("spot_check" :> [kind |-> "condition", ok |-> NoRule, severity |-> NoRule])
Answers(h, sev, a, v, i, s) ==
    [hazards |-> h, severity |-> sev, acts |-> a, volume |-> v, issues |-> i, spot |-> s]
MCCompleteForm ==
    {Answers(<<"traffic", "access_blocked">>, 3, {"washed_pad"}, 2,
             <<"contaminated_waste", "glass_broken">>, TRUE),
     Answers(<<>>, -1, {"washed_pad", "emptied_trash"}, 0, <<>>, FALSE)}
MCSkipForm == {Answers(<<"fire">>, 2, {}, -1, <<>>, FALSE)}
MCItem == {"r1a", "r1b", "r2a"}
MCItemRun == [r1a |-> "r1", r1b |-> "r1", r2a |-> "r2"]
MCItemStop == [r1a |-> "a", r1b |-> "b", r2a |-> "a"]

(* RiskMap: a stop without a sign, and one whose scores do not fit.        *)
Sign(l, t, d, sev, n) ==
    [l3 |-> l, trash |-> t, hazardDays |-> d, severity |-> sev, issues |-> n]
MCFirstSigns == Sign(-1, -1, -1, -1, 0)
MCSigns == {MCFirstSigns, Sign(0, 4, 1, 40, 7)}
MCOrgOfStop == [a |-> "o1", b |-> "o1", c |-> "o2"]
=============================================================================
