------------------------------ MODULE Platform ------------------------------
(***************************************************************************)
(* The parts of the system around the work on a stop: its form, the office *)
(* and its administration, route creation, the session, the jobs, the      *)
(* export and deletion of an organisation.  None of them reads, between    *)
(* two of its own steps, what another of them writes there, so a behaviour *)
(* lets one run while the others stand in their initial states: all are    *)
(* checked together without the product of their states, which no property *)
(* speaks about.                                                           *)
(***************************************************************************)
EXTENDS EamBridge, SftpExport, OrgDeletion, Migrations, RouteOrder, Dispatch,
        Session, Access, PoolAdmin, Registry, Reports, RiskMap,
        RoutePanel, StopForm

VARIABLE part    \* the part that runs

platformVars == <<part, bridgeVars, sftpVars, delVars, migVars,
                  orderVars, dispatchVars, sessionVars, accessVars,
                  poolVars, registryVars, reportVars, riskVars, panelVars,
                  formVars>>

Parts == {"bridge", "sftp", "deletion", "migrations",
          "order", "dispatch", "session", "access",
          "pools", "registry", "reports", "risk", "panel", "form"}

OthersStand ==   \* all the other parts stand still
    /\ IF part = "bridge" THEN TRUE ELSE UNCHANGED bridgeVars
    /\ IF part = "sftp" THEN TRUE ELSE UNCHANGED sftpVars
    /\ IF part = "deletion" THEN TRUE ELSE UNCHANGED delVars
    /\ IF part = "migrations" THEN TRUE ELSE UNCHANGED migVars
    /\ IF part = "order" THEN TRUE ELSE UNCHANGED orderVars
    /\ IF part = "dispatch" THEN TRUE ELSE UNCHANGED dispatchVars
    /\ IF part = "session" THEN TRUE ELSE UNCHANGED sessionVars
    /\ IF part = "access" THEN TRUE ELSE UNCHANGED accessVars
    /\ IF part = "pools" THEN TRUE ELSE UNCHANGED poolVars
    /\ IF part = "registry" THEN TRUE ELSE UNCHANGED registryVars
    /\ IF part = "reports" THEN TRUE ELSE UNCHANGED reportVars
    /\ IF part = "risk" THEN TRUE ELSE UNCHANGED riskVars
    /\ IF part = "panel" THEN TRUE ELSE UNCHANGED panelVars
    /\ IF part = "form" THEN TRUE ELSE UNCHANGED formVars
    /\ UNCHANGED part

PlatformTypeOK ==
    /\ part \in Parts
    /\ part = "bridge" => BridgeTypeOK
    /\ part = "sftp" => SftpTypeOK
    /\ part = "deletion" => DelTypeOK
    /\ part = "migrations" => MigTypeOK
    /\ part = "order" => OrderTypeOK
    /\ part = "dispatch" => DispatchTypeOK
    /\ part = "session" => SessionTypeOK
    /\ part = "access" => AccessTypeOK
    /\ part = "pools" => PoolTypeOK
    /\ part = "registry" => RegistryTypeOK
    /\ part = "reports" => ReportTypeOK
    /\ part = "risk" => RiskTypeOK
    /\ part = "panel" => PanelTypeOK
    /\ part = "form" => FormTypeOK

(* A part that stands still does so in one of its initial states.          *)
PlatformInit ==
    /\ part \in Parts
    /\ BridgeInit /\ DelInit /\ PoolInit /\ RegistryInit /\ ReportInit /\ RiskInit
    /\ PanelInit /\ FormInit
    /\ SftpInit     /\ (part # "sftp" => uploads)
    /\ MigInit      /\ (part # "migrations" => history = CHOOSE h \in History : TRUE)
    /\ OrderInit    /\ (part # "order" => survey = CHOOSE s \in Survey : TRUE)
    /\ DispatchInit /\ (part # "dispatch" => /\ risk = CHOOSE r \in Risks : TRUE
                                             /\ overrides = CHOOSE o \in Overrides : TRUE)
    /\ SessionInit  /\ (part # "session" => account = NoAccount)
    /\ AccessInit   /\ (part # "access" => deployment = CHOOSE d \in Deployment : TRUE)

PlatformNext ==
    \/ part = "bridge" /\ BridgeNext /\ OthersStand
    \/ part = "sftp" /\ SftpNext /\ OthersStand
    \/ part = "deletion" /\ DelNext /\ OthersStand
    \/ part = "migrations" /\ MigNext /\ OthersStand
    \/ part = "order" /\ OrderNext /\ OthersStand
    \/ part = "dispatch" /\ DispatchNext /\ OthersStand
    \/ part = "session" /\ SessionNext /\ OthersStand
    \/ part = "access" /\ AccessNext /\ OthersStand
    \/ part = "pools" /\ PoolNext /\ OthersStand
    \/ part = "registry" /\ RegistryNext /\ OthersStand
    \/ part = "reports" /\ ReportNext /\ OthersStand
    \/ part = "risk" /\ RiskNext /\ OthersStand
    \/ part = "panel" /\ PanelNext /\ OthersStand
    \/ part = "form" /\ FormNext /\ OthersStand

PlatformSpec == PlatformInit /\ [][PlatformNext]_platformVars
=============================================================================
