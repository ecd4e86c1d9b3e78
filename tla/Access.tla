-------------------------------- MODULE Access --------------------------------
(***************************************************************************)
(* Who a request is served as, and in which organisation: authentication,  *)
(* roles, the resolution of the org and the session variable that scopes a *)
(* pooled connection to it (authz.ts, devAuthBypass.ts, resolveOrgId.ts,   *)
(* db.ts, auditLog.ts), with the handlers that manage a connection         *)
(* themselves (controlCenterRoutes.ts).  What a handler does with its      *)
(* connection is left to the other modules.                                *)
(***************************************************************************)
EXTENDS FiniteSets

CONSTANTS Org,        \* organisations that can exist, with a tenant each
          Stranger,   \* a tenant without an organisation
          NoOrg,
          Home,       \* AZURE_TENANT_ID: the tenant tokens are checked for
          Token,      \* what the tokens sent say, see Claims
          Deployment, \* deployments: the environment and the organisations
          Caller,     \* requests served at one time
          DevRole,    \* roles the development headers name
          Socket      \* connections of the pool

Role == {"Admin", "Lead", "UL", "Dispatch", "Specialist"}

Claims == [verified : BOOLEAN,        \* signed, current, an accepted aud and iss
           v2 : BOOLEAN,              \* the v2.0 issuer
           oid : BOOLEAN,
           tid : Org \union {Stranger, NoOrg},
           roles : SUBSET (Role \union {"something else"}),
           groups : SUBSET Role]      \* groups configured to stand for a role

ASSUME AccessAssumption ==
    /\ Token \subseteq Claims
    /\ Deployment \subseteq [production : BOOLEAN,          \* NODE_ENV
                             bypass : BOOLEAN,              \* DEV_AUTH_BYPASS
                             provisioned : SUBSET Org]      \* rows of organizations
    /\ NoOrg \notin Org /\ Stranger \notin Org \union {NoOrg}
    /\ Home \in Org \union {Stranger}
    /\ "nobody" \notin Caller             \* who holds a free connection

VARIABLES deployment,
          caller,      \* the requests
          conn,        \* the pooled connections: holder and app.current_org_id
          owedAudit    \* tenants whose audit rows are still to be written

accessVars == <<deployment, caller, conn, owedAudit>>

(* The kinds of handler, by how they get their org and their connection.   *)
Kind == {"wrapped", "manual", "overview", "tenant", "bare"}
Required == [wrapped |-> {"UL", "Specialist"}, manual |-> {"Dispatch", "Admin"},
             overview |-> {"Dispatch", "Admin"}, tenant |-> {"Admin"},
             bare |-> {"Dispatch", "Admin"}]

Unset == [stage |-> "idle", token |-> CHOOSE t \in Token : TRUE, dev |-> FALSE, asked |-> NoOrg,
          kind |-> "wrapped", devRole |-> "Admin", roles |-> {}, tid |-> NoOrg, org |-> NoOrg]
Unheld == "nobody"

AccessTypeOK ==
    /\ deployment \in Deployment
    /\ \A r \in Caller :
         /\ caller[r].stage \in {"idle", "arrived", "allowed", "resolved",
                                 "connected", "scoped"}
         /\ caller[r].kind \in Kind
         /\ caller[r].roles \subseteq Role \union DevRole
         /\ {caller[r].org, caller[r].asked} \subseteq Org \union {NoOrg}
    /\ conn \in [Socket -> [holder : Caller \union {Unheld}, ctx : Org \union {NoOrg}]]
    /\ owedAudit \subseteq Org \union {Stranger}

AccessInit == /\ deployment \in Deployment
              /\ caller = [r \in Caller |-> Unset]
              /\ conn = [c \in Socket |-> [holder |-> Unheld, ctx |-> NoOrg]]
              /\ owedAudit = {}

-----------------------------------------------------------------------------
Goes(r, stage) == caller' = [caller EXCEPT ![r].stage = stage]
Ends(r) == caller' = [caller EXCEPT ![r] = Unset]
Free(c) == conn[c].holder = Unheld
SomeFree == \E c \in Socket : Free(c)

(* A request arrives, with a token or without, and with the headers of the *)
(* development bypass or without.                                          *)
Arrive(r) ==
    /\ caller[r].stage = "idle"
    /\ \E t \in Token, k \in Kind, dev \in BOOLEAN, o \in Org \union {NoOrg}, role \in DevRole :
         /\ dev => t = Unset.token     \* one is enough to see it ignored
         /\ o # NoOrg <=> dev \/ k = "tenant"
         /\ dev \/ role = "Admin"
         /\ caller' = [caller EXCEPT ![r] = [Unset EXCEPT !.stage = "arrived", !.token = t,
                          !.kind = k, !.asked = o, !.dev = dev, !.devRole = role]]
    /\ UNCHANGED <<deployment, conn, owedAudit>>

(* requireAnyRole: one of the listed roles, or Admin.  It runs in the same *)
(* turn as the authentication before it, and so does the write of the      *)
(* caller to the request.                                                  *)
RequireAnyRole(r, roles, tid, org) ==
    \/ /\ roles \intersect (Required[caller[r].kind] \union {"Admin"}) # {}
       /\ caller' = [caller EXCEPT ![r].stage = "allowed", ![r].roles = roles,
                                   ![r].tid = tid, ![r].org = org]
    \/ /\ roles \intersect (Required[caller[r].kind] \union {"Admin"}) = {}
       /\ Ends(r)

(* createDevAuthBypass: the handler is there outside production only, and  *)
(* only when switched on.                                                  *)
BypassByFlag == deployment.bypass
BypassActive == ~deployment.production /\ deployment.bypass

(* Its user carries an org id and the null tenant; req.user is then set.   *)
DevBypass(r) ==
    /\ caller[r].stage = "arrived"
    /\ BypassActive /\ caller[r].dev
    /\ RequireAnyRole(r, {caller[r].devRole}, Stranger, caller[r].asked)
    /\ owedAudit' = owedAudit \union {caller[r].asked}
    /\ UNCHANGED <<deployment, conn>>

(* assertClaims: of the accepted issuers only one is enough, and an oid.   *)
ClaimsHold(t) == t.v2 /\ t.oid

(* extractRolesFromClaims.                                                 *)
RolesAsClaimed(t) == t.roles \union (t.groups \intersect {"Admin", "Lead", "UL"})

RolesOf(t) == (t.roles \intersect Role)
                \union (t.groups \intersect {"Admin", "Lead", "UL"})

(* requireAuth for a token; a failed check leaves an audit row for Home,   *)
(* a success one for the tenant of the token.                              *)
RequireAuth(r) ==
    LET t == caller[r].token IN
    /\ caller[r].stage = "arrived"
    /\ ~(BypassActive /\ caller[r].dev)
    /\ \/ /\ ~t.verified \/ ~ClaimsHold(t)
          /\ Ends(r)
          /\ owedAudit' = owedAudit \union {Home}
       \/ /\ t.verified /\ ClaimsHold(t)
          /\ RequireAnyRole(r, RolesOf(t), t.tid, NoOrg)
          /\ owedAudit' = owedAudit \union {IF t.tid = NoOrg THEN Home ELSE t.tid}
    /\ UNCHANGED <<deployment, conn>>

(* A request without a bearer token: 401, and no audit row.                *)
MissingToken(r) ==
    /\ caller[r].stage = "arrived"
    /\ ~(BypassActive /\ caller[r].dev)
    /\ Ends(r)
    /\ UNCHANGED <<deployment, conn, owedAudit>>

(* resolveNumericOrgId: what the bypass set, or the org whose tenant_uuid  *)
(* is the token's, or a refusal; never another org.                        *)
OrgOf(r) == IF caller[r].org # NoOrg THEN caller[r].org
            ELSE IF caller[r].tid \in deployment.provisioned THEN caller[r].tid ELSE NoOrg

(* It takes a connection of the pool for one query, unless the bypass has  *)
(* named the org.  The tenant routes take the org from the request.        *)
ResolveOrg(r) ==
    /\ caller[r].stage = IF caller[r].kind = "overview" THEN "connected" ELSE "allowed"
    /\ caller[r].kind \notin {"tenant", "bare"}
    /\ caller[r].org # NoOrg \/ SomeFree
    /\ \/ /\ OrgOf(r) # NoOrg
          /\ caller' = [caller EXCEPT ![r].stage = "resolved", ![r].org = OrgOf(r)]
          /\ UNCHANGED conn
       \/ /\ OrgOf(r) = NoOrg
          /\ Ends(r)
          /\ conn' = [c \in Socket |-> IF conn[c].holder = r
                                          THEN [conn[c] EXCEPT !.holder = Unheld] ELSE conn[c]]
    /\ UNCHANGED <<deployment, owedAudit>>

TenantOrg(r) ==
    /\ caller[r].stage = "allowed"
    /\ caller[r].kind = "tenant"
    /\ caller' = [caller EXCEPT ![r].stage = "resolved", ![r].org = caller[r].asked]
    /\ UNCHANGED <<deployment, conn, owedAudit>>

(* GET /overview checks a connection out before it knows the org.          *)
OverviewConnects(r) ==
    /\ caller[r].stage = "allowed"
    /\ caller[r].kind = "overview"
    /\ \E c \in Socket : Free(c) /\ conn' = [conn EXCEPT ![c].holder = r]
    /\ Goes(r, "connected")
    /\ UNCHANGED <<deployment, owedAudit>>

(* The override routes query the pool itself: one statement, on whichever  *)
(* connection is free, in whatever context that one carries, mostly none.  *)
BareQuery(r) ==
    /\ caller[r].stage = "allowed"
    /\ caller[r].kind = "bare"
    /\ SomeFree
    /\ Ends(r)
    /\ UNCHANGED <<deployment, conn, owedAudit>>

(* runWithOrgContext, up to the callback, and what the handlers that check *)
(* a connection out themselves do.                                         *)
WithOrgContext(r) ==
    /\ caller[r].stage = "resolved"
    /\ \E c \in Socket :
         /\ conn[c].holder = IF caller[r].kind = "overview" THEN r ELSE Unheld
         /\ conn' = [conn EXCEPT ![c] = [holder |-> r, ctx |-> caller[r].org]]
    /\ Goes(r, "scoped")
    /\ UNCHANGED <<deployment, owedAudit>>

(* The finally of runWithOrgContext and of the manual handlers: every      *)
(* caller has rolled back before, so the reset is accepted.                *)
ResetAndRelease(r) ==
    /\ caller[r].stage = "scoped"
    /\ caller[r].kind # "overview"
    /\ conn' = [c \in Socket |-> IF conn[c].holder = r THEN [holder |-> Unheld, ctx |-> NoOrg]
                                  ELSE conn[c]]
    /\ Ends(r)
    /\ UNCHANGED <<deployment, owedAudit>>

(* The finally of GET /overview.                                           *)
OverviewReleases(r) ==
    /\ caller[r].stage = "scoped"
    /\ caller[r].kind = "overview"
    /\ conn' = [c \in Socket |-> IF conn[c].holder = r
                                    THEN [conn[c] EXCEPT !.holder = Unheld] ELSE conn[c]]
    /\ Ends(r)
    /\ UNCHANGED <<deployment, owedAudit>>

(* writeAuditLog and upsertIdentity, in the background: the org of the    *)
(* tenant is looked up, the rows are refused without one, inserted under   *)
(* its context otherwise, and the context is reset.                        *)
WriteAuditLog ==
    /\ \E t \in owedAudit, c \in Socket :
         /\ Free(c)
         /\ owedAudit' = owedAudit \ {t}
         /\ conn' = IF t \in deployment.provisioned THEN [conn EXCEPT ![c].ctx = NoOrg] ELSE conn
    /\ UNCHANGED <<deployment, caller>>

AccessNext ==
    \/ WriteAuditLog
    \/ \E r \in Caller :
         \/ Arrive(r) \/ DevBypass(r) \/ RequireAuth(r) \/ MissingToken(r)
         \/ ResolveOrg(r) \/ TenantOrg(r) \/ OverviewConnects(r) \/ BareQuery(r)
         \/ WithOrgContext(r) \/ ResetAndRelease(r) \/ OverviewReleases(r)

AccessSpec == AccessInit /\ [][AccessNext]_accessVars

-----------------------------------------------------------------------------
(* Whatever runs on a connection runs in the org of whoever asked, with a  *)
(* role the token gives: the org of a token of our tenant's v2 issuer, or  *)
(* the one a development header names where development is allowed.  What  *)
(* a connection was used for before, and who else is being served, makes   *)
(* no difference (db.ts:29-47, resolveOrgId.ts:40-61, authz.ts:183-252).   *)
ServedInOwnOrg ==
    \A r \in Caller, c \in Socket :
        LET q == caller[r]
            dev == ~deployment.production /\ deployment.bypass /\ q.dev
        IN
        q.stage = "scoped" /\ conn[c].holder = r =>
            /\ dev \/ (q.token.verified /\ q.token.v2 /\ q.token.oid)
            /\ q.kind # "tenant" => conn[c].ctx = IF dev THEN q.asked ELSE q.token.tid
            /\ dev \/ (q.token.roles \union q.token.groups)
                        \intersect (Required[q.kind] \union {"Admin"}) # {}
=============================================================================
