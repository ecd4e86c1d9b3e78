---------------------------- MODULE OfficeProofs ----------------------------
(***************************************************************************)
(* Theorems about sessions, requests and the administration: for any       *)
(* accounts, callers, tokens, connections, deployments, editors, pools,    *)
(* seeders, files and forms at once, nobody is stranded, everybody is      *)
(* served in the organisation of their own token, what is stored twice     *)
(* agrees, and what is done all at once is all there.                      *)
(***************************************************************************)
EXTENDS Session, Access, PoolAdmin, Registry, StopForm, TLAPS

-----------------------------------------------------------------------------
(* Session.                                                                *)

(* Who waits, waits for a call of the same account that is acquiring; the  *)
(* slot names one that is acquiring; only who waits names another call.    *)
SharingOK ==
    /\ \A p \in Ping : IF ping[p].at = "waiting"
                       THEN /\ ping[p].on \in Ping
                            /\ ping[ping[p].on].at = "acquiring"
                            /\ ping[ping[p].on].as = ping[p].as
                       ELSE ping[p].on = "itself"
    /\ inflight \in Ping => ping[inflight].at = "acquiring"

(* What keeps an attempt coming: while isLoading is set a call is under    *)
(* way, and while it is not, a missing identity has the effect due or the  *)
(* timer armed.                                                            *)
AttemptAhead ==
    /\ loading => \E p \in Ping : Busy(p)
    /\ account # NoAccount /\ me = NoAccount /\ ~loading => due \/ timer

(* The invariant of the session: its two halves, and types.                *)
SessionInv == SessionTypeOK /\ SharingOK /\ AttemptAhead

(* No call is under way.                                                   *)
LEMMA IdleCall == Nothing \in Calls
  BY DEF Nothing, Calls, AnyAccount

(* Whoever is signed in to begin with has the effect due.                  *)
LEMMA SessionInitInv == SessionInit => SessionInv
<1> SUFFICES ASSUME SessionInit
             PROVE  SessionInv
  OBVIOUS
<1>1. ping \in [Ping -> Calls]
  BY IdleCall DEF SessionInit
<1>4. loading \in BOOLEAN /\ timer \in BOOLEAN /\ due \in BOOLEAN
  BY DEF SessionInit
<1>2. SessionTypeOK
  BY <1>1, <1>4, SessionAssumption DEF SessionInit, SessionTypeOK, AnyAccount
<1>3. SharingOK
  BY SessionAssumption DEF SessionInit, SharingOK, Nothing
<1> QED
  BY <1>2, <1>3 DEF SessionInit, SessionInv, AttemptAhead

(* A call that begins joins an acquisition for its own account, becomes    *)
(* one, or is bound to fail; in every case it is under way.                *)
LEMMA BeginsShared ==
    ASSUME SessionTypeOK, SharingOK, NEW p \in Ping, StartFetchMe(p)
    PROVE  /\ ping' \in [Ping -> Calls]
           /\ inflight' \in Ping \union {"none"}
           /\ SharingOK'
           /\ Busy(p)'
<1> USE SessionAssumption
<1>1. /\ Current \in AnyAccount
      /\ inflight \in Ping \union {"none"}
      /\ ping \in [Ping -> Calls]
      /\ ping[p].at = "idle"
  BY DEF SessionTypeOK, Current, AnyAccount, StartFetchMe, Busy
<1>2. \A q \in Ping : ping[q].at = "waiting" => ping[q].on # p
  BY <1>1 DEF SharingOK
<1>3. CASE ping' = [ping EXCEPT ![p] = [Nothing EXCEPT !.at = "asking"]] /\ UNCHANGED inflight
  BY <1>1, <1>2, <1>3 DEF SharingOK, Nothing, Calls, AnyAccount, Busy
<1>4. CASE /\ Shares(Current)
           /\ ping' = [ping EXCEPT ![p] = [at |-> "waiting", as |-> Current, on |-> inflight]]
           /\ UNCHANGED inflight
  BY <1>1, <1>2, <1>4 DEF SharingOK, Shares, Calls, Busy
<1>5. CASE /\ ping' = [ping EXCEPT ![p] = [at |-> "acquiring", as |-> Current, on |-> "itself"]]
           /\ inflight' = p
  BY <1>1, <1>2, <1>5 DEF SharingOK, Calls, Busy
<1> QED
  BY <1>3, <1>4, <1>5 DEF StartFetchMe

(* Failures are counted up to their bound.                                 *)
LEMMA FailsCounted ==
    ASSUME fails \in 0..MaxFails, Failed
    PROVE  fails' \in 0..MaxFails
<1>1. MaxFails \in Nat
  BY SessionAssumption
<1> QED
  BY <1>1 DEF Failed

(* A call that ends lets those that wait for it end as well, and leaves an *)
(* effect or a timer behind if it left the identity missing.               *)
LEMMA SessionStepInv == SessionInv /\ [SessionNext]_sessionVars => SessionInv'
<1> SUFFICES ASSUME SessionInv, [SessionNext]_sessionVars
             PROVE  SessionInv'
  OBVIOUS
<1> USE SessionAssumption
<1>0. SessionTypeOK /\ SharingOK /\ AttemptAhead
  BY DEF SessionInv
<1>1. CASE Effect
  <2>1. CASE UNCHANGED <<loading, ping, inflight>>
    BY <1>0, <1>1, <2>1
    DEF Effect, SessionInv, SessionTypeOK, SharingOK, AttemptAhead, Busy
  <2>2. ASSUME NEW p \in Ping, StartFetchMe(p), loading' = TRUE, due' = TRUE, timer' = FALSE
        PROVE  SessionInv'
    BY <1>0, <1>1, <2>2, BeginsShared DEF Effect, SessionInv, SessionTypeOK, AttemptAhead
  <2> QED
    BY <1>1, <2>1, <2>2 DEF Effect
<1>2. CASE TimerFires
  <2>1. PICK p \in Ping : StartFetchMe(p)
    BY <1>2 DEF TimerFires
  <2> QED
    BY <1>0, <1>2, <2>1, BeginsShared DEF TimerFires, SessionInv, SessionTypeOK, AttemptAhead
<1>3. CASE RefreshMe
  <2>1. PICK p \in Ping : StartFetchMe(p)
    BY <1>3 DEF RefreshMe
  <2> QED
    BY <1>0, <1>3, <2>1, BeginsShared DEF RefreshMe, SessionInv, SessionTypeOK, AttemptAhead
<1>4. CASE SignOut
  BY <1>0, <1>4
  DEF SignOut, SessionInv, SessionTypeOK, SharingOK, AttemptAhead, AnyAccount, Busy
<1>5. CASE LogoutEnds
  BY <1>0, <1>5
  DEF LogoutEnds, SessionInv, SessionTypeOK, SharingOK, AttemptAhead, AnyAccount, Busy
<1>6. ASSUME NEW a \in Account, LoginEnds(a)
      PROVE  SessionInv'
  BY <1>0, <1>6
  DEF LoginEnds, SessionInv, SessionTypeOK, SharingOK, AttemptAhead, AnyAccount, Busy
<1>7. ASSUME NEW p \in Ping, Acquired(p)
      PROVE  SessionInv'
  <2>1. PICK a \in Account :
          /\ active' \in {active, a}
          /\ ping' = [q \in Ping |-> IF q = p \/ ping[q].on = p
                                       THEN [at |-> "asking", as |-> a, on |-> "itself"]
                                       ELSE ping[q]]
    BY <1>7 DEF Acquired
  <2>2. /\ inflight' \in Ping \union {"none"}
        /\ inflight' # p
        /\ inflight' \in {inflight, "none"}
    BY <1>0, <1>7 DEF Acquired, Released, SessionTypeOK
  <2>6. [at |-> "asking", as |-> a, on |-> "itself"] \in Calls
    BY DEF Calls, AnyAccount
  <2>7. ping' \in [Ping -> Calls]
    BY <1>0, <2>1, <2>6 DEF SessionTypeOK
  <2>3. SessionTypeOK'
    BY <1>0, <1>7, <2>1, <2>2, <2>7 DEF Acquired, SessionTypeOK, AnyAccount
  <2>4. SharingOK'
    BY <1>0, <1>7, <2>1, <2>2 DEF Acquired, SessionTypeOK, SharingOK
  <2>5. AttemptAhead'
    BY <1>0, <1>7, <2>1 DEF Acquired, AttemptAhead, Busy
  <2> QED
    BY <2>3, <2>4, <2>5 DEF SessionInv
<1>8. ASSUME Failed, UNCHANGED <<account, active, timer, click>>
      PROVE  /\ AttemptAhead'
             /\ loading' \in BOOLEAN /\ timer' \in BOOLEAN /\ due' \in BOOLEAN
             /\ fails' \in 0..MaxFails
  <2>1. AttemptAhead'
    BY <1>0, <1>8 DEF Failed, AttemptAhead, SessionTypeOK
  <2>2. loading' \in BOOLEAN /\ timer' \in BOOLEAN /\ due' \in BOOLEAN
    BY <1>0, <1>8 DEF Failed, SessionTypeOK
  <2>3. fails' \in 0..MaxFails
    BY <1>0, <1>8, FailsCounted DEF SessionTypeOK
  <2> QED
    BY <2>1, <2>2, <2>3
<1>9. ASSUME NEW p \in Ping, AcquireFails(p)
      PROVE  SessionInv'
  <2>3. ping' \in [Ping -> Calls]
    BY <1>0, <1>9, IdleCall DEF AcquireFails, SessionTypeOK
  <2>1. SessionTypeOK'
    BY <1>0, <1>8, <1>9, <2>3 DEF AcquireFails, Released, Failed, SessionTypeOK, AnyAccount
  <2>2. SharingOK'
    BY <1>0, <1>9 DEF AcquireFails, Released, SessionTypeOK, SharingOK, Nothing
  <2> QED
    BY <1>8, <1>9, <2>1, <2>2 DEF AcquireFails, SessionInv
<1>10. ASSUME NEW p \in Ping, Answered(p)
       PROVE  SessionInv'
  <2>5. ping' \in [Ping -> Calls]
    BY <1>0, <1>10, IdleCall DEF Answered, SessionTypeOK
  <2>6. ping[p].as \in AnyAccount
    BY <1>0 DEF SessionTypeOK, Calls
  <2>7. /\ loading' \in BOOLEAN /\ timer' \in BOOLEAN /\ due' \in BOOLEAN
        /\ fails' \in 0..MaxFails
        /\ me' \in AnyAccount
    <3>1. CASE Failed
      BY <1>8, <1>10, <3>1 DEF Answered, Failed, AnyAccount
    <3>2. CASE me' = ping[p].as /\ fails' = 0 /\ loading' = FALSE /\ due' = TRUE
      <4>1. loading' \in BOOLEAN /\ timer' \in BOOLEAN /\ due' \in BOOLEAN
        BY <1>0, <1>10, <3>2 DEF Answered, SessionTypeOK
      <4>2. fails' \in 0..MaxFails
        BY <3>2
      <4> QED
        BY <2>6, <3>2, <4>1, <4>2
    <3> QED
      BY <1>10, <3>1, <3>2 DEF Answered
  <2>1. SessionTypeOK'
    BY <1>0, <1>10, <2>5, <2>7 DEF Answered, SessionTypeOK
  <2>2. SharingOK'
    BY <1>0, <1>10 DEF Answered, SessionTypeOK, SharingOK, Nothing
  <2>3. CASE Failed
    BY <1>8, <1>10, <2>1, <2>2, <2>3 DEF Answered, SessionInv
  <2>4. CASE loading' = FALSE /\ due' = TRUE
    BY <2>1, <2>2, <2>4 DEF AttemptAhead, SessionInv
  <2> QED
    BY <1>10, <2>3, <2>4 DEF Answered
<1>11. CASE UNCHANGED sessionVars
  BY <1>0, <1>11
  DEF sessionVars, SessionInv, SessionTypeOK, SharingOK, AttemptAhead, Busy
<1> QED
  BY <1>1, <1>2, <1>3, <1>4, <1>5, <1>6, <1>7, <1>9, <1>10, <1>11 DEF SessionNext

(* Whoever is signed in and not known yet is being asked for, or will be,  *)
(* and waits for nobody but a call of the same account that is being       *)
(* acquired (AuthContext.tsx:62-64, 121-149), for any accounts, any number *)
(* of calls and any order of answers, clicks, timers and renders.          *)
THEOREM SessionCorrect == SessionSpec => [](SessionTypeOK /\ NobodyIsStranded)
<1>1. SessionInv => SessionTypeOK /\ NobodyIsStranded
  BY DEF SessionInv, SharingOK, AttemptAhead, NobodyIsStranded
<1> QED
  BY <1>1, SessionInitInv, SessionStepInv, PTL DEF SessionSpec

-----------------------------------------------------------------------------
(* Access.                                                                 *)

(* What is known of a request.                                             *)
Served == [stage : {"idle", "arrived", "allowed", "resolved", "connected", "scoped"},
           token : Token \union {Unset.token}, dev : BOOLEAN, asked : Org \union {NoOrg},
           kind : Kind, devRole : DevRole \union {"Admin"}, roles : SUBSET (Role \union DevRole),
           tid : Org \union {Stranger, NoOrg}, org : Org \union {NoOrg}]

(* What is known of a connection.                                          *)
Connections == [holder : Caller \union {Unheld}, ctx : Org \union {NoOrg}]

(* Whether the bypass of deployment d serves the request q.                *)
Develops(d, q) == ~d.production /\ d.bypass /\ q.dev

(* Who may be served: whom the bypass serves, or a verified token with a   *)
(* role the endpoint accepts.                                              *)
Accepted(d, q) ==
    \/ Develops(d, q)
    \/ /\ q.token.verified /\ q.token.v2 /\ q.token.oid
       /\ (q.token.roles \union q.token.groups)
             \intersect (Required[q.kind] \union {"Admin"}) # {}

(* What a request carries at each stage.                                   *)
CarriesOwnOrg(d, q) ==
    /\ q.stage # "idle" => q.token \in Token /\ (q.dev => q.asked \in Org)
    /\ q.stage \in {"allowed", "resolved", "connected", "scoped"} => Accepted(d, q)
    /\ q.stage \in {"allowed", "connected"} =>
          IF Develops(d, q) THEN q.org = q.asked ELSE q.org = NoOrg /\ q.tid = q.token.tid
    /\ q.stage \in {"resolved", "scoped"} /\ q.kind # "tenant" =>
          q.org = IF Develops(d, q) THEN q.asked ELSE q.token.tid
    /\ q.stage = "connected" => q.kind = "overview"

(* Which requests hold a connection, one at most, and in which context.    *)
Holds(q, ctx) ==
    \/ q.stage = "connected"
    \/ q.stage = "resolved" /\ q.kind = "overview"
    \/ q.stage = "scoped" /\ ctx = q.org

(* A connection that is held is held by one such request.                  *)
HeldByTheirOwn ==
    /\ \A r \in Caller, c \in Socket : conn[c].holder = r => Holds(caller[r], conn[c].ctx)
    /\ \A c, d \in Socket : conn[c].holder = conn[d].holder => c = d \/ conn[c].holder = Unheld

(* The invariant of every request.                                         *)
CallersOK ==
    /\ caller \in [Caller -> Served]
    /\ \A r \in Caller : CarriesOwnOrg(deployment, caller[r])

(* The requests carry their own organisation, and the connections their    *)
(* holders'.                                                               *)
AccessInv == AccessTypeOK /\ CallersOK /\ HeldByTheirOwn

(* There is no request.                                                    *)
LEMMA UnsetRequest ==
    /\ Unset \in Served /\ Unset.stage = "idle" /\ Unset.org = NoOrg
    /\ \A d : CarriesOwnOrg(d, Unset)
<1>1. Unset \in Served /\ Unset.stage = "idle" /\ Unset.org = NoOrg
  BY DEF Unset, Served, Kind
<1> QED
  BY <1>1 DEF CarriesOwnOrg

(* A request that is served has the types of a caller.                     *)
LEMMA ServedIsTyped ==
    ASSUME caller \in [Caller -> Served]
    PROVE  \A r \in Caller :
             /\ caller[r].stage \in {"idle", "arrived", "allowed", "resolved",
                                     "connected", "scoped"}
             /\ caller[r].kind \in Kind
             /\ caller[r].roles \subseteq Role \union DevRole
             /\ {caller[r].org, caller[r].asked} \subseteq Org \union {NoOrg}
  BY DEF Served

(* No request is under way, and nobody holds a connection.                 *)
LEMMA AccessInitInv == AccessInit => AccessInv
<1> SUFFICES ASSUME AccessInit
             PROVE  AccessInv
  OBVIOUS
<1>1. \A r \in Caller : caller[r] = Unset
  BY DEF AccessInit
<1>2. CallersOK
  BY <1>1, UnsetRequest DEF AccessInit, CallersOK
<1>3. \A c \in Socket : conn[c].holder = Unheld /\ conn[c].ctx = NoOrg
  BY DEF AccessInit
<1>4. conn \in [Socket -> Connections]
  BY DEF AccessInit, Connections
<1>5. AccessTypeOK
  BY <1>2, <1>4, ServedIsTyped DEF AccessTypeOK, CallersOK, AccessInit, Connections
<1>6. HeldByTheirOwn
  BY <1>3, AccessAssumption DEF HeldByTheirOwn, Unheld
<1> QED
  BY <1>2, <1>5, <1>6 DEF AccessInv

(* A request moves on, and holds no more than it may.                      *)
LEMMA AccessMoves ==
    ASSUME AccessInv, NEW r \in Caller, NEW q \in Served,
           CarriesOwnOrg(deployment, q),
           caller' = [caller EXCEPT ![r] = q],
           deployment' = deployment,
           conn' \in [Socket -> Connections],
           \A c \in Socket : \/ conn'[c] = conn[c] /\ conn[c].holder # r
                             \/ conn'[c].holder = Unheld
                             \/ conn'[c].holder = r /\ Holds(q, conn'[c].ctx),
           \A c, d \in Socket : conn'[c].holder = r /\ conn'[d].holder = r => c = d,
           owedAudit' \subseteq Org \union {Stranger}
    PROVE  AccessInv'
<1>0. AccessTypeOK /\ CallersOK /\ HeldByTheirOwn
  BY DEF AccessInv
<1>1. /\ caller' \in [Caller -> Served] /\ caller'[r] = q
      /\ \A p \in Caller \ {r} : caller'[p] = caller[p]
  BY <1>0 DEF CallersOK
<1>2. CallersOK'
  BY <1>0, <1>1 DEF CallersOK
<1>3. AccessTypeOK'
  <2>1. \A p \in Caller :
             /\ caller'[p].stage \in {"idle", "arrived", "allowed", "resolved",
                                     "connected", "scoped"}
             /\ caller'[p].kind \in Kind
             /\ caller'[p].roles \subseteq Role \union DevRole
             /\ {caller'[p].org, caller'[p].asked} \subseteq Org \union {NoOrg}
    BY <1>1 DEF Served
  <2> QED
    BY <1>0, <2>1 DEF AccessTypeOK, Connections
<1>4. HeldByTheirOwn'
  <2>1. r # Unheld
    BY AccessAssumption DEF Unheld
  <2>2. ASSUME NEW p \in Caller, NEW c \in Socket, conn'[c].holder = p
        PROVE  Holds(caller'[p], conn'[c].ctx)
    <3>1. p # Unheld
      BY AccessAssumption DEF Unheld
    <3>2. CASE p = r
      BY <1>1, <2>2, <3>1, <3>2
    <3>3. CASE p # r
      BY <1>0, <1>1, <2>2, <3>1, <3>3 DEF HeldByTheirOwn
    <3> QED
      BY <3>2, <3>3
  <2>3. ASSUME NEW c \in Socket, NEW d \in Socket, conn'[c].holder = conn'[d].holder
        PROVE  c = d \/ conn'[c].holder = Unheld
    BY <1>0, <2>3 DEF HeldByTheirOwn
  <2> QED
    BY <2>2, <2>3 DEF HeldByTheirOwn
<1> QED
  BY <1>2, <1>3, <1>4 DEF AccessInv

(* The same where no connection is touched, by a request that has none.    *)
LEMMA AccessMovesAlone ==
    ASSUME AccessInv, NEW r \in Caller, NEW q \in Served,
           ~(caller[r].stage = "connected"), ~(caller[r].stage = "scoped"),
           ~(caller[r].stage = "resolved" /\ caller[r].kind = "overview"),
           CarriesOwnOrg(deployment, q),
           caller' = [caller EXCEPT ![r] = q],
           UNCHANGED <<deployment, conn>>,
           owedAudit' \subseteq Org \union {Stranger}
    PROVE  AccessInv'
<1>1. \A c \in Socket : conn[c].holder # r
  BY DEF AccessInv, HeldByTheirOwn, Holds
<1>2. conn' \in [Socket -> Connections]
  BY DEF AccessInv, AccessTypeOK, Connections
<1>3. \A c, d \in Socket : conn'[c].holder = r /\ conn'[d].holder = r => c = d
  BY <1>1
<1>4. \A c \in Socket : \/ conn'[c] = conn[c] /\ conn[c].holder # r
                        \/ conn'[c].holder = Unheld
                        \/ conn'[c].holder = r /\ Holds(q, conn'[c].ctx)
  BY <1>1
<1> QED
  BY <1>2, <1>3, <1>4, AccessMoves

(* The request ends, and what it held is free.                             *)
LEMMA AccessEnds ==
    ASSUME AccessInv, NEW r \in Caller, Ends(r), deployment' = deployment,
           conn' \in [Socket -> Connections],
           \A c \in Socket : (conn'[c] = conn[c] /\ conn[c].holder # r) \/ conn'[c].holder = Unheld,
           owedAudit' \subseteq Org \union {Stranger}
    PROVE  AccessInv'
<1>1. r # Unheld
  BY AccessAssumption DEF Unheld
<1>2. \A c, d \in Socket : conn'[c].holder = r /\ conn'[d].holder = r => c = d
  BY <1>1
<1>3. \A c \in Socket : \/ conn'[c] = conn[c] /\ conn[c].holder # r
                        \/ conn'[c].holder = Unheld
                        \/ conn'[c].holder = r /\ Holds(Unset, conn'[c].ctx)
  OBVIOUS
<1>4. caller' = [caller EXCEPT ![r] = Unset]
  BY DEF Ends
<1> QED
  BY <1>2, <1>3, <1>4, UnsetRequest, AccessMoves

(* The same for one that held nothing.                                     *)
LEMMA AccessEndsAlone ==
    ASSUME AccessInv, NEW r \in Caller, Ends(r),
           ~(caller[r].stage = "connected"), ~(caller[r].stage = "scoped"),
           ~(caller[r].stage = "resolved" /\ caller[r].kind = "overview"),
           UNCHANGED <<deployment, conn>>,
           owedAudit' \subseteq Org \union {Stranger}
    PROVE  AccessInv'
<1>1. caller' = [caller EXCEPT ![r] = Unset]
  BY DEF Ends
<1> QED
  BY <1>1, UnsetRequest, AccessMovesAlone

(* Connections that are given back, or thrown away, are connections.       *)
LEMMA FreedTyped ==
    ASSUME AccessTypeOK, NEW r \in Caller
    PROVE  /\ [c \in Socket |-> IF conn[c].holder = r
                                THEN [conn[c] EXCEPT !.holder = Unheld] ELSE conn[c]]
                 \in [Socket -> Connections]
           /\ [c \in Socket |-> IF conn[c].holder = r THEN [holder |-> Unheld, ctx |-> NoOrg]
                                ELSE conn[c]] \in [Socket -> Connections]
           /\ \A c \in Socket : [conn[c] EXCEPT !.holder = Unheld].holder = Unheld
<1>1. \A c \in Socket : conn[c] \in Connections
  BY DEF AccessTypeOK, Connections
<1>2. \A c \in Socket : /\ [conn[c] EXCEPT !.holder = Unheld] \in Connections
                        /\ [conn[c] EXCEPT !.holder = Unheld].holder = Unheld
  BY <1>1 DEF Connections
<1>3. [holder |-> Unheld, ctx |-> NoOrg] \in Connections
  BY DEF Connections
<1> QED
  BY <1>1, <1>2, <1>3

(* Authentication and the check of the role, which go together.            *)
LEMMA Admits ==
    ASSUME AccessInv, NEW r \in Caller, caller[r].stage = "arrived",
           NEW roles \in SUBSET (Role \union DevRole),
           NEW tid \in Org \union {Stranger, NoOrg}, NEW org \in Org \union {NoOrg},
           RequireAnyRole(r, roles, tid, org),
           roles \intersect (Required[caller[r].kind] \union {"Admin"}) # {} =>
              Accepted(deployment, caller[r]),
           IF Develops(deployment, caller[r]) THEN org = caller[r].asked
           ELSE org = NoOrg /\ tid = caller[r].token.tid,
           UNCHANGED <<deployment, conn>>,
           owedAudit' \subseteq Org \union {Stranger}
    PROVE  AccessInv'
<1> DEFINE q == [caller[r] EXCEPT !.stage = "allowed", !.roles = roles, !.tid = tid, !.org = org]
<1>1. caller[r] \in Served /\ CarriesOwnOrg(deployment, caller[r])
  BY DEF AccessInv, CallersOK
<1>2. /\ q \in Served /\ q.stage = "allowed" /\ q.tid = tid /\ q.org = org
      /\ q.token = caller[r].token /\ q.dev = caller[r].dev /\ q.asked = caller[r].asked
      /\ q.kind = caller[r].kind
  BY <1>1 DEF Served
<1>3. CASE /\ roles \intersect (Required[caller[r].kind] \union {"Admin"}) # {}
           /\ caller' = [caller EXCEPT ![r] = q]
  <2> HIDE DEF q
  <2>1. Develops(deployment, q) <=> Develops(deployment, caller[r])
    BY <1>2 DEF Develops
  <2>2. Accepted(deployment, q)
    BY <1>2, <1>3, <2>1 DEF Accepted
  <2>3. CarriesOwnOrg(deployment, q)
    BY <1>1, <1>2, <2>1, <2>2 DEF CarriesOwnOrg
  <2>4. caller' = [caller EXCEPT ![r] = q]
    BY <1>3 DEF q
  <2> QED
    BY <1>2, <2>3, <2>4, AccessMovesAlone
<1>4. CASE Ends(r)
  BY <1>4, AccessEndsAlone
<1> QED
  BY <1>3, <1>4 DEF RequireAnyRole

(* Authentication, the check of the role, the resolution of the            *)
(* organisation, the connection and its context: one after the other, each *)
(* from what the last one left.                                            *)
LEMMA AccessStepInv == AccessInv /\ [AccessNext]_accessVars => AccessInv'
<1> SUFFICES ASSUME AccessInv, [AccessNext]_accessVars
             PROVE  AccessInv'
  OBVIOUS
<1>0. AccessTypeOK /\ CallersOK /\ HeldByTheirOwn /\ owedAudit \subseteq Org \union {Stranger}
  BY DEF AccessInv, AccessTypeOK
<1>1. \A r \in Caller : caller[r] \in Served /\ CarriesOwnOrg(deployment, caller[r])
  BY <1>0 DEF CallersOK
<1>2. conn \in [Socket -> Connections]
  BY <1>0 DEF AccessTypeOK, Connections
<1>3. CASE WriteAuditLog
  <2>1. PICK t \in owedAudit, c \in Socket :
          /\ Free(c)
          /\ owedAudit' = owedAudit \ {t}
          /\ conn' = IF t \in deployment.provisioned THEN [conn EXCEPT ![c].ctx = NoOrg] ELSE conn
    BY <1>3 DEF WriteAuditLog
  <2>2. conn' \in [Socket -> Connections]
    BY <1>2, <2>1 DEF Connections
  <2>3. \A s \in Socket : /\ conn'[s].holder = conn[s].holder
                          /\ conn[s].holder = Unheld \/ conn'[s].ctx = conn[s].ctx
    BY <1>2, <2>1 DEF Free, Connections
  <2>4. UNCHANGED <<deployment, caller>>
    BY <1>3 DEF WriteAuditLog
  <2>5. CallersOK'
    BY <1>0, <2>4 DEF CallersOK
  <2>6. AccessTypeOK'
    BY <1>0, <2>1, <2>2, <2>4 DEF AccessTypeOK, Connections
  <2>7. HeldByTheirOwn'
    <3>1. \A r \in Caller : r # Unheld
      BY AccessAssumption DEF Unheld
    <3> QED
      BY <1>0, <2>3, <2>4, <3>1 DEF HeldByTheirOwn
  <2> QED
    BY <2>5, <2>6, <2>7 DEF AccessInv
<1>4. ASSUME NEW r \in Caller, Arrive(r)
      PROVE  AccessInv'
  <2>1. PICK t \in Token, k \in Kind, dev \in BOOLEAN, o \in Org \union {NoOrg}, role \in DevRole :
         /\ dev => t = Unset.token
         /\ o # NoOrg <=> dev \/ k = "tenant"
         /\ dev \/ role = "Admin"
         /\ caller' = [caller EXCEPT ![r] = [Unset EXCEPT !.stage = "arrived", !.token = t,
                          !.kind = k, !.asked = o, !.dev = dev, !.devRole = role]]
    BY <1>4 DEF Arrive
  <2> DEFINE q == [Unset EXCEPT !.stage = "arrived", !.token = t,
                          !.kind = k, !.asked = o, !.dev = dev, !.devRole = role]
  <2>2. q \in Served /\ q.stage = "arrived" /\ q.dev = dev /\ q.asked = o /\ q.token = t
    BY UnsetRequest DEF Served
  <2>3. q.token \in Token /\ (q.dev => q.asked \in Org)
    BY <2>1, <2>2
  <2> HIDE DEF q
  <2>4. CarriesOwnOrg(deployment, q)
    BY <2>2, <2>3 DEF CarriesOwnOrg
  <2>5. caller[r].stage = "idle" /\ UNCHANGED <<deployment, conn, owedAudit>>
    BY <1>4 DEF Arrive
  <2>6. caller' = [caller EXCEPT ![r] = q]
    BY <2>1 DEF q
  <2>7. owedAudit' \subseteq Org \union {Stranger}
    BY <1>0, <2>5
  <2> QED
    BY <2>2, <2>4, <2>5, <2>6, <2>7, AccessMovesAlone
<1>5. ASSUME NEW r \in Caller, DevBypass(r)
      PROVE  AccessInv'
  <2>1. /\ caller[r].stage = "arrived" /\ Develops(deployment, caller[r])
        /\ RequireAnyRole(r, {caller[r].devRole}, Stranger, caller[r].asked)
        /\ owedAudit' = owedAudit \union {caller[r].asked}
        /\ UNCHANGED <<deployment, conn>>
    BY <1>5 DEF DevBypass, BypassActive, Develops
  <2>2. caller[r].asked \in Org
    BY <1>1, <2>1 DEF CarriesOwnOrg, Develops
  <2>3. {caller[r].devRole} \in SUBSET (Role \union DevRole)
    BY <1>1 DEF Served, Role
  <2>4. Accepted(deployment, caller[r])
    BY <2>1 DEF Accepted
  <2>5. owedAudit' \subseteq Org \union {Stranger}
    BY <1>0, <2>1, <2>2
  <2> QED
    BY <2>1, <2>2, <2>3, <2>4, <2>5, Admits
<1>6. ASSUME NEW r \in Caller, RequireAuth(r)
      PROVE  AccessInv'
  <2> DEFINE t == caller[r].token
  <2>1. /\ caller[r].stage = "arrived" /\ ~Develops(deployment, caller[r])
        /\ \/ Ends(r) /\ owedAudit' = owedAudit \union {Home}
           \/ /\ t.verified /\ ClaimsHold(t)
              /\ RequireAnyRole(r, RolesOf(t), t.tid, NoOrg)
              /\ owedAudit' = owedAudit \union {IF t.tid = NoOrg THEN Home ELSE t.tid}
        /\ UNCHANGED <<deployment, conn>>
    BY <1>6 DEF RequireAuth, BypassActive, Develops
  <2>2. CASE Ends(r) /\ owedAudit' = owedAudit \union {Home}
    <3>1. owedAudit' \subseteq Org \union {Stranger}
      BY <1>0, <2>2, AccessAssumption
    <3> QED
      BY <2>1, <2>2, <3>1, AccessEndsAlone
  <2>3. CASE /\ t.verified /\ ClaimsHold(t)
             /\ RequireAnyRole(r, RolesOf(t), t.tid, NoOrg)
             /\ owedAudit' = owedAudit \union {IF t.tid = NoOrg THEN Home ELSE t.tid}
    <3>1. t \in Claims
      BY <1>1, <2>1, AccessAssumption DEF CarriesOwnOrg
    <3>2. t.tid \in Org \union {Stranger, NoOrg} /\ RolesOf(t) \subseteq Role
          /\ RolesOf(t) \subseteq t.roles \union t.groups
      BY <3>1 DEF Claims, RolesOf, Role
    <3>3. RolesOf(t) \intersect (Required[caller[r].kind] \union {"Admin"}) # {} =>
              Accepted(deployment, caller[r])
      BY <2>3, <3>2 DEF Accepted, ClaimsHold
    <3>4. owedAudit' \subseteq Org \union {Stranger}
      BY <1>0, <2>3, <3>2, AccessAssumption
    <3> HIDE DEF t
    <3>5. RolesOf(t) \in SUBSET (Role \union DevRole)
      BY <3>2
    <3> QED
      BY <2>1, <2>3, <3>2, <3>3, <3>4, <3>5, Admits DEF t
  <2> QED
    BY <2>1, <2>2, <2>3
<1>7. ASSUME NEW r \in Caller, MissingToken(r)
      PROVE  AccessInv'
  <2>1. caller[r].stage = "arrived" /\ Ends(r) /\ UNCHANGED <<deployment, conn, owedAudit>>
    BY <1>7 DEF MissingToken
  <2>2. owedAudit' \subseteq Org \union {Stranger}
    BY <1>0, <2>1
  <2> QED
    BY <2>1, <2>2, AccessEndsAlone
<1>8. ASSUME NEW r \in Caller, ResolveOrg(r)
      PROVE  AccessInv'
  <2>1. /\ caller[r].stage = IF caller[r].kind = "overview" THEN "connected" ELSE "allowed"
        /\ caller[r].kind \notin {"tenant", "bare"}
        /\ UNCHANGED <<deployment, owedAudit>>
    BY <1>8 DEF ResolveOrg
  <2>2. CASE OrgOf(r) # NoOrg /\ caller' = [caller EXCEPT ![r].stage = "resolved", ![r].org = OrgOf(r)]
             /\ UNCHANGED conn
    <3> DEFINE q == [caller[r] EXCEPT !.stage = "resolved", !.org = OrgOf(r)]
    <3>1. OrgOf(r) \in Org \union {NoOrg}
      <4>1. caller[r].org \in Org \union {NoOrg}
        BY <1>1 DEF Served
      <4>2. deployment.provisioned \subseteq Org
        BY <1>0, AccessAssumption DEF AccessTypeOK
      <4> QED
        BY <4>1, <4>2 DEF OrgOf
    <3>2. /\ q \in Served /\ q.stage = "resolved" /\ q.org = OrgOf(r)
          /\ q.token = caller[r].token /\ q.dev = caller[r].dev /\ q.asked = caller[r].asked
          /\ q.kind = caller[r].kind
      BY <1>1, <3>1 DEF Served
    <3>3. caller' = [caller EXCEPT ![r] = q]
      BY <2>2
    <3> HIDE DEF q
    <3>4. Develops(deployment, q) <=> Develops(deployment, caller[r])
      BY <3>2 DEF Develops
    <3>5. Accepted(deployment, q)
      BY <1>1, <2>1, <3>2, <3>4 DEF CarriesOwnOrg, Accepted
    <3>6. q.org = IF Develops(deployment, q) THEN q.asked ELSE q.token.tid
      <4>1. CASE Develops(deployment, caller[r])
        BY <1>1, <2>1, <3>2, <3>4, <4>1, AccessAssumption DEF CarriesOwnOrg, OrgOf, Develops
      <4>2. CASE ~Develops(deployment, caller[r])
        BY <1>1, <2>1, <2>2, <3>2, <3>4, <4>2 DEF CarriesOwnOrg, OrgOf
      <4> QED
        BY <4>1, <4>2
    <3>7. CarriesOwnOrg(deployment, q)
      BY <1>1, <2>1, <3>2, <3>5, <3>6 DEF CarriesOwnOrg
    <3>8. CASE caller[r].kind = "overview"
      <4>1. \A c \in Socket : \/ conn'[c] = conn[c] /\ conn[c].holder # r
                              \/ conn'[c].holder = Unheld
                              \/ conn'[c].holder = r /\ Holds(q, conn'[c].ctx)
        BY <2>2, <3>2, <3>8 DEF Holds
      <4>2. \A c, d \in Socket : conn'[c].holder = r /\ conn'[d].holder = r => c = d
        BY <1>0, <2>2, AccessAssumption DEF HeldByTheirOwn, Unheld
      <4> QED
        BY <1>0, <1>2, <2>1, <2>2, <3>2, <3>3, <3>7, <4>1, <4>2, AccessMoves
    <3>9. CASE caller[r].kind # "overview"
      BY <1>0, <2>1, <2>2, <3>2, <3>3, <3>7, <3>9, AccessMovesAlone
    <3> QED
      BY <3>8, <3>9
  <2>3. CASE Ends(r) /\ conn' = [c \in Socket |-> IF conn[c].holder = r
                                          THEN [conn[c] EXCEPT !.holder = Unheld] ELSE conn[c]]
    <3>1. conn' \in [Socket -> Connections]
      BY <1>0, <2>3, FreedTyped
    <3>2. \A c \in Socket : (conn'[c] = conn[c] /\ conn[c].holder # r) \/ conn'[c].holder = Unheld
      BY <1>0, <2>3, FreedTyped
    <3> QED
      BY <1>0, <2>1, <2>3, <3>1, <3>2, AccessEnds
  <2> QED
    BY <1>8, <2>2, <2>3 DEF ResolveOrg
<1>9. ASSUME NEW r \in Caller, TenantOrg(r)
      PROVE  AccessInv'
  <2> DEFINE q == [caller[r] EXCEPT !.stage = "resolved", !.org = caller[r].asked]
  <2>1. /\ caller[r].stage = "allowed" /\ caller[r].kind = "tenant"
        /\ caller' = [caller EXCEPT ![r] = q]
        /\ UNCHANGED <<deployment, conn, owedAudit>>
    BY <1>9 DEF TenantOrg
  <2>2. /\ q \in Served /\ q.stage = "resolved"
        /\ q.token = caller[r].token /\ q.dev = caller[r].dev /\ q.asked = caller[r].asked
        /\ q.kind = caller[r].kind
    BY <1>1 DEF Served
  <2> HIDE DEF q
  <2>3. CarriesOwnOrg(deployment, q)
    BY <1>1, <2>1, <2>2 DEF CarriesOwnOrg, Accepted, Develops
  <2> QED
    BY <1>0, <2>1, <2>2, <2>3, AccessMovesAlone
<1>10. ASSUME NEW r \in Caller, OverviewConnects(r)
       PROVE  AccessInv'
  <2> DEFINE q == [caller[r] EXCEPT !.stage = "connected"]
  <2>1. /\ caller[r].stage = "allowed" /\ caller[r].kind = "overview"
        /\ caller' = [caller EXCEPT ![r] = q]
        /\ UNCHANGED <<deployment, owedAudit>>
    BY <1>10 DEF OverviewConnects, Goes
  <2>2. PICK c \in Socket : Free(c) /\ conn' = [conn EXCEPT ![c].holder = r]
    BY <1>10 DEF OverviewConnects
  <2>3. /\ q \in Served /\ q.stage = "connected" /\ q.org = caller[r].org /\ q.tid = caller[r].tid
        /\ q.token = caller[r].token /\ q.dev = caller[r].dev /\ q.asked = caller[r].asked
        /\ q.kind = caller[r].kind
    BY <1>1 DEF Served
  <2> HIDE DEF q
  <2>4. CarriesOwnOrg(deployment, q)
    BY <1>1, <2>1, <2>3 DEF CarriesOwnOrg, Accepted, Develops
  <2>5. /\ conn' \in [Socket -> Connections] /\ conn'[c].holder = r
        /\ \A s \in Socket \ {c} : conn'[s] = conn[s]
    BY <1>2, <2>2 DEF Connections
  <2>6. \A s \in Socket : conn[s].holder # r
    BY <1>0, <2>1 DEF HeldByTheirOwn, Holds
  <2>7. Holds(q, conn'[c].ctx)
    BY <2>3 DEF Holds
  <2>8. owedAudit' \subseteq Org \union {Stranger}
    BY <1>0, <2>1
  <2>9. \A s \in Socket :
           \/ conn'[s] = conn[s] /\ conn[s].holder # r
           \/ conn'[s].holder = Unheld
           \/ conn'[s].holder = r /\ Holds(q, conn'[s].ctx)
    BY <2>5, <2>6, <2>7
  <2>10. \A s, d \in Socket : conn'[s].holder = r /\ conn'[d].holder = r => s = d
    BY <2>5, <2>6
  <2> QED
    BY <2>1, <2>3, <2>4, <2>5, <2>8, <2>9, <2>10, AccessMoves
<1>11. ASSUME NEW r \in Caller, BareQuery(r)
       PROVE  AccessInv'
  <2>1. caller[r].stage = "allowed" /\ Ends(r) /\ UNCHANGED <<deployment, conn, owedAudit>>
    BY <1>11 DEF BareQuery
  <2>2. owedAudit' \subseteq Org \union {Stranger}
    BY <1>0, <2>1
  <2> QED
    BY <2>1, <2>2, AccessEndsAlone
<1>12. ASSUME NEW r \in Caller, WithOrgContext(r)
       PROVE  AccessInv'
  <2> DEFINE q == [caller[r] EXCEPT !.stage = "scoped"]
  <2>1. /\ caller[r].stage = "resolved"
        /\ caller' = [caller EXCEPT ![r] = q]
        /\ UNCHANGED <<deployment, owedAudit>>
    BY <1>12 DEF WithOrgContext, Goes
  <2>2. PICK c \in Socket :
         /\ conn[c].holder = IF caller[r].kind = "overview" THEN r ELSE Unheld
         /\ conn' = [conn EXCEPT ![c] = [holder |-> r, ctx |-> caller[r].org]]
    BY <1>12 DEF WithOrgContext
  <2>3. /\ q \in Served /\ q.stage = "scoped" /\ q.org = caller[r].org /\ q.tid = caller[r].tid
        /\ q.token = caller[r].token /\ q.dev = caller[r].dev /\ q.asked = caller[r].asked
        /\ q.kind = caller[r].kind
    BY <1>1 DEF Served
  <2> HIDE DEF q
  <2>4. CarriesOwnOrg(deployment, q)
    BY <1>1, <2>1, <2>3 DEF CarriesOwnOrg, Accepted, Develops
  <2>5. [holder |-> r, ctx |-> caller[r].org] \in Connections
    BY <1>1 DEF Connections, Served
  <2>6. /\ conn' \in [Socket -> Connections] /\ conn'[c] = [holder |-> r, ctx |-> caller[r].org]
        /\ \A s \in Socket \ {c} : conn'[s] = conn[s]
    BY <1>2, <2>2, <2>5
  <2>7. \A s \in Socket \ {c} : conn[s].holder # r
    <3>1. r # Unheld
      BY AccessAssumption DEF Unheld
    <3>2. CASE caller[r].kind = "overview"
      BY <1>0, <2>2, <3>1, <3>2 DEF HeldByTheirOwn
    <3>3. CASE caller[r].kind # "overview"
      BY <1>0, <2>1, <3>3 DEF HeldByTheirOwn, Holds
    <3> QED
      BY <3>2, <3>3
  <2>8. Holds(q, conn'[c].ctx) /\ conn'[c].holder = r
    BY <2>3, <2>6 DEF Holds
  <2>9. owedAudit' \subseteq Org \union {Stranger}
    BY <1>0, <2>1
  <2>10. \A s \in Socket :
           \/ conn'[s] = conn[s] /\ conn[s].holder # r
           \/ conn'[s].holder = Unheld
           \/ conn'[s].holder = r /\ Holds(q, conn'[s].ctx)
    <3>1. \A s \in Socket \ {c} : conn'[s] = conn[s] /\ conn[s].holder # r
      BY <2>6, <2>7
    <3> HIDE DEF Holds
    <3> QED
      BY <2>8, <3>1
  <2>11. \A s, d \in Socket : conn'[s].holder = r /\ conn'[d].holder = r => s = d
    BY <2>6, <2>7
  <2> QED
    BY <2>1, <2>3, <2>4, <2>6, <2>9, <2>10, <2>11, AccessMoves
<1>13. ASSUME NEW r \in Caller, ResetAndRelease(r)
       PROVE  AccessInv'
  <2>1. Ends(r) /\ conn' = [c \in Socket |-> IF conn[c].holder = r THEN [holder |-> Unheld, ctx |-> NoOrg]
                                  ELSE conn[c]] /\ UNCHANGED <<deployment, owedAudit>>
    BY <1>13 DEF ResetAndRelease
  <2>2. conn' \in [Socket -> Connections]
    BY <1>0, <2>1, FreedTyped
  <2>3. \A c \in Socket : (conn'[c] = conn[c] /\ conn[c].holder # r) \/ conn'[c].holder = Unheld
    BY <2>1
  <2> QED
    BY <1>0, <2>1, <2>2, <2>3, AccessEnds
<1>14. ASSUME NEW r \in Caller, OverviewReleases(r)
       PROVE  AccessInv'
  <2>1. Ends(r) /\ conn' = [c \in Socket |-> IF conn[c].holder = r
                                    THEN [conn[c] EXCEPT !.holder = Unheld] ELSE conn[c]]
        /\ UNCHANGED <<deployment, owedAudit>>
    BY <1>14 DEF OverviewReleases
  <2>2. conn' \in [Socket -> Connections]
    BY <1>0, <2>1, FreedTyped
  <2>3. \A c \in Socket : (conn'[c] = conn[c] /\ conn[c].holder # r) \/ conn'[c].holder = Unheld
    BY <1>0, <2>1, FreedTyped
  <2> QED
    BY <1>0, <2>1, <2>2, <2>3, AccessEnds
<1>15. CASE UNCHANGED accessVars
  BY <1>0, <1>15 DEF accessVars, AccessInv, AccessTypeOK, CallersOK, HeldByTheirOwn
<1> QED
  BY <1>3, <1>4, <1>5, <1>6, <1>7, <1>8, <1>9, <1>10, <1>11, <1>12, <1>13, <1>14, <1>15
  DEF AccessNext

(* Whatever runs on a pooled connection runs in the organisation of        *)
(* whoever asked, with a role the token gives (db.ts:29-47,                *)
(* resolveOrgId.ts:40-61, authz.ts:183-252), for any tokens, callers,      *)
(* connections and deployments, whatever a connection was used for before. *)
THEOREM AccessCorrect == AccessSpec => [](AccessTypeOK /\ ServedInOwnOrg)
<1>1. AccessInv => AccessTypeOK /\ ServedInOwnOrg
  <2> SUFFICES ASSUME AccessInv, NEW r \in Caller, NEW c \in Socket,
                      caller[r].stage = "scoped", conn[c].holder = r
               PROVE  /\ Develops(deployment, caller[r]) \/ (caller[r].token.verified /\ caller[r].token.v2 /\ caller[r].token.oid)
                      /\ caller[r].kind # "tenant" => conn[c].ctx = IF Develops(deployment, caller[r])
                             THEN caller[r].asked ELSE caller[r].token.tid
                      /\ Develops(deployment, caller[r]) \/ (caller[r].token.roles \union caller[r].token.groups)
                        \intersect (Required[caller[r].kind] \union {"Admin"}) # {}
    BY DEF ServedInOwnOrg, AccessInv, Develops
  <2>1. CarriesOwnOrg(deployment, caller[r]) /\ Holds(caller[r], conn[c].ctx)
    BY DEF AccessInv, CallersOK, HeldByTheirOwn
  <2>2. conn[c].ctx = caller[r].org
    BY <2>1 DEF Holds
  <2> QED
    BY <2>1, <2>2 DEF CarriesOwnOrg, Accepted
<1> QED
  BY <1>1, AccessInitInv, AccessStepInv, PTL DEF AccessSpec

-----------------------------------------------------------------------------
(* PoolAdmin.                                                              *)

(* What an update has under way.                                           *)
Tasks == [at : Steps \union {"nothing"}, stops : SUBSET Stop2,
          pool : Pool2 \union {NoPool}, alone : SUBSET Stop2]

(* Who has a stop to itself is the only one to touch it; and a stop that   *)
(* is touched, and not muddled, is somebody's own.                         *)
OwnStops ==
    \A e \in Editor :
        /\ editor[e].at = "nothing" => editor[e] = Resting
        /\ editor[e].alone \subseteq Touching(e)
        /\ \A d \in Editor \ {e} : editor[e].alone \intersect Touching(d) = {}
        /\ Touching(e) \subseteq editor[e].alone \union muddled

(* What an update does next fits the pool it was given.                    *)
PoolFits ==
    \A e \in Editor :
        /\ editor[e].at \in {"join", "leave others"} => editor[e].pool # NoPool
        /\ editor[e].at = "leave all" => editor[e].pool = NoPool

(* What an update has done to the stops it has to itself.                  *)
HalfDone ==
    \A e \in Editor : \A s \in editor[e].alone :
        /\ editor[e].at \in {"join", "leave others", "leave all"} => cached[s] = editor[e].pool
        /\ editor[e].at = "leave others" => <<s, editor[e].pool>> \in belongs

(* The two places a pool is named in agree.                                *)
NamedOnce(s) == \A p \in Pool2 : <<s, p>> \in belongs <=> p = cached[s]

(* The stops some update is at.                                            *)
InTouch == UNION {Touching(e) : e \in Editor}

(* The invariant of the dual write.                                        *)
PoolInv == /\ PoolTypeOK
           /\ OwnStops
           /\ PoolFits
           /\ HalfDone
           /\ \A s \in Stop2 \ (muddled \union InTouch) : NamedOnce(s)

(* No update is under way.                                                 *)
LEMMA RestingTask == Resting \in Tasks
  BY DEF Resting, Tasks

(* An update that others overlap loses stops it has to itself.             *)
LEMMA TaskShrinks ==
    ASSUME NEW t \in Tasks, NEW S
    PROVE  /\ [t EXCEPT !.alone = @ \ S] \in Tasks
           /\ [t EXCEPT !.alone = @ \ S].at = t.at
           /\ [t EXCEPT !.alone = @ \ S].stops = t.stops
           /\ [t EXCEPT !.alone = @ \ S].pool = t.pool
           /\ [t EXCEPT !.alone = @ \ S].alone = t.alone \ S
  BY DEF Tasks

(* An update goes on to its next statement.                                *)
LEMMA TaskGoesOn ==
    ASSUME NEW t \in Tasks, NEW step \in Steps
    PROVE  /\ [t EXCEPT !.at = step] \in Tasks
           /\ [t EXCEPT !.at = step].at = step
           /\ [t EXCEPT !.at = step].stops = t.stops
           /\ [t EXCEPT !.at = step].pool = t.pool
           /\ [t EXCEPT !.at = step].alone = t.alone
  BY DEF Tasks

(* No pool is named anywhere.                                              *)
LEMMA PoolInitInv == PoolInit => PoolInv
<1> SUFFICES ASSUME PoolInit
             PROVE  PoolInv
  OBVIOUS
<1>1. editor \in [Editor -> Tasks]
  BY RestingTask DEF PoolInit
<1>2. PoolTypeOK
  BY <1>1 DEF PoolInit, PoolTypeOK, Tasks
<1>3. OwnStops /\ PoolFits /\ HalfDone
  BY DEF PoolInit, OwnStops, PoolFits, HalfDone, Touching, Resting
<1>4. \A s \in Stop2 : NamedOnce(s)
  BY PoolAdminAssumption DEF PoolInit, NamedOnce
<1> QED
  BY <1>2, <1>3, <1>4 DEF PoolInv

(* An update that begins on stops others touch muddles them; on the rest   *)
(* it is alone.                                                            *)
LEMMA BeginsKeeps ==
    ASSUME PoolInv, NEW e \in Editor, NEW S \in SUBSET Stop2, NEW p \in Pool2 \union {NoPool},
           Begins(e, S, p)
    PROVE  PoolInv'
<1>0. /\ PoolTypeOK /\ OwnStops /\ PoolFits /\ HalfDone
      /\ editor \in [Editor -> Tasks]
  BY DEF PoolInv, PoolTypeOK, Tasks
<1>1. /\ editor[e] = Resting
      /\ editor' = [d \in Editor |->
                     IF d = e THEN [at |-> "cache", stops |-> S, pool |-> p,
                                    alone |-> S \ Others(e)]
                     ELSE [editor[d] EXCEPT !.alone = @ \ S]]
      /\ muddled' = muddled \union (S \intersect Others(e))
      /\ UNCHANGED <<pools, cached, belongs>>
  BY DEF Begins
<1>2. Others(e) = UNION {editor[d].stops : d \in Editor \ {e}}
  BY DEF Others, Touching
<1>3. /\ \A d \in Editor \ {e} : editor'[d] = [editor[d] EXCEPT !.alone = @ \ S]
      /\ editor'[e] = [at |-> "cache", stops |-> S, pool |-> p, alone |-> S \ Others(e)]
  BY <1>1
<1>4. \A d \in Editor \ {e} : /\ editor'[d].at = editor[d].at
                              /\ editor'[d].stops = editor[d].stops
                              /\ editor'[d].pool = editor[d].pool
                              /\ editor'[d].alone = editor[d].alone \ S
                              /\ editor'[d] \in Tasks
  <2> TAKE d \in Editor \ {e}
  <2>1. editor[d] \in Tasks
    BY <1>0
  <2>2. editor'[d] = [editor[d] EXCEPT !.alone = @ \ S]
    BY <1>3
  <2> QED
    BY <2>1, <2>2, TaskShrinks
<1>5. editor'[e] \in Tasks /\ editor'[e].at = "cache"
  BY <1>3 DEF Tasks, Steps
<1>6. editor' \in [Editor -> Tasks]
  BY <1>1, <1>4, <1>5, Zenon
<1>7. PoolTypeOK'
  BY <1>0, <1>1, <1>6 DEF PoolTypeOK, Tasks
<1>8. OwnStops'
  <2> SUFFICES ASSUME NEW d \in Editor
               PROVE  /\ editor'[d].at = "nothing" => editor'[d] = Resting
                      /\ editor'[d].alone \subseteq editor'[d].stops
                      /\ \A c \in Editor \ {d} : editor'[d].alone \intersect editor'[c].stops = {}
                      /\ editor'[d].stops \subseteq editor'[d].alone \union muddled'
    BY DEF OwnStops, Touching
  <2>1. CASE d = e
    <3>1. /\ editor'[d].at = "cache" /\ editor'[d].stops = S
          /\ editor'[d].alone = S \ Others(e)
      BY <1>3, <2>1
    <3>2. \A c \in Editor \ {e} : editor'[c].stops \subseteq Others(e)
      BY <1>2, <1>4
    <3> QED
      BY <1>1, <2>1, <3>1, <3>2
  <2>2. CASE d # e
    <3>1. editor'[d].at = "nothing" => editor'[d] = Resting
      <4>1. editor'[d].at = "nothing" => editor[d] = Resting
        BY <1>0, <1>4, <2>2 DEF OwnStops
      <4>2. editor[d] = Resting => editor'[d] = Resting
        BY <1>3, <2>2 DEF Resting
      <4> QED
        BY <4>1, <4>2
    <3>2. editor'[d].alone \subseteq editor'[d].stops
      BY <1>0, <1>4, <2>2 DEF OwnStops, Touching
    <3>3. \A c \in Editor \ {d} : editor'[d].alone \intersect editor'[c].stops = {}
      BY <1>0, <1>3, <1>4, <2>2 DEF OwnStops, Touching
    <3>4. editor'[d].stops \subseteq editor'[d].alone \union muddled'
      BY <1>0, <1>1, <1>2, <1>4, <2>2 DEF OwnStops, Touching
    <3> QED
      BY <3>1, <3>2, <3>3, <3>4
  <2> QED
    BY <2>1, <2>2
<1>9. HalfDone'
  <2> SUFFICES ASSUME NEW d \in Editor, NEW s \in editor'[d].alone
               PROVE  /\ editor'[d].at \in {"join", "leave others", "leave all"} =>
                             cached'[s] = editor'[d].pool
                      /\ editor'[d].at = "leave others" => <<s, editor'[d].pool>> \in belongs'
    BY DEF HalfDone
  <2>1. CASE d = e
    BY <1>5, <2>1
  <2>2. CASE d # e
    <3>1. /\ s \in editor[d].alone
          /\ editor'[d].at = editor[d].at /\ editor'[d].pool = editor[d].pool
      BY <1>4, <2>2
    <3>2. cached' = cached /\ belongs' = belongs
      BY <1>1
    <3> QED
      BY <1>0, <3>1, <3>2 DEF HalfDone
  <2> QED
    BY <2>1, <2>2
<1>11. PoolFits'
  <2> SUFFICES ASSUME NEW d \in Editor
               PROVE  /\ editor'[d].at \in {"join", "leave others"} => editor'[d].pool # NoPool
                      /\ editor'[d].at = "leave all" => editor'[d].pool = NoPool
    BY DEF PoolFits
  <2>1. CASE d = e
    BY <1>5, <2>1
  <2>2. CASE d # e
    <3>1. editor'[d].at = editor[d].at /\ editor'[d].pool = editor[d].pool
      BY <1>4, <2>2
    <3> QED
      BY <1>0, <3>1 DEF PoolFits
  <2> QED
    BY <2>1, <2>2
<1>10. InTouch \subseteq InTouch' /\ muddled \subseteq muddled'
  BY <1>0, <1>1, <1>4 DEF InTouch, Touching, Resting
<1> QED
  BY <1>1, <1>7, <1>8, <1>9, <1>10, <1>11 DEF PoolInv, NamedOnce

(* An update that has gone through leaves its own stops named once, and    *)
(* nobody else's changed; what it did not have to itself stays muddled.    *)
LEMMA LeaveKeeps ==
    ASSUME PoolInv, NEW e \in Editor, LeavePools(e)
    PROVE  PoolInv'
<1> USE PoolAdminAssumption
<1>0. /\ PoolTypeOK /\ OwnStops /\ PoolFits /\ HalfDone
      /\ editor \in [Editor -> Tasks]
      /\ \A s \in Stop2 \ (muddled \union InTouch) : NamedOnce(s)
  BY DEF PoolInv, PoolTypeOK, Tasks
<1>1. /\ editor[e].at \in {"leave others", "leave all"}
      /\ belongs' = belongs \ Elsewhere(e)
      /\ editor' = [editor EXCEPT ![e] = Resting]
      /\ muddled' = muddled \ editor[e].alone
      /\ UNCHANGED <<pools, cached>>
  BY DEF LeavePools, At, Done2
<1>2. /\ editor'[e] = Resting
      /\ \A d \in Editor \ {e} : editor'[d] = editor[d]
      /\ editor' \in [Editor -> Tasks]
  BY <1>0, <1>1, RestingTask
<1>3. PoolTypeOK'
  BY <1>0, <1>1, <1>2 DEF PoolTypeOK, Tasks
<1>4. OwnStops'
  <2> SUFFICES ASSUME NEW d \in Editor
               PROVE  /\ editor'[d].at = "nothing" => editor'[d] = Resting
                      /\ editor'[d].alone \subseteq editor'[d].stops
                      /\ \A c \in Editor \ {d} : editor'[d].alone \intersect editor'[c].stops = {}
                      /\ editor'[d].stops \subseteq editor'[d].alone \union muddled'
    BY DEF OwnStops, Touching
  <2>1. CASE d = e
    BY <1>2, <2>1 DEF Resting
  <2>2. CASE d # e
    <3>1. editor'[d] = editor[d] /\ editor[d].alone \intersect editor[e].alone = {}
      <4>1. editor[e].alone \subseteq Touching(e)
        BY <1>0 DEF OwnStops
      <4>2. editor[d].alone \intersect Touching(e) = {}
        BY <1>0, <2>2 DEF OwnStops
      <4> QED
        BY <1>2, <2>2, <4>1, <4>2
    <3>2. /\ editor[d].at = "nothing" => editor[d] = Resting
          /\ editor[d].alone \subseteq editor[d].stops
      BY <1>0 DEF OwnStops, Touching
    <3>3. \A c \in Editor \ {d} : editor'[d].alone \intersect editor'[c].stops = {}
      BY <1>0, <1>2, <3>1 DEF OwnStops, Touching, Resting
    <3>4. editor[d].stops \subseteq editor[d].alone \union muddled
      BY <1>0 DEF OwnStops, Touching
    <3>5. editor[d].stops \subseteq editor[d].alone \union muddled'
      <4>1. editor[e].alone \intersect editor[d].stops = {}
        BY <1>0, <2>2 DEF OwnStops, Touching
      <4> QED
        BY <1>1, <3>4, <4>1
    <3> QED
      BY <3>1, <3>2, <3>3, <3>5
  <2> QED
    BY <2>1, <2>2
<1>5. \A s \in Stop2 \ Touching(e) : \A p \in Pool2 :
          <<s, p>> \in belongs' <=> <<s, p>> \in belongs
  BY <1>1 DEF Elsewhere
<1>6. HalfDone'
  <2> SUFFICES ASSUME NEW d \in Editor, NEW s \in editor'[d].alone
               PROVE  /\ editor'[d].at \in {"join", "leave others", "leave all"} =>
                             cached'[s] = editor'[d].pool
                      /\ editor'[d].at = "leave others" => <<s, editor'[d].pool>> \in belongs'
    BY DEF HalfDone
  <2>1. d # e /\ s \in editor[d].alone /\ editor'[d] = editor[d]
    BY <1>2 DEF Resting
  <2>2. s \in Stop2 \ Touching(e)
    BY <1>0, <2>1 DEF OwnStops, Tasks
  <2>4. editor[d].at = "leave others" => editor[d].pool \in Pool2
    BY <1>0 DEF Tasks, PoolFits
  <2> QED
    BY <1>0, <1>1, <1>5, <2>1, <2>2, <2>4 DEF HalfDone
<1>8. PoolFits'
  <2> SUFFICES ASSUME NEW d \in Editor
               PROVE  /\ editor'[d].at \in {"join", "leave others"} => editor'[d].pool # NoPool
                      /\ editor'[d].at = "leave all" => editor'[d].pool = NoPool
    BY DEF PoolFits
  <2>1. CASE d = e
    <3>1. editor'[d].at = "nothing"
      BY <1>2, <2>1 DEF Resting
    <3> QED
      BY <3>1
  <2>2. CASE d # e
    BY <1>0, <1>2, <2>2 DEF PoolFits
  <2> QED
    BY <2>1, <2>2
<1>7. ASSUME NEW s \in Stop2 \ (muddled' \union InTouch')
      PROVE  NamedOnce(s)'
  <2>1. CASE s \in Touching(e)
    <3>1. s \in editor[e].alone
      BY <1>0, <1>1, <1>7, <2>1 DEF OwnStops
    <3>2. cached[s] = editor[e].pool /\ editor[e].pool \in Pool2 \union {NoPool}
      BY <1>0, <1>1, <3>1 DEF HalfDone, Tasks
    <3>4. editor[e].at = "leave others" => <<s, editor[e].pool>> \in belongs
      BY <1>0, <3>1 DEF HalfDone
    <3>5. editor[e].at = "leave all" => editor[e].pool = NoPool
      BY <1>0 DEF PoolFits
    <3>3. editor[e].pool \in Pool2 => <<s, editor[e].pool>> \in belongs
      BY <1>1, <3>4, <3>5
    <3> QED
      BY <1>1, <2>1, <3>2, <3>3 DEF NamedOnce, Elsewhere
  <2>2. CASE s \notin Touching(e)
    <3>1. s \notin editor[e].alone
      BY <1>0, <2>2 DEF OwnStops
    <3>2. s \notin muddled /\ s \notin InTouch
      BY <1>1, <1>2, <1>7, <2>2, <3>1 DEF InTouch, Touching
    <3> QED
      BY <1>0, <1>1, <1>5, <2>2, <3>2 DEF NamedOnce
  <2> QED
    BY <2>1, <2>2
<1> QED
  BY <1>3, <1>4, <1>6, <1>7, <1>8 DEF PoolInv

(* The statements on the way, for stops that stay in touch.                *)
LEMMA StatementKeeps ==
    ASSUME PoolInv, NEW e \in Editor, SetCache(e) \/ JoinPool(e)
    PROVE  PoolInv'
<1> USE PoolAdminAssumption
<1>0. /\ PoolTypeOK /\ OwnStops /\ PoolFits /\ HalfDone
      /\ editor \in [Editor -> Tasks]
      /\ \A s \in Stop2 \ (muddled \union InTouch) : NamedOnce(s)
  BY DEF PoolInv, PoolTypeOK, Tasks
<1>1. PICK step \in {"join", "leave others", "leave all"} :
         editor' = [editor EXCEPT ![e].at = step]
  BY DEF SetCache, JoinPool, Then
<1>2. /\ editor'[e] = [editor[e] EXCEPT !.at = step]
      /\ \A d \in Editor \ {e} : editor'[d] = editor[d]
  BY <1>0, <1>1
<1>3. /\ \A d \in Editor : /\ editor'[d].stops = editor[d].stops
                           /\ editor'[d].alone = editor[d].alone
                           /\ editor'[d].pool = editor[d].pool
                           /\ editor'[d] \in Tasks
      /\ editor'[e].at = step
  <2>1. editor[e] \in Tasks /\ step \in Steps
    BY <1>0 DEF Steps
  <2>2. /\ editor'[e] \in Tasks
        /\ editor'[e].at = step
        /\ editor'[e].stops = editor[e].stops
        /\ editor'[e].pool = editor[e].pool
        /\ editor'[e].alone = editor[e].alone
    BY <1>2, <2>1 DEF Tasks
  <2> QED
    BY <1>0, <1>2, <2>2
<1>4. editor' \in [Editor -> Tasks]
  BY <1>1, <1>3, <1>0, Zenon
<1>5. UNCHANGED <<pools, muddled>>
  BY DEF SetCache, JoinPool
<1>6. OwnStops'
  BY <1>0, <1>2, <1>3, <1>5 DEF OwnStops, Touching
<1>7. InTouch' = InTouch
  BY <1>3 DEF InTouch, Touching
<1>8. Touching(e) \subseteq Stop2 /\ editor[e].pool \in Pool2 \union {NoPool}
  BY <1>0 DEF Tasks, Touching
<1>9. CASE SetCache(e)
  <2>1. /\ cached' = [s \in Stop2 |-> IF s \in Touching(e) THEN editor[e].pool ELSE cached[s]]
        /\ step = IF editor[e].pool = NoPool THEN "leave all" ELSE "join"
        /\ UNCHANGED belongs
    <3>1. editor' = [editor EXCEPT ![e].at = IF editor[e].pool = NoPool THEN "leave all" ELSE "join"]
      BY <1>9 DEF SetCache, Then
    <3>3. editor'[e] = [editor[e] EXCEPT !.at = IF editor[e].pool = NoPool THEN "leave all" ELSE "join"]
      BY <1>0, <3>1
    <3>4. editor[e] \in Tasks
      BY <1>0
    <3>2. editor'[e].at = IF editor[e].pool = NoPool THEN "leave all" ELSE "join"
      BY <3>3, <3>4 DEF Tasks
    <3> QED
      BY <1>3, <1>9, <3>2 DEF SetCache
  <2>2. PoolTypeOK'
    BY <1>0, <1>4, <1>5, <1>8, <2>1 DEF PoolTypeOK, Tasks
  <2>3. HalfDone'
    <3> SUFFICES ASSUME NEW d \in Editor, NEW s \in editor'[d].alone
                 PROVE  /\ editor'[d].at \in {"join", "leave others", "leave all"} =>
                               cached'[s] = editor'[d].pool
                        /\ editor'[d].at = "leave others" => <<s, editor'[d].pool>> \in belongs'
      BY DEF HalfDone
    <3>5. /\ editor'[d].pool = editor[d].pool /\ editor'[d].alone = editor[d].alone
          /\ s \in editor[d].alone
      BY <1>3
    <3>1. s \in Stop2
      BY <1>0, <3>5 DEF Tasks
    <3>2. CASE d = e
      BY <1>0, <1>3, <2>1, <3>1, <3>2, <3>5 DEF OwnStops
    <3>3. CASE d # e
      <4>1. s \notin Touching(e)
        BY <1>0, <3>3, <3>5 DEF OwnStops
      <4> QED
        BY <1>0, <1>2, <2>1, <3>1, <3>3, <3>5, <4>1 DEF HalfDone
    <3> QED
      BY <3>2, <3>3
  <2>4. \A s \in Stop2 \ (muddled \union InTouch) : cached'[s] = cached[s]
    BY <2>1 DEF InTouch
  <2>5. PoolFits'
    BY <1>0, <1>2, <1>3, <2>1 DEF PoolFits
  <2> QED
    BY <1>0, <1>5, <1>6, <1>7, <2>1, <2>2, <2>3, <2>4, <2>5 DEF PoolInv, NamedOnce
<1>10. CASE JoinPool(e)
  <2>1. /\ editor[e].at = "join" /\ step = "leave others"
        /\ belongs' = belongs \union (Touching(e) \X {editor[e].pool})
        /\ UNCHANGED cached
    <3>1. editor' = [editor EXCEPT ![e].at = "leave others"]
      BY <1>10 DEF JoinPool, Then
    <3>2. editor'[e].at = "leave others"
      BY <1>0, <3>1, TaskGoesOn DEF Steps
    <3> QED
      BY <1>3, <1>10, <3>2 DEF JoinPool, At
  <2>2. HalfDone'
    <3> SUFFICES ASSUME NEW d \in Editor, NEW s \in editor'[d].alone
                 PROVE  /\ editor'[d].at \in {"join", "leave others", "leave all"} =>
                               cached'[s] = editor'[d].pool
                        /\ editor'[d].at = "leave others" => <<s, editor'[d].pool>> \in belongs'
      BY DEF HalfDone
    <3>5. /\ editor'[d].pool = editor[d].pool /\ editor'[d].alone = editor[d].alone
          /\ s \in editor[d].alone
      BY <1>3
    <3>1. CASE d = e
      <4>1. cached[s] = editor[e].pool
        BY <1>0, <2>1, <3>1, <3>5 DEF HalfDone
      <4>2. s \in Touching(e)
        BY <1>0, <3>1, <3>5 DEF OwnStops
      <4>3. <<s, editor[e].pool>> \in belongs'
        BY <2>1, <4>2
      <4> QED
        BY <2>1, <3>1, <3>5, <4>1, <4>3
    <3>2. CASE d # e
      BY <1>0, <1>2, <2>1, <3>2, <3>5 DEF HalfDone
    <3> QED
      BY <3>1, <3>2
  <2>3. editor[e].pool \in Pool2
    BY <1>0, <1>8, <2>1 DEF PoolFits
  <2>4. PoolTypeOK'
    BY <1>0, <1>4, <1>5, <1>8, <2>1, <2>3 DEF PoolTypeOK, Tasks
  <2>5. \A s \in Stop2 \ (muddled \union InTouch) : \A p \in Pool2 :
            <<s, p>> \in belongs' <=> <<s, p>> \in belongs
    BY <2>1 DEF InTouch
  <2>6. PoolFits'
    <3> SUFFICES ASSUME NEW d \in Editor
                 PROVE  /\ editor'[d].at \in {"join", "leave others"} => editor'[d].pool # NoPool
                        /\ editor'[d].at = "leave all" => editor'[d].pool = NoPool
      BY DEF PoolFits
    <3>1. CASE d = e
      <4>1. editor'[e].at = "leave others" /\ editor'[e].pool = editor[e].pool
        BY <1>3, <2>1
      <4>2. editor[e].pool # NoPool
        BY <1>0, <2>1 DEF PoolFits
      <4> QED
        BY <3>1, <4>1, <4>2
    <3>2. CASE d # e
      <4>1. editor'[d] = editor[d]
        BY <1>2, <3>2
      <4> QED
        BY <1>0, <4>1 DEF PoolFits
    <3> QED
      BY <3>1, <3>2
  <2> QED
    BY <1>0, <1>5, <1>6, <1>7, <2>1, <2>2, <2>4, <2>5, <2>6 DEF PoolInv, NamedOnce
<1> QED
  BY <1>9, <1>10

(* What an update has to itself changes by its statements alone.           *)
LEMMA PoolStepInv == PoolInv /\ [PoolNext]_poolVars => PoolInv'
<1> SUFFICES ASSUME PoolInv, [PoolNext]_poolVars
             PROVE  PoolInv'
  OBVIOUS
<1>0. /\ PoolTypeOK /\ OwnStops /\ PoolFits /\ HalfDone
      /\ editor \in [Editor -> Tasks]
      /\ \A s \in Stop2 \ (muddled \union InTouch) : NamedOnce(s)
  BY DEF PoolInv, PoolTypeOK, Tasks
<1>1. ASSUME NEW p \in Pool2, CreatePool(p)
      PROVE  PoolInv'
  <2>1. UNCHANGED <<cached, belongs, editor, muddled>>
    BY <1>1 DEF CreatePool
  <2>2. PoolTypeOK'
    BY <1>0, <1>1 DEF CreatePool, PoolTypeOK
  <2>3. OwnStops' /\ PoolFits' /\ HalfDone'
    BY <1>0, <2>1 DEF OwnStops, Touching, PoolFits, HalfDone
  <2>4. \A s \in Stop2 \ (muddled' \union InTouch') : NamedOnce(s)'
    <3>1. InTouch' = InTouch
      BY <2>1 DEF InTouch, Touching
    <3>2. \A s : NamedOnce(s)' <=> NamedOnce(s)
      BY <2>1 DEF NamedOnce
    <3> QED
      BY <1>0, <2>1, <3>1, <3>2
  <2> QED
    BY <2>2, <2>3, <2>4 DEF PoolInv
<1>2. ASSUME NEW e \in Editor, UpdateStop(e) \/ BulkUpdateStops(e)
      PROVE  PoolInv'
  <2>1. PICK S \in SUBSET Stop2, p \in Pool2 \union {NoPool} : Begins(e, S, p)
    BY <1>2 DEF UpdateStop, BulkUpdateStops
  <2> QED
    BY <2>1, BeginsKeeps
<1>3. ASSUME NEW e \in Editor, UpdateBreaksOff(e)
      PROVE  PoolInv'
  <2>1. /\ editor' = [editor EXCEPT ![e] = Resting]
        /\ muddled' = muddled \union Touching(e)
        /\ UNCHANGED <<pools, cached, belongs>>
    BY <1>3 DEF UpdateBreaksOff
  <2>2. /\ editor'[e] = Resting
        /\ \A d \in Editor \ {e} : editor'[d] = editor[d]
        /\ editor' \in [Editor -> Tasks]
    BY <1>0, <2>1, RestingTask
  <2>3. Touching(e) \subseteq Stop2
    BY <1>0 DEF Touching, Tasks
  <2>4. PoolTypeOK'
    BY <1>0, <2>1, <2>2, <2>3 DEF PoolTypeOK, Tasks
  <2>5. OwnStops'
    BY <1>0, <2>1, <2>2 DEF OwnStops, Touching, Resting
  <2>9. editor'[e].at = "nothing"
    BY <2>2 DEF Resting
  <2>7. PoolFits'
    BY <1>0, <2>2, <2>9 DEF PoolFits
  <2>8. HalfDone'
    BY <1>0, <2>1, <2>2 DEF HalfDone, Resting
  <2>6. InTouch \subseteq InTouch' \union Touching(e)
    BY <2>2 DEF InTouch, Touching
  <2> QED
    BY <1>0, <2>1, <2>4, <2>5, <2>6, <2>7, <2>8 DEF PoolInv, NamedOnce
<1>4. CASE UNCHANGED poolVars
  <2>1. UNCHANGED <<pools, cached, belongs, editor, muddled>>
    BY <1>4 DEF poolVars
  <2>2. PoolTypeOK' /\ OwnStops'
    BY <1>0, <2>1 DEF PoolTypeOK, OwnStops, Touching
  <2>3. PoolFits' /\ HalfDone'
    BY <1>0, <2>1 DEF PoolFits, HalfDone
  <2>4. \A s \in Stop2 \ (muddled' \union InTouch') : NamedOnce(s)'
    <3>1. InTouch' = InTouch
      BY <2>1 DEF InTouch, Touching
    <3>2. \A s : NamedOnce(s)' <=> NamedOnce(s)
      BY <2>1 DEF NamedOnce
    <3> QED
      BY <1>0, <2>1, <3>1, <3>2
  <2> QED
    BY <2>2, <2>3, <2>4 DEF PoolInv
<1> QED
  BY <1>1, <1>2, <1>3, <1>4, StatementKeeps, LeaveKeeps DEF PoolNext

(* The cached pool of a stop and its memberships agree for every stop      *)
(* whose last update ran alone and to its end                              *)
(* (adminStopService.ts:160-179, 228-247), for any stops, pools and        *)
(* editors, whatever happened to the stop before.                          *)
THEOREM PoolsCorrect == PoolSpec => [](PoolTypeOK /\ PoolNamedOnce)
<1>1. PoolInv => PoolTypeOK /\ PoolNamedOnce
  <2> SUFFICES ASSUME PoolInv, NEW s \in Stop2 \ (muddled \union InTouch)
               PROVE  {m[2] : m \in {x \in belongs : x[1] = s}} =
                          (IF cached[s] = NoPool THEN {} ELSE {cached[s]})
    BY DEF PoolInv, PoolNamedOnce, InTouch
  <2>1. /\ NamedOnce(s) /\ belongs \subseteq Stop2 \X Pool2
        /\ cached[s] \in Pool2 \union {NoPool}
    BY DEF PoolInv, PoolTypeOK
  <2>2. \A m \in belongs : m = <<m[1], m[2]>> /\ m[2] \in Pool2
    BY <2>1
  <2>3. \A m \in belongs : m[1] = s => m[2] = cached[s]
    BY <2>1, <2>2 DEF NamedOnce
  <2>4. cached[s] # NoPool => <<s, cached[s]>> \in belongs
    BY <2>1 DEF NamedOnce
  <2> QED
    BY <2>2, <2>3, <2>4, PoolAdminAssumption
<1> QED
  BY <1>1, PoolInitInv, PoolStepInv, PTL DEF PoolSpec

-----------------------------------------------------------------------------
(* Registry.                                                               *)

(* What a request goes through.                                            *)
Requests == [does : {"nothing", "seeds", "registers"},
             rows : CsvFile \union Form \union {<<>>}, next : Nat \ {0}]

(* What a request goes through is a file of the right kind.                *)
RowsOK ==
    /\ seeder \in [Seeder -> Requests]
    /\ \A e \in Seeder : /\ seeder[e].does = "seeds" => seeder[e].rows \in CsvFile
                         /\ seeder[e].does = "registers" => seeder[e].rows \in Form

(* The property is its own invariant, with the rows that are gone through. *)
RegistryInv == RegistryTypeOK /\ RowsOK /\ FilesDoNotMix

(* No request is under way.                                                *)
LEMMA RestingRequest == AtRest \in Requests /\ AtRest.does = "nothing" /\ Len(AtRest.rows) = 0
                          /\ AtRest.next = 1 /\ AtRest.rows = <<>>
  BY DEF AtRest, Requests

(* Files and forms have rows.                                              *)
LEMMA FilesAreSequences ==
    ASSUME NEW r \in Requests
    PROVE  r.rows \in Seq(STRING) /\ Len(r.rows) \in Nat
<1>1. r.rows \in CsvFile \union Form \union {<<>>}
  BY DEF Requests
<1>2. CsvFile \subseteq Seq(STRING) /\ Form \subseteq Seq(STRING)
  BY RegistryAssumption
<1>3. <<>> \in Seq(STRING)
  OBVIOUS
<1>4. r.rows \in Seq(STRING)
  BY <1>1, <1>2, <1>3
<1> QED
  BY <1>4

(* Nothing is registered.                                                  *)
LEMMA RegistryInitInv == RegistryInit => RegistryInv
<1> SUFFICES ASSUME RegistryInit
             PROVE  RegistryInv
  OBVIOUS
<1>1. \A e \in Seeder : seeder[e] = AtRest
  BY DEF RegistryInit
<1>2. RowsOK
  BY <1>1, RestingRequest DEF RegistryInit, RowsOK
<1>3. \A e \in Seeder : /\ seeder[e].does = "nothing"
                        /\ seeder[e].rows = <<>>
                        /\ seeder[e].next = 1
  BY <1>1 DEF AtRest
<1>4. RegistryTypeOK
  BY <1>3 DEF RegistryInit, RegistryTypeOK
<1> QED
  BY <1>2, <1>4 DEF RegistryInit, RegistryInv, FilesDoNotMix

(* One request becomes another, and the assets stay.                       *)
LEMMA RequestMoves ==
    ASSUME RegistryInv, NEW e \in Seeder, NEW r \in Requests,
           seeder' = [seeder EXCEPT ![e] = r],
           r.next \in 1..(Len(r.rows) + 1),
           r.does = "seeds" => r.rows \in CsvFile,
           r.does = "registers" => r.rows \in Form,
           UNCHANGED <<poolActive, flags, types, assets>>,
           kinds' \in [ObservationKeys -> Form \union {NoFile}]
    PROVE  RegistryInv'
<1>0. RegistryTypeOK /\ RowsOK /\ FilesDoNotMix
  BY DEF RegistryInv
<1>1. /\ seeder'[e] = r
      /\ \A d \in Seeder \ {e} : seeder'[d] = seeder[d]
      /\ seeder' \in [Seeder -> Requests]
  BY <1>0 DEF RowsOK
<1>2. RowsOK'
  BY <1>0, <1>1 DEF RowsOK
<1>3. ASSUME NEW d \in Seeder
      PROVE  /\ seeder'[d].does \in {"nothing", "seeds", "registers"}
             /\ seeder'[d].rows \in CsvFile \union Form \union {<<>>}
             /\ seeder'[d].next \in 1..(Len(seeder'[d].rows) + 1)
  <2>1. CASE d = e
    BY <1>1, <2>1 DEF Requests
  <2>2. CASE d # e
    BY <1>0, <1>1, <2>2 DEF RegistryTypeOK
  <2> QED
    BY <2>1, <2>2
<1>4. RegistryTypeOK'
  BY <1>0, <1>3 DEF RegistryTypeOK
<1> QED
  BY <1>0, <1>2, <1>4 DEF RegistryInv, FilesDoNotMix

(* A request goes on to its next row.                                      *)
LEMMA NextRow ==
    ASSUME NEW r \in Requests, r.next \in 1..(Len(r.rows) + 1), ~(r.next > Len(r.rows))
    PROVE  /\ [r EXCEPT !.next = @ + 1] \in Requests
           /\ [r EXCEPT !.next = @ + 1].next \in 1..(Len(r.rows) + 1)
           /\ [r EXCEPT !.next = @ + 1].rows = r.rows
           /\ [r EXCEPT !.next = @ + 1].does = r.does
<1>1. Len(r.rows) \in Nat /\ r.next \in Nat \ {0}
  BY FilesAreSequences DEF Requests
<1>2. r.next + 1 \in 1..(Len(r.rows) + 1) /\ r.next + 1 \in Nat \ {0}
  BY <1>1
<1> QED
  BY <1>2 DEF Requests

(* Assets change only with the commit of a whole file, to what that file   *)
(* has of each.                                                            *)
LEMMA RegistryStepInv == RegistryInv /\ [RegistryNext]_registryVars => RegistryInv'
<1> SUFFICES ASSUME RegistryInv, [RegistryNext]_registryVars
             PROVE  RegistryInv'
  OBVIOUS
<1>0. RegistryTypeOK /\ RowsOK /\ FilesDoNotMix
  BY DEF RegistryInv
<1>1. ASSUME poolActive' \subseteq ActivePool, flags' \subseteq FlaggedStop \X Flag,
             types' \subseteq TypeKey, UNCHANGED <<kinds, assets, seeder>>
      PROVE  RegistryInv'
  BY <1>0, <1>1 DEF RegistryInv, RegistryTypeOK, RowsOK, FilesDoNotMix
<1>2. ASSUME NEW p \in ActivePool, UpdatePool(p) \/ SoftDeletePool(p)
      PROVE  RegistryInv'
  BY <1>0, <1>1, <1>2 DEF UpdatePool, SoftDeletePool, RegistryTypeOK
<1>3. ASSUME NEW S \in SUBSET FlaggedStop, NEW f \in Flag, SetFlags(S, f)
      PROVE  RegistryInv'
  BY <1>0, <1>1, <1>3 DEF SetFlags, RegistryTypeOK
<1>4. ASSUME NEW s \in FlaggedStop, NEW f \in Flag, SetFlag(s, f)
      PROVE  RegistryInv'
  BY <1>0, <1>1, <1>4 DEF SetFlag, RegistryTypeOK
<1>5. ASSUME NEW t \in TypeKey, CreateAssetType(t)
      PROVE  RegistryInv'
  BY <1>0, <1>1, <1>5 DEF CreateAssetType, RegistryTypeOK
<1>6. ASSUME NEW e \in Seeder
      PROVE  /\ seeder[e] \in Requests
             /\ seeder[e].next \in 1..(Len(seeder[e].rows) + 1)
             /\ seeder[e].does = "seeds" => seeder[e].rows \in CsvFile
             /\ seeder[e].does = "registers" => seeder[e].rows \in Form
  BY <1>0 DEF RowsOK, RegistryTypeOK
<1>7. kinds \in [ObservationKeys -> Form \union {NoFile}]
  BY <1>0 DEF RegistryTypeOK
<1>8. ASSUME NEW e \in Seeder, Rests(e), UNCHANGED <<poolActive, flags, types, kinds, assets>>
      PROVE  RegistryInv'
  <2>1. seeder' = [seeder EXCEPT ![e] = AtRest]
    BY <1>8 DEF Rests
  <2>2. AtRest.next \in 1..(Len(AtRest.rows) + 1)
    BY RestingRequest
  <2>3. ~(AtRest.does = "seeds") /\ ~(AtRest.does = "registers")
    BY RestingRequest
  <2>4. kinds' \in [ObservationKeys -> Form \union {NoFile}]
    BY <1>7, <1>8
  <2> QED
    BY <1>8, <2>1, <2>2, <2>3, <2>4, RestingRequest, RequestMoves
<1>9. ASSUME NEW e \in Seeder, ~Through(e), NextLine(e),
             UNCHANGED <<poolActive, flags, types, assets>>,
             kinds' \in [ObservationKeys -> Form \union {NoFile}]
      PROVE  RegistryInv'
  <2> DEFINE r == [seeder[e] EXCEPT !.next = @ + 1]
  <2>1. /\ r \in Requests /\ r.next \in 1..(Len(seeder[e].rows) + 1)
        /\ r.rows = seeder[e].rows /\ r.does = seeder[e].does
    BY <1>6, <1>9, NextRow DEF Through
  <2>2. seeder' = [seeder EXCEPT ![e] = r]
    BY <1>9 DEF NextLine
  <2> HIDE DEF r
  <2> QED
    BY <1>6, <1>9, <2>1, <2>2, RequestMoves
<1>10. ASSUME NEW e \in Seeder, NEW f, NEW what \in {"seeds", "registers"},
              IF what = "seeds" THEN f \in CsvFile ELSE f \in Form,
              seeder' = [seeder EXCEPT ![e] = [does |-> what, rows |-> f, next |-> 1]],
              UNCHANGED <<poolActive, flags, types, kinds, assets>>
       PROVE  RegistryInv'
  <2> DEFINE r == [does |-> what, rows |-> f, next |-> 1]
  <2>1. /\ r \in Requests /\ r.next = 1 /\ r.rows = f /\ r.does = what
    BY <1>10 DEF Requests
  <2>2. Len(f) \in Nat
    BY <2>1, FilesAreSequences
  <2> HIDE DEF r
  <2>3. r.next \in 1..(Len(r.rows) + 1)
    BY <2>1, <2>2
  <2> QED
    BY <1>7, <1>10, <2>1, <2>3, RequestMoves DEF r
<1>11. ASSUME NEW e \in Seeder, StartRegistering(e)
       PROVE  RegistryInv'
  BY <1>10, <1>11 DEF StartRegistering
<1>12. ASSUME NEW e \in Seeder, SeedAssets(e)
       PROVE  RegistryInv'
  BY <1>10, <1>12 DEF SeedAssets
<1>13. ASSUME NEW e \in Seeder, UpsertObservationTypes(e)
       PROVE  RegistryInv'
  <2>1. CASE ~Through(e) /\ NextLine(e) /\ kinds' = [kinds EXCEPT ![Line(e)] = seeder[e].rows]
    <3>1. kinds' \in [ObservationKeys -> Form \union {NoFile}]
      BY <1>6, <1>7, <1>13, <2>1 DEF UpsertObservationTypes
    <3> QED
      BY <1>9, <1>13, <2>1, <3>1 DEF UpsertObservationTypes
  <2>2. CASE Rests(e) /\ UNCHANGED kinds
    BY <1>8, <1>13, <2>2 DEF UpsertObservationTypes
  <2> QED
    BY <1>13, <2>1, <2>2 DEF UpsertObservationTypes
<1>14. ASSUME NEW e \in Seeder, SeedRow(e)
       PROVE  RegistryInv'
  BY <1>7, <1>9, <1>14 DEF SeedRow
<1>15. ASSUME NEW e \in Seeder, RequestFails(e)
       PROVE  RegistryInv'
  BY <1>8, <1>15 DEF RequestFails
<1>16. ASSUME NEW e \in Seeder, CommitSeed(e)
       PROVE  RegistryInv'
  <2> DEFINE file == seeder[e].rows
  <2>1. /\ seeder[e].does = "seeds" /\ Through(e) /\ Rests(e)
        /\ assets' = [k \in AssetKey |-> IF k \in Written(e) THEN file ELSE assets[k]]
        /\ UNCHANGED <<poolActive, flags, types, kinds>>
    BY <1>16 DEF CommitSeed
  <2>2. file \in CsvFile /\ Len(file) \in Nat /\ DOMAIN file = 1..Len(file)
    BY <1>6, <2>1, FilesAreSequences
  <2>3. seeder[e].next - 1 = Len(file)
    BY <1>6, <2>1, <2>2 DEF Through
  <2>4. Written(e) = {file[i] : i \in DOMAIN file}
    BY <2>1, <2>2, <2>3 DEF Written
  <2>5. FilesDoNotMix'
    <3> SUFFICES ASSUME NEW a \in AssetKey, NEW b \in AssetKey,
                        \A f \in CsvFile : (\E i \in DOMAIN f : f[i] = a)
                                             <=> (\E i \in DOMAIN f : f[i] = b)
                 PROVE  assets'[a] = assets'[b]
      BY DEF FilesDoNotMix
    <3>1. a \in Written(e) <=> b \in Written(e)
      BY <2>2, <2>4
    <3>2. assets[a] = assets[b]
      BY <1>0 DEF FilesDoNotMix
    <3> QED
      BY <2>1, <3>1, <3>2
  <2>6. assets' \in [AssetKey -> CsvFile \union {NoFile}]
    BY <1>0, <2>1, <2>2 DEF RegistryTypeOK
  <2>7. /\ seeder'[e] = AtRest
        /\ \A d \in Seeder \ {e} : seeder'[d] = seeder[d]
        /\ seeder' \in [Seeder -> Requests]
    BY <1>0, <2>1, RestingRequest DEF Rests, RowsOK
  <2>8. RowsOK'
    BY <1>0, <2>7, RestingRequest DEF RowsOK
  <2>9. ASSUME NEW d \in Seeder
        PROVE  /\ seeder'[d].does \in {"nothing", "seeds", "registers"}
               /\ seeder'[d].rows \in CsvFile \union Form \union {<<>>}
               /\ seeder'[d].next \in 1..(Len(seeder'[d].rows) + 1)
    <3>1. CASE d = e
      BY <2>7, <3>1, RestingRequest
    <3>2. CASE d # e
      BY <1>0, <2>7, <3>2 DEF RegistryTypeOK
    <3> QED
      BY <3>1, <3>2
  <2>10. RegistryTypeOK'
    BY <1>0, <2>1, <2>6, <2>9 DEF RegistryTypeOK
  <2> QED
    BY <2>5, <2>8, <2>10 DEF RegistryInv
<1>17. CASE UNCHANGED registryVars
  BY <1>0, <1>17 DEF registryVars, RegistryInv, RegistryTypeOK, RowsOK, FilesDoNotMix
<1> QED
  BY <1>2, <1>3, <1>4, <1>5, <1>11, <1>12, <1>13, <1>14, <1>15, <1>16, <1>17 DEF RegistryNext

(* Files that are seeded at the same time do not mix                       *)
(* (assetService.ts:186-218): assets of the same files are both as one of  *)
(* them has them, or neither is there, for any files, seeders and          *)
(* failures.                                                               *)
THEOREM RegistryCorrect == RegistrySpec => [](RegistryTypeOK /\ FilesDoNotMix)
<1>1. RegistryInv => RegistryTypeOK /\ FilesDoNotMix
  BY DEF RegistryInv
<1> QED
  BY <1>1, RegistryInitInv, RegistryStepInv, PTL DEF RegistrySpec

-----------------------------------------------------------------------------
(* StopForm.                                                               *)

(* A draft under way to the form is as consistent as the stored one: it    *)
(* was stored when the form was.                                           *)
FormInv == /\ FormTypeOK
           /\ SpotCheckStandsAlone
           /\ detail.load # NoDraft => Consistent(detail.load.form)

(* An empty form claims nothing, and nothing is loaded.                    *)
LEMMA FormTypes ==
    /\ Unmounted \in Detail
    /\ EMPTY_CHECKLIST \in Checklist /\ NoConcern \in SafetyState
    /\ Consistent(EMPTY_CHECKLIST) /\ Unmounted.load = NoDraft
<1>1. NoConcern \in SafetyState
  BY DEF NoConcern, SafetyState
<1>2. Unmounted \in Detail
  BY <1>1 DEF Unmounted, Detail
<1>3. EMPTY_CHECKLIST \in Checklist /\ Consistent(EMPTY_CHECKLIST)
  BY DEF EMPTY_CHECKLIST, Checklist, Consistent
<1> QED
  BY <1>1, <1>2, <1>3 DEF Unmounted

(* The form is empty.                                                      *)
LEMMA FormInitInv == FormInit => FormInv
  BY FormTypes DEF FormInit, FormInv, FormTypeOK, SpotCheckStandsAlone

(* A step that keeps the draft and the load keeps the invariant with the   *)
(* consistency of the form.                                                *)
LEMMA FormStep ==
    ASSUME FormInv, form' \in Checklist, Consistent(form'), safety' \in SafetyState,
           started' \in BOOLEAN, detail' \in Detail, detail'.load \in {detail.load, draft, NoDraft},
           \/ draft' \in {draft, NoDraft}
           \/ draft' = [form |-> form, safety |-> safety],
           queued' \in {"complete", "skip", NoDraft}
    PROVE  FormInv'
<1>0. /\ FormTypeOK
      /\ Consistent(form)
      /\ draft # NoDraft => Consistent(draft.form)
      /\ detail.load # NoDraft => Consistent(detail.load.form)
  BY DEF FormInv, SpotCheckStandsAlone
<1>1. /\ draft' \in StopDraft \union {NoDraft}
      /\ draft' # NoDraft => Consistent(draft'.form)
  <2>1. CASE draft' \in {draft, NoDraft}
    BY <1>0, <2>1 DEF FormTypeOK
  <2>2. CASE draft' = [form |-> form, safety |-> safety]
    BY <1>0, <2>2 DEF FormTypeOK, StopDraft
  <2> QED
    BY <2>1, <2>2
<1>2. detail'.load # NoDraft => Consistent(detail'.load.form)
  BY <1>0
<1> QED
  BY <1>1, <1>2 DEF FormInv, FormTypeOK, SpotCheckStandsAlone

(* Each tap keeps the form consistent, the store keeps what the form was,  *)
(* and a draft that is laid over it replaces all of it.                    *)
LEMMA FormStepInv == FormInv /\ [FormNext]_formVars => FormInv'
<1> SUFFICES ASSUME FormInv, [FormNext]_formVars
             PROVE  FormInv'
  OBVIOUS
<1>0. /\ form \in Checklist /\ safety \in SafetyState /\ started \in BOOLEAN
      /\ detail \in Detail /\ draft \in StopDraft \union {NoDraft}
      /\ queued \in {"complete", "skip", NoDraft}
      /\ Consistent(form)
      /\ draft # NoDraft => Consistent(draft.form)
      /\ detail.load # NoDraft => Consistent(detail.load.form)
  BY DEF FormInv, FormTypeOK, SpotCheckStandsAlone
<1>1. CASE Mounts
  <2>1. form' \in Checklist /\ Consistent(form')
    BY <1>0, <1>1 DEF Mounts, ResetForm, Checklist, Consistent
  <2>2. detail' \in Detail /\ detail'.load = draft
    BY <1>0, <1>1, FormTypes DEF Mounts, Detail, IsReadOnly
  <2>3. draft' \in {draft, NoDraft}
    BY <1>1 DEF Mounts
  <2> QED
    BY <1>0, <1>1, <2>1, <2>2, <2>3, FormStep DEF Mounts
<1>2. ASSUME form' = form, safety' = safety, started' \in BOOLEAN, draft' = draft,
             queued' \in {"complete", "skip", NoDraft}, detail' \in {detail, Unmounted}
      PROVE  FormInv'
  BY <1>0, <1>2, FormTypes, FormStep
<1>3. CASE Back \/ ServerTruth \/ TapStart
  BY <1>0, <1>2, <1>3 DEF Back, ServerTruth, TapStart
<1>4. ASSUME NEW drafts \in {draft, NoDraft}, Reload(drafts)
      PROVE  FormInv'
  BY <1>0, <1>4, FormTypes, FormStep DEF Reload
<1>5. CASE DraftArrives
  <2>1. detail.load \in StopDraft
    BY <1>0, <1>5 DEF DraftArrives, Detail
  <2>2. /\ detail.load.form \in Checklist /\ detail.load.safety \in SafetyState
        /\ Consistent(detail.load.form)
    BY <1>0, <1>5, <2>1 DEF DraftArrives, StopDraft
  <2>3. detail' \in Detail /\ detail'.load = NoDraft
    BY <1>0, <1>5, <2>2 DEF DraftArrives, Detail, IsReadOnly
  <2>4. /\ form' = detail.load.form /\ safety' \in {detail.load.safety, safety}
        /\ UNCHANGED <<started, draft, queued>>
    BY <1>5 DEF DraftArrives, Restored
  <2> QED
    BY <1>0, <2>2, <2>3, <2>4, FormStep
<1>6. CASE SaveDraft \/ DraftAges \/ DismissResume
  <2>1. detail' \in Detail /\ detail'.load = detail.load
    BY <1>0, <1>6 DEF SaveDraft, DraftAges, DismissResume, Detail
  <2> QED
    BY <1>0, <1>6, <2>1, FormStep DEF SaveDraft, DraftAges, DismissResume
<1>7. ASSUME NEW checklist \in Checklist, Consistent(checklist), Enters(checklist)
      PROVE  FormInv'
  <2>1. detail' \in Detail /\ detail'.load = detail.load
    BY <1>0, <1>7 DEF Enters, Detail
  <2> QED
    BY <1>0, <1>7, <2>1, FormStep DEF Enters
<1>8. CASE ToggleSpotCheck
  <2>1. /\ [form EXCEPT !.spot = FALSE] \in Checklist
        /\ Consistent([form EXCEPT !.spot = FALSE])
    BY <1>0 DEF Checklist, Consistent
  <2>2. /\ [EMPTY_CHECKLIST EXCEPT !.spot = TRUE] \in Checklist
        /\ Consistent([EMPTY_CHECKLIST EXCEPT !.spot = TRUE])
    BY DEF EMPTY_CHECKLIST, Checklist, Consistent
  <2> QED
    BY <1>7, <1>8, <2>1, <2>2 DEF ToggleSpotCheck
<1>9. ASSUME NEW t \in Task, ToggleTask(t)
      PROVE  FormInv'
  <2> DEFINE next == [form EXCEPT !.tasks = IF t \in @ THEN @ \ {t} ELSE @ \union {t}]
  <2>1. next \in Checklist /\ Consistent(next)
    BY <1>0, <1>9 DEF ToggleTask, Checklist, Consistent
  <2> QED
    BY <1>7, <1>9, <2>1 DEF ToggleTask
<1>10. CASE SetVolume
  <2>1. [form EXCEPT !.volume = TRUE] \in Checklist /\ Consistent([form EXCEPT !.volume = TRUE])
    BY <1>0, <1>10 DEF SetVolume, Checklist, Consistent
  <2> QED
    BY <1>7, <1>10, <2>1 DEF SetVolume
<1>11. CASE PickPhoto \/ TakeAfterPhoto \/ PhotosLeave
  <2>1. detail' \in Detail /\ detail'.load = detail.load
    BY <1>0, <1>11 DEF PickPhoto, TakeAfterPhoto, PhotosLeave, Photographs, Detail
  <2> QED
    BY <1>0, <1>11, <2>1, FormStep DEF PickPhoto, TakeAfterPhoto, PhotosLeave, Photographs
<1>12. ASSUME NEW dialog \in {"closed", "report", "confirm"}, NEW local \in SafetyState,
              Report(dialog, local)
       PROVE  FormInv'
  <2>1. detail' \in Detail /\ detail'.load = detail.load
    BY <1>0, <1>12 DEF Report, Detail
  <2> QED
    BY <1>0, <1>12, <2>1, FormStep DEF Report
<1>13. detail.local \in SafetyState
  BY <1>0 DEF Detail
<1>14. CASE OpenReport \/ CloseReport \/ CancelSkip
  BY <1>0, <1>12, <1>13, <1>14, FormTypes DEF OpenReport, CloseReport, CancelSkip
<1>15. CASE EditReport
  <2>1. PICK some \in BOOLEAN : Report("report", [detail.local EXCEPT !.hazards = some])
    BY <1>15 DEF EditReport
  <2>2. [detail.local EXCEPT !.hazards = some] \in SafetyState
    BY <1>13 DEF SafetyState
  <2> QED
    BY <1>12, <2>1, <2>2
<1>16. ASSUME NEW value \in SafetyState, NEW dialog \in {"closed", "confirm"},
              NEW local \in SafetyState, SetsSafety(value, dialog, local)
       PROVE  FormInv'
  <2>1. detail' \in Detail /\ detail'.load = detail.load
    BY <1>0, <1>16 DEF SetsSafety, Detail
  <2> QED
    BY <1>0, <1>16, <2>1, FormStep DEF SetsSafety
<1>17. CASE SaveHazards
  BY <1>13, <1>16, <1>17, FormTypes DEF SaveHazards
<1>18. CASE TapSkip
  <2>1. [detail.local EXCEPT !.wantsToSkip = TRUE] \in SafetyState
    BY <1>13 DEF SafetyState
  <2> QED
    BY <1>16, <1>18, <2>1 DEF TapSkip
<1>19. CASE ConfirmSkip \/ Finish
  <2>1. Queues("skip") \/ Queues("complete")
    BY <1>19 DEF ConfirmSkip, Finish, HandleSkipStop
  <2> QED
    BY <1>0, <1>2, <2>1 DEF Queues
<1>20. CASE UNCHANGED formVars
  BY <1>0, <1>2, <1>20 DEF formVars
<1> QED
  BY <1>1, <1>3, <1>4, <1>5, <1>6, <1>8, <1>9, <1>10, <1>11, <1>14, <1>15, <1>17, <1>18,
     <1>19, <1>20
  DEF FormNext, SelectStop, Refetch

(* No form, and no draft of one, claims a spot check and work done         *)
(* (StopDetail.tsx), whatever is tapped while a stop is opened and a draft *)
(* of another moment is laid over it, for any cleaning tasks.              *)
THEOREM FormCorrect == FormSpec => [](FormTypeOK /\ SpotCheckStandsAlone)
<1>1. FormInv => FormTypeOK /\ SpotCheckStandsAlone
  BY DEF FormInv
<1> QED
  BY <1>1, FormInitInv, FormStepInv, PTL DEF FormSpec
=============================================================================
