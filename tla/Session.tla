------------------------------- MODULE Session -------------------------------
(***************************************************************************)
(* The session of the browser (AuthContext.tsx): the signed-in account,    *)
(* the identity `me' the backend answers to /secure/ping, the effect that  *)
(* asks for it and asks again after failures, and the acquisition of       *)
(* access tokens, shared by the callers that need one at the same time.    *)
(* A state update only marks the effect as due; it runs after the render,  *)
(* so answers, timers and clicks can come before it.                       *)
(***************************************************************************)
EXTENDS Naturals

CONSTANTS Account, NoAccount,
          Ping,      \* calls of fetchMe that can be under way at one time
          MaxFails   \* bound on the failures counted

ASSUME SessionAssumption == /\ NoAccount \notin Account
                            /\ MaxFails \in Nat \ {0}
                            /\ {"itself", "none"} \intersect Ping = {}

VARIABLES account,   \* accounts[0] of the library
          active,    \* its active account
          me,        \* whose identity is known
          loading,   \* isLoading
          fails,     \* pingFailsRef
          timer,     \* the delayed attempt is armed
          due,       \* a dependency of the effect has changed
          click,     \* what the user has under way
          ping,      \* the calls of fetchMe
          inflight   \* inflightToken: the call that is acquiring a token

sessionVars == <<account, active, me, loading, fails, timer, due, click, ping, inflight>>

AnyAccount == Account \union {NoAccount}
Calls == [at : {"idle", "acquiring", "waiting", "asking"},
          as : AnyAccount, on : Ping \union {"itself"}]
Nothing == [at |-> "idle", as |-> NoAccount, on |-> "itself"]
Busy(p) == ping[p].at # "idle"

SessionTypeOK ==
    /\ account \in AnyAccount /\ active \in AnyAccount /\ me \in AnyAccount
    /\ loading \in BOOLEAN /\ timer \in BOOLEAN /\ due \in BOOLEAN
    /\ fails \in 0..MaxFails
    /\ click \in {"nothing", "signing in", "signing out"}
    /\ ping \in [Ping -> Calls]
    /\ inflight \in Ping \union {"none"}

(* A reload: the library remembers the account, not which one is active.   *)
SessionInit == /\ account \in AnyAccount
               /\ active = NoAccount
               /\ me = NoAccount
               /\ loading = FALSE
               /\ fails = 0
               /\ timer = FALSE
               /\ due = TRUE
               /\ click = "nothing"
               /\ ping = [p \in Ping |-> Nothing]
               /\ inflight = "none"

-----------------------------------------------------------------------------
(* getAccessToken, up to its first await: who it is for, and whether an    *)
(* acquisition for that account can be shared.                             *)
Current == IF active # NoAccount THEN active ELSE account

SharesAny(acc) == inflight # "none"
Shares(acc) == inflight # "none" /\ ping[inflight].as = acc

StartFetchMe(p) ==
    /\ ~Busy(p)
    /\ \/ /\ Current = NoAccount           \* it throws: the call can only fail
          /\ ping' = [ping EXCEPT ![p] = [Nothing EXCEPT !.at = "asking"]]
          /\ UNCHANGED inflight
       \/ /\ Current # NoAccount /\ Shares(Current)
          /\ ping' = [ping EXCEPT ![p] = [at |-> "waiting", as |-> Current, on |-> inflight]]
          /\ UNCHANGED inflight
       \/ /\ Current # NoAccount /\ ~Shares(Current)
          /\ ping' = [ping EXCEPT ![p] = [at |-> "acquiring", as |-> Current, on |-> "itself"]]
          /\ inflight' = p

(* Dropping the slot in `finally': by account, not by acquisition.         *)
Released(p) ==
    IF inflight # "none" /\ ping[inflight].as = ping[p].as THEN "none" ELSE inflight

(* The token comes, silently or by a popup that can pick another account:  *)
(* whoever waits for this acquisition goes on with it.                     *)
Acquired(p) ==
    /\ ping[p].at = "acquiring"
    /\ \E a \in Account :
         /\ active' \in {active, a}
         /\ active' = active => a = ping[p].as
         /\ ping' = [q \in Ping |-> IF q = p \/ ping[q].on = p
                                      THEN [at |-> "asking", as |-> a, on |-> "itself"]
                                      ELSE ping[q]]
    /\ inflight' = Released(p)
    /\ UNCHANGED <<account, me, loading, fails, timer, due, click>>

(* The catch of fetchMe, for a set of calls that fail together, followed   *)
(* by their `finally'; due when a dependency of the effect changes.        *)
Failed == /\ me' = NoAccount
          /\ fails' = IF fails = MaxFails THEN fails ELSE fails + 1
          /\ loading' = FALSE
          /\ due' = (due \/ me # NoAccount \/ loading)

AcquireFails(p) ==
    /\ ping[p].at = "acquiring"
    /\ ping' = [q \in Ping |-> IF q = p \/ ping[q].on = p THEN Nothing ELSE ping[q]]
    /\ inflight' = Released(p)
    /\ Failed
    /\ UNCHANGED <<account, active, timer, click>>

(* The answer of /secure/ping.                                             *)
Answered(p) ==
    /\ ping[p].at = "asking"
    /\ ping' = [ping EXCEPT ![p] = Nothing]
    /\ \/ /\ ping[p].as # NoAccount
          /\ me' = ping[p].as
          /\ fails' = 0
          /\ loading' = FALSE
          /\ due' = TRUE
       \/ Failed
    /\ UNCHANGED <<account, active, timer, click, inflight>>

-----------------------------------------------------------------------------
(* The effect: what its last run armed is cleared, then a missing identity *)
(* is asked for at once, or after a delay when the last attempts failed.   *)
Effect ==
    /\ due
    /\ \/ /\ account = NoAccount \/ me # NoAccount \/ loading
          /\ timer' = FALSE
          /\ due' = FALSE
          /\ UNCHANGED <<loading, ping, inflight>>
       \/ /\ account # NoAccount /\ me = NoAccount /\ ~loading /\ fails > 0
          /\ timer' = TRUE
          /\ due' = FALSE
          /\ UNCHANGED <<loading, ping, inflight>>
       \/ /\ account # NoAccount /\ me = NoAccount /\ ~loading /\ fails = 0
          /\ timer' = FALSE
          /\ loading' = TRUE
          /\ due' = TRUE
          /\ \E p \in Ping : StartFetchMe(p)
    /\ UNCHANGED <<account, active, me, fails, click>>

TimerFires ==
    /\ timer
    /\ timer' = FALSE
    /\ loading' = TRUE
    /\ due' = (due \/ ~loading)
    /\ \E p \in Ping : StartFetchMe(p)
    /\ UNCHANGED <<account, active, me, fails, click>>

(* signIn: the popup ends, then the code after its await runs.             *)
LoginEnds(a) ==
    /\ click = "nothing"
    /\ account' = IF account = NoAccount THEN a ELSE account
    /\ active' = a
    /\ due' = TRUE
    /\ click' = "signing in"
    /\ UNCHANGED <<me, loading, fails, timer, ping, inflight>>

(* refreshMe, and the rest of signIn.                                      *)
RefreshMe ==
    /\ click \in {"nothing", "signing in"}
    /\ click' = "nothing"
    /\ loading' = TRUE
    /\ due' = (due \/ ~loading)
    /\ \E p \in Ping : StartFetchMe(p)
    /\ UNCHANGED <<account, active, me, fails, timer>>

(* signOut: the caches are gone (OfflineQueue), the identity goes, and the *)
(* account when the logout popup ends.                                     *)
SignOut ==
    /\ click = "nothing"
    /\ account # NoAccount
    /\ me' = NoAccount
    /\ due' = (due \/ me # NoAccount)
    /\ click' = "signing out"
    /\ UNCHANGED <<account, active, loading, fails, timer, ping, inflight>>

LogoutEnds ==
    /\ click = "signing out"
    /\ account' = NoAccount
    /\ active' = NoAccount
    /\ due' = TRUE
    /\ click' = "nothing"
    /\ UNCHANGED <<me, loading, fails, timer, ping, inflight>>

SessionNext == \/ Effect \/ TimerFires \/ RefreshMe \/ SignOut \/ LogoutEnds
               \/ \E a \in Account : LoginEnds(a)
               \/ \E p \in Ping : Acquired(p) \/ AcquireFails(p) \/ Answered(p)

SessionSpec == SessionInit /\ [][SessionNext]_sessionVars

-----------------------------------------------------------------------------
(* Whoever is signed in and not known yet is being asked for, or will be:  *)
(* no order of answers, clicks, timers and renders leaves the session      *)
(* without a further attempt (AuthContext.tsx:121-149, "no give-up").  And *)
(* a call that waits for another's token waits for one of its own account  *)
(* that is still being acquired (:62-64), never for one that has ended or  *)
(* for somebody else's.                                                    *)
NobodyIsStranded ==
    /\ account # NoAccount /\ me = NoAccount =>
           due \/ timer \/ \E p \in Ping : Busy(p)
    /\ \A p \in Ping : ping[p].at = "waiting" =>
           /\ ping[ping[p].on].at = "acquiring"
           /\ ping[ping[p].on].as = ping[p].as
=============================================================================
