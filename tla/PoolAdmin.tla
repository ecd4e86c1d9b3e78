------------------------------ MODULE PoolAdmin ------------------------------
(***************************************************************************)
(* Administration of pools and stops (adminPoolService.ts,                 *)
(* adminStopService.ts, stopRoutes.ts and their routes).  A stop names its *)
(* pool twice: in transit_stops.pool_id and in stop_pool_memberships.  The *)
(* services open a transaction of their own only when they are given no    *)
(* connection, and the routes always give them one: every statement is     *)
(* committed by itself.                                                    *)
(***************************************************************************)
EXTENDS FiniteSets

CONSTANTS Stop2, Pool2, NoPool,
          Editor       \* requests of administrators served at one time

ASSUME PoolAdminAssumption == NoPool \notin Pool2

VARIABLES pools,       \* rows of route_pools
          cached,      \* transit_stops.pool_id
          belongs,     \* active rows of stop_pool_memberships
          editor,      \* what each request has left to do
          muddled      \* stops whose last updates overlapped or broke off

poolVars == <<pools, cached, belongs, editor, muddled>>

Resting == [at |-> "nothing", stops |-> {}, pool |-> NoPool, alone |-> {}]
Steps == {"cache", "join", "leave others", "leave all"}

PoolTypeOK ==
    /\ pools \subseteq Pool2
    /\ cached \in [Stop2 -> Pool2 \union {NoPool}]
    /\ belongs \subseteq Stop2 \X Pool2
    /\ editor \in [Editor -> [at : Steps \union {"nothing"}, stops : SUBSET Stop2,
                              pool : Pool2 \union {NoPool}, alone : SUBSET Stop2]]
    /\ muddled \subseteq Stop2

PoolInit == /\ pools = {}
            /\ cached = [s \in Stop2 |-> NoPool]
            /\ belongs = {}
            /\ editor = [e \in Editor |-> Resting]
            /\ muddled = {}

-----------------------------------------------------------------------------
(* createPool: a second pool of an id is refused by the primary key.       *)
CreatePool(p) ==
    /\ p \notin pools
    /\ pools' = pools \union {p}
    /\ UNCHANGED <<cached, belongs, editor, muddled>>

-----------------------------------------------------------------------------
Touching(e) == editor[e].stops
Others(e) == UNION {Touching(d) : d \in Editor \ {e}}

(* The pool must exist: pools are never removed, so the check still holds  *)
(* for the statements behind it.  It need not be active.                   *)
Begins(e, stops, p) ==
    /\ editor[e] = Resting
    /\ stops # {}
    /\ p \in pools \union {NoPool}
    /\ editor' = [d \in Editor |->
                     IF d = e THEN [at |-> "cache",
                                    stops |-> stops, pool |-> p, alone |-> stops \ Others(e)]
                     ELSE [editor[d] EXCEPT !.alone = @ \ stops]]
    /\ muddled' = muddled \union (stops \intersect Others(e))
    /\ UNCHANGED <<pools, cached, belongs>>

(* PATCH /admin/stops/:id and POST /admin/stops/bulk with a pool_id.       *)
UpdateStop(e) == \E s \in Stop2, p \in Pool2 \union {NoPool} : Begins(e, {s}, p)
BulkUpdateStops(e) == \E S \in SUBSET Stop2, p \in Pool2 \union {NoPool} : Begins(e, S, p)

At(e, step) == editor[e].at = step
Then(e, step) == editor' = [editor EXCEPT ![e].at = step]

(* An update that was alone from its first statement to its last mends     *)
(* what earlier ones left.                                                 *)
Done2(e) == /\ editor' = [editor EXCEPT ![e] = Resting]
            /\ muddled' = muddled \ editor[e].alone

SetCache(e) ==
    /\ At(e, "cache")
    /\ cached' = [s \in Stop2 |-> IF s \in Touching(e) THEN editor[e].pool ELSE cached[s]]
    /\ Then(e, IF editor[e].pool = NoPool THEN "leave all" ELSE "join")
    /\ UNCHANGED <<pools, belongs, muddled>>

JoinPool(e) ==
    /\ At(e, "join")
    /\ belongs' = belongs \union (Touching(e) \X {editor[e].pool})
    /\ Then(e, "leave others")
    /\ UNCHANGED <<pools, cached, muddled>>

ElsewhereCached(e) == {m \in belongs : m[1] \in Touching(e) /\ m[2] = cached[m[1]]
                                         /\ m[2] # editor[e].pool}
Elsewhere(e) == {m \in belongs : m[1] \in Touching(e) /\ m[2] # editor[e].pool}
LeavePools(e) ==
    /\ At(e, "leave others") \/ At(e, "leave all")
    /\ belongs' = belongs \ Elsewhere(e)
    /\ Done2(e)
    /\ UNCHANGED <<pools, cached>>

(* The connection is lost: what is committed stays.                        *)
UpdateBreaksOff(e) ==
    /\ editor[e].at \in Steps
    /\ editor' = [editor EXCEPT ![e] = Resting]
    /\ muddled' = muddled \union Touching(e)
    /\ UNCHANGED <<pools, cached, belongs>>

PoolNext ==
    \/ \E p \in Pool2 : CreatePool(p)
    \/ \E e \in Editor :
         \/ UpdateStop(e) \/ BulkUpdateStops(e) \/ SetCache(e)
         \/ JoinPool(e) \/ LeavePools(e) \/ UpdateBreaksOff(e)

PoolSpec == PoolInit /\ [][PoolNext]_poolVars

-----------------------------------------------------------------------------
(* The dual write (adminStopService.ts:160-179, 228-247) keeps the two     *)
(* places a pool is named in equal for every stop whose last update ran    *)
(* alone and to its end, whatever happened to the stop before.  Overlapping*)
(* updates, and one that breaks off, do leave them different.              *)
PoolNamedOnce ==
    \A s \in Stop2 :
        s \notin muddled \union UNION {Touching(e) : e \in Editor} =>
            {m[2] : m \in {x \in belongs : x[1] = s}} =
                (IF cached[s] = NoPool THEN {} ELSE {cached[s]})
=============================================================================
