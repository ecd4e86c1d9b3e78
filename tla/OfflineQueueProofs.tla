------------------------- MODULE OfflineQueueProofs -------------------------
(***************************************************************************)
(* The safety of the device's action queue, for any number of stops,       *)
(* photos, kinds and actions.                                              *)
(*                                                                         *)
(* The inductive invariant relates the queue, the snapshot a replay works  *)
(* through and the photo store, none of which is the others' master: the   *)
(* worker adds to the queue while a replay runs, signing out empties the   *)
(* queue and the store under it, and a reload forgets the snapshot alone.  *)
(***************************************************************************)
EXTENDS OfflineQueue, FiniteSetTheorems, TLAPS

-----------------------------------------------------------------------------
(* The inductive invariant, in parts over the queue q, the snapshot t and  *)
(* the rest of the state.                                                  *)

(* Only an upload has photos, and it has their kind.                       *)
WellMade(a) == IF a.type = "upload" THEN a.kind \in Kind ELSE a.photos = {}

(* The queue by itself: ids are given once, and a photo is in one action   *)
(* at most and never lost while it is in one.                              *)
QueueOK(q, st, sg, ak, dl, us) ==
    /\ q \in Seq(Action)
    /\ \A i, j \in DOMAIN q : q[i].id = q[j].id => i = j
    /\ \A i \in DOMAIN q : q[i].id <= us
    /\ \A i \in DOMAIN q : WellMade(q[i])
    /\ \A i, j \in DOMAIN q : q[i].photos \cap q[j].photos # {} => i = j
    /\ \A i \in DOMAIN q : q[i].photos \subseteq st \union dl
    /\ \A i \in DOMAIN q : q[i].status = "pending" =>
           q[i].photos \subseteq st /\ q[i].id \notin ak
    /\ \A i \in DOMAIN q : q[i].status = "done" /\ q[i].type # "upload" =>
           q[i].id \in ak
    /\ \A x \in sg : x[1] \in st /\ \A i \in DOMAIN q : x[1] \notin q[i].photos

(* A snapshot by itself.                                                   *)
SnapshotOK(t, sg, us) ==
    /\ t \subseteq Action
    /\ \A a, b \in t : a.id = b.id => a = b
    /\ \A a \in t : a.id <= us
    /\ \A a \in t : WellMade(a)
    /\ \A x \in sg : \A a \in t : x[1] \notin a.photos

(* An action of the snapshot that is still in the queue is the same piece  *)
(* of work, and a start or upload that waits is in the snapshot or younger *)
(* than all of it.                                                         *)
SnapshotOf(t, q) ==
    /\ \A a \in t : \A i \in DOMAIN q : q[i].id = a.id =>
           q[i].type = a.type /\ q[i].stop = a.stop /\ q[i].kind = a.kind
    /\ \A a \in t : \A i \in DOMAIN q : q[i].photos \cap a.photos # {} =>
           q[i].id = a.id
    /\ \A i \in DOMAIN q :
           q[i].status = "pending" /\ q[i].type \in {"start", "upload"} =>
               \/ \E a \in t : a.id = q[i].id
               \/ \A a \in t : q[i].id > a.id

(* Action a of the snapshot has not had its turn.                          *)
Waits(a, q, ak) ==
    /\ a.id \notin ak
    /\ \A i \in DOMAIN q : q[i].id = a.id => q[i].status = "pending"

(* Action c of the snapshot has its turn and is at p.                      *)
Runs(c, p, q, st, ak, dl) ==
    /\ \A i \in DOMAIN q : q[i].id = c.id => q[i].status = "running"
    /\ p \in {"prepare", "sent"} =>
           /\ c.id \notin ak
           /\ \A i \in DOMAIN q : q[i].id = c.id => q[i].photos \subseteq st
    /\ p = "clean" => c.type = "upload" /\ c.photos \subseteq dl

ReplayOK(t, p, q, st, ak, dl) ==
    /\ p \in {"idle", "prepare", "sent", "clean"}
    /\ p = "idle" <=> t = {}
    /\ t # {} => Runs(Least(t), p, q, st, ak, dl)
    /\ t # {} => \A a \in t \ {Least(t)} : Waits(a, q, ak)

RestOK == /\ used \in 0..MaxActions
          /\ store \subseteq Photo
          /\ staged \subseteq Photo \X Stop \X Kind
          /\ \A x, y \in staged : x = y
          /\ online \in BOOLEAN
          /\ signedIn \in BOOLEAN
          /\ acked \subseteq 1..used
          /\ delivered \subseteq Photo

Inv == /\ RestOK
       /\ QueueOK(queue, store, staged, acked, delivered, used)
       /\ SnapshotOK(todo, staged, used)
       /\ SnapshotOf(todo, queue)
       /\ ReplayOK(todo, pc, queue, store, acked, delivered)

-----------------------------------------------------------------------------
(* What CHOOSE finds.                                                      *)

(* A set of naturals has a least element: among the intervals 0..m it is   *)
(* the one that includes no other.                                         *)
LEMMA NatMin ==
  ASSUME NEW T \in SUBSET Nat, T # {}
  PROVE  \E m \in T : \A n \in T : m <= n
<1>1. PICK k \in T : TRUE
  OBVIOUS
<1> DEFINE Z == 0..k
           U == {m \in T : m <= k}
           W == {0..m : m \in U}
           R == StrictSubsetOrdering(Z)
           F == FiniteSubsetsOf(Z)
<1>2. F = SUBSET Z
  <2>1. IsFiniteSet(Z)
    BY <1>1, FS_Interval
  <2> QED BY <2>1, FS_FiniteSubsetsOfFinite
<1>3. \E x \in W : \A y \in W : ~(<<y, x>> \in R)
  <2>1. W \subseteq F /\ W # {}
    BY <1>1, <1>2
  <2>2. IsWellFoundedOn(R, F)
    BY FS_StrictSubsetOrderingWellFounded
  <2> HIDE DEF W, R, F
  <2> QED BY <2>1, <2>2, WFMin
<1>4. PICK m \in U : \A n \in U : ~(<<0..n, 0..m>> \in R)
  BY <1>3
<1>5. ASSUME NEW n \in U PROVE m <= n
  <2>1. SUFFICES ASSUME n < m PROVE FALSE
    BY SMT
  <2>2. m \in 0..m /\ m \notin 0..n
    BY <2>1, SMT
  <2>3. 0..n \subseteq 0..m /\ 0..n # 0..m
    BY <2>1, <2>2, SMT
  <2>4. 0..n \in SUBSET Z /\ 0..m \in SUBSET Z
    BY <1>1, SMT
  <2>5. <<0..n, 0..m>> \in R
    BY <2>3, <2>4, Zenon DEF StrictSubsetOrdering
  <2> QED BY <2>5, <1>4
<1> QED BY <1>5, <1>1, SMT

(* A set of actions has a first one in the order of the replay.            *)
LEMMA LeastIsFirst ==
  ASSUME NEW S \in SUBSET Action, S # {}
  PROVE  /\ Least(S) \in S
         /\ \A b \in S : \/ Rank[Least(S).type] < Rank[b.type]
                         \/ /\ Rank[Least(S).type] = Rank[b.type]
                            /\ Least(S).id <= b.id
<1> DEFINE R(a) == Rank[a.type]
<1>1. \A a \in S : R(a) \in Nat /\ a.id \in Nat
  BY MaxActionsAssumption DEF Action, Rank, Type
<1>2. PICK r \in {R(a) : a \in S} : \A n \in {R(a) : a \in S} : r <= n
  <2> {R(a) : a \in S} \in SUBSET Nat /\ {R(a) : a \in S} # {}
    BY <1>1
  <2> QED BY NatMin
<1> DEFINE T == {a \in S : R(a) = r}
<1>3. PICK m \in {a.id : a \in T} : \A n \in {a.id : a \in T} : m <= n
  <2> {a.id : a \in T} \in SUBSET Nat /\ {a.id : a \in T} # {}
    BY <1>1, <1>2
  <2> QED BY NatMin
<1>4. PICK a \in T : a.id = m
  BY <1>3
<1>5. ASSUME NEW b \in S PROVE R(a) < R(b) \/ (R(a) = R(b) /\ a.id <= b.id)
  <2>1. R(a) <= R(b)
    BY <1>2, <1>4
  <2>2. R(a) = R(b) => a.id <= b.id
    BY <1>3, <1>4
  <2> QED BY <2>1, <2>2, <1>1
<1>6. \E c \in S : \A b \in S : R(c) < R(b) \/ (R(c) = R(b) /\ c.id <= b.id)
  BY <1>5
<1> QED BY <1>6, Zenon DEF Least

(* findIndex finds one of the places it looks for.                         *)
LEMMA FirstIsOneOfThem ==
  ASSUME NEW I \in SUBSET Nat, I # {}
  PROVE  First(I) \in I
<1>1. \E i \in I : \A j \in I : i <= j
  BY NatMin
<1> QED BY <1>1, Zenon DEF First

-----------------------------------------------------------------------------
(* What the operations on the queue change.                                *)

(* r is q up to statuses and retries.                                      *)
SameWork(q, r) ==
    /\ r \in Seq(Action)
    /\ DOMAIN r = DOMAIN q
    /\ \A i \in DOMAIN q : /\ r[i].id = q[i].id
                            /\ r[i].type = q[i].type
                            /\ r[i].stop = q[i].stop
             /\ r[i].kind = q[i].kind
                            /\ r[i].kind = q[i].kind
                            /\ r[i].photos = q[i].photos

(* r is q after action a was given the status s.                           *)
Settled(q, r, a, s) ==
    /\ SameWork(q, r)
    /\ \A i \in DOMAIN q : r[i].status = IF q[i].id = a.id THEN s ELSE q[i].status

(* A function on the places of a queue whose values are actions is a queue. *)
LEMMA QueueOfPlaces ==
  ASSUME NEW q \in Seq(Action), NEW r, r = [i \in DOMAIN q |-> r[i]],
         \A i \in DOMAIN q : r[i] \in Action
  PROVE  r \in Seq(Action) /\ DOMAIN r = DOMAIN q
<1>1. DOMAIN q = 1..Len(q) /\ Len(q) \in Nat
  OBVIOUS
<1>2. r \in [1..Len(q) -> Action]
  BY <1>1, Zenon
<1> QED BY <1>1, <1>2

LEMMA MarkSettles ==
  ASSUME NEW q \in Seq(Action), NEW a, NEW s \in Status
  PROVE  Settled(q, Mark(q, a, s), a, s)
<1> DEFINE r == Mark(q, a, s)
<1>1. r = [i \in DOMAIN q |-> r[i]]
  BY Zenon DEF Mark
<1>2. ASSUME NEW i \in DOMAIN q
      PROVE  /\ r[i] \in Action
             /\ r[i].id = q[i].id
             /\ r[i].type = q[i].type
             /\ r[i].stop = q[i].stop
             /\ r[i].kind = q[i].kind
             /\ r[i].photos = q[i].photos
             /\ r[i].status = IF q[i].id = a.id THEN s ELSE q[i].status
  <2>1. q[i] \in Action
    OBVIOUS
  <2>2. r[i] = IF q[i].id = a.id THEN [q[i] EXCEPT !.status = s] ELSE q[i]
    BY DEF Mark
  <2> QED BY <2>1, <2>2 DEF Action
<1>3. r \in Seq(Action) /\ DOMAIN r = DOMAIN q
  <2> HIDE DEF r
  <2> QED BY <1>1, <1>2, QueueOfPlaces
<1> QED BY <1>2, <1>3 DEF Settled, SameWork

LEMMA RetriedSettles ==
  ASSUME NEW q \in Seq(Action), NEW a \in Action, a.retry < MaxRetries
  PROVE  Settled(q, Retried(q, a), a, "pending")
<1> DEFINE r == Retried(q, a)
<1>1. r = [i \in DOMAIN q |-> r[i]]
  BY Zenon DEF Retried
<1>2. ASSUME NEW i \in DOMAIN q
      PROVE  /\ r[i] \in Action
             /\ r[i].id = q[i].id
             /\ r[i].type = q[i].type
             /\ r[i].stop = q[i].stop
             /\ r[i].kind = q[i].kind
             /\ r[i].photos = q[i].photos
             /\ r[i].status = IF q[i].id = a.id THEN "pending" ELSE q[i].status
  <2>1. q[i] \in Action
    OBVIOUS
  <2>2. a.retry + 1 \in 0..MaxRetries
    BY DEF Action, MaxRetries
  <2>3. r[i] = IF q[i].id = a.id
               THEN [q[i] EXCEPT !.status = "pending", !.retry = a.retry + 1]
               ELSE q[i]
    BY DEF Retried
  <2>4. "pending" \in Status
    BY DEF Status
  <2> QED BY <2>1, <2>2, <2>3, <2>4 DEF Action
<1>3. r \in Seq(Action) /\ DOMAIN r = DOMAIN q
  <2> HIDE DEF r
  <2> QED BY <1>1, <1>2, QueueOfPlaces
<1> QED BY <1>2, <1>3 DEF Settled, SameWork

-----------------------------------------------------------------------------
(* A turn of the replay.                                                   *)

(* The queue stays well formed when action a is given a status: pending    *)
(* only with its photos stored and no success seen, done only with one.    *)
LEMMA SettledQueueOK ==
  ASSUME NEW q, NEW st, NEW sg, NEW ak, NEW dl, NEW us,
         QueueOK(q, st, sg, ak, dl, us),
         NEW r, NEW a, NEW s \in Status, Settled(q, r, a, s),
         NEW st2 \in SUBSET st, NEW ak2, NEW dl2,
         ak \subseteq ak2, ak2 \subseteq ak \union {a.id},
         dl \subseteq dl2, st \subseteq st2 \union dl2,
         \A i \in DOMAIN q : q[i].id # a.id => q[i].photos \cap st \subseteq st2,
         \A x \in sg : x[1] \in st2,
         s = "pending" => /\ a.id \notin ak2
                          /\ \A i \in DOMAIN q :
                                 q[i].id = a.id => q[i].photos \subseteq st2,
         s = "done" => \A i \in DOMAIN q :
                           q[i].id = a.id => q[i].type = "upload" \/ a.id \in ak2
  PROVE  QueueOK(r, st2, sg, ak2, dl2, us)
<1>1. r \in Seq(Action) /\ DOMAIN r = DOMAIN q
  BY DEF Settled, SameWork
<1>2. ASSUME NEW i \in DOMAIN q
      PROVE  /\ r[i].id = q[i].id
             /\ r[i].type = q[i].type
             /\ r[i].kind = q[i].kind
             /\ r[i].photos = q[i].photos
             /\ r[i].status = IF q[i].id = a.id THEN s ELSE q[i].status
  BY DEF Settled, SameWork
<1>3. \A i, j \in DOMAIN r : r[i].id = r[j].id => i = j
  BY <1>1, <1>2 DEF QueueOK
<1>4. \A i \in DOMAIN r : r[i].id <= us
  BY <1>1, <1>2 DEF QueueOK
<1>5. \A i \in DOMAIN r : WellMade(r[i])
  BY <1>1, <1>2 DEF QueueOK, WellMade
<1>6. \A i, j \in DOMAIN r : r[i].photos \cap r[j].photos # {} => i = j
  BY <1>1, <1>2 DEF QueueOK
<1>7. \A i \in DOMAIN r : r[i].photos \subseteq st2 \union dl2
  BY <1>1, <1>2 DEF QueueOK
<1>8. ASSUME NEW i \in DOMAIN r, r[i].status = "pending"
      PROVE  r[i].photos \subseteq st2 /\ r[i].id \notin ak2
  <2>1. CASE q[i].id = a.id
    BY <2>1, <1>1, <1>2, <1>8
  <2>2. CASE q[i].id # a.id
    <3>1. q[i].photos \subseteq st /\ q[i].id \notin ak
      BY <2>2, <1>1, <1>2, <1>8 DEF QueueOK
    <3> QED BY <2>2, <3>1, <1>1, <1>2
  <2> QED BY <2>1, <2>2
<1>9. ASSUME NEW i \in DOMAIN r, r[i].status = "done", r[i].type # "upload"
      PROVE  r[i].id \in ak2
  <2>1. CASE q[i].id = a.id
    BY <2>1, <1>1, <1>2, <1>9
  <2>2. CASE q[i].id # a.id
    BY <2>2, <1>1, <1>2, <1>9 DEF QueueOK
  <2> QED BY <2>1, <2>2
<1>10. \A x \in sg : x[1] \in st2 /\ \A i \in DOMAIN r : x[1] \notin r[i].photos
  BY <1>1, <1>2 DEF QueueOK
<1> QED BY <1>1, <1>3, <1>4, <1>5, <1>6, <1>7, <1>8, <1>9, <1>10 DEF QueueOK

(* The first action of a snapshot whose actions all wait is marked running. *)
LEMMA TurnBegins ==
  ASSUME NEW q, NEW st, NEW sg, NEW ak, NEW dl, NEW us, NEW t,
         QueueOK(q, st, sg, ak, dl, us), SnapshotOK(t, sg, us), SnapshotOf(t, q),
         \A a \in t : Waits(a, q, ak), t # {}
  PROVE  LET r == Mark(q, Least(t), "running")
         IN  /\ QueueOK(r, st, sg, ak, dl, us)
             /\ SnapshotOf(t, r)
             /\ ReplayOK(t, "prepare", r, st, ak, dl)
<1> DEFINE c == Least(t)
           r == Mark(q, c, "running")
<1>1. c \in t
  BY LeastIsFirst DEF SnapshotOK
<1>2. Settled(q, r, c, "running")
  <2> q \in Seq(Action) /\ "running" \in Status
    BY DEF QueueOK, Status
  <2> QED BY MarkSettles
<1> HIDE DEF c, r
<1>3. DOMAIN r = DOMAIN q
  BY <1>2 DEF Settled, SameWork
<1>4. ASSUME NEW i \in DOMAIN q
      PROVE  /\ r[i].id = q[i].id
             /\ r[i].type = q[i].type
             /\ r[i].stop = q[i].stop
             /\ r[i].kind = q[i].kind
             /\ r[i].photos = q[i].photos
             /\ r[i].status = IF q[i].id = c.id THEN "running" ELSE q[i].status
  BY <1>2 DEF Settled, SameWork
<1>5. QueueOK(r, st, sg, ak, dl, us)
  <2> \A x \in sg : x[1] \in st
    BY DEF QueueOK
  <2> \A i \in DOMAIN q : q[i].photos \cap st \subseteq st
    OBVIOUS
  <2> "running" \in Status
    BY DEF Status
  <2> QED BY <1>2, SettledQueueOK
<1>6. SnapshotOf(t, r)
  <2>1. ASSUME NEW a \in t, NEW i \in DOMAIN r, r[i].id = a.id
        PROVE  r[i].type = a.type /\ r[i].stop = a.stop /\ r[i].kind = a.kind
    BY <2>1, <1>3, <1>4 DEF SnapshotOf
  <2>2. ASSUME NEW a \in t, NEW i \in DOMAIN r, r[i].photos \cap a.photos # {}
        PROVE  r[i].id = a.id
    BY <2>2, <1>3, <1>4 DEF SnapshotOf
  <2>3. ASSUME NEW i \in DOMAIN r, r[i].status = "pending",
               r[i].type \in {"start", "upload"}
        PROVE  (\E a \in t : a.id = r[i].id) \/ (\A a \in t : r[i].id > a.id)
    BY <2>3, <1>3, <1>4 DEF SnapshotOf
  <2> QED BY <2>1, <2>2, <2>3 DEF SnapshotOf
<1>7. Runs(c, "prepare", r, st, ak, dl)
  <2>1. ASSUME NEW i \in DOMAIN r, r[i].id = c.id
        PROVE  r[i].status = "running" /\ r[i].photos \subseteq st
    <3>1. q[i].status = "pending"
      BY <2>1, <1>1, <1>3, <1>4 DEF Waits
    <3> QED BY <3>1, <2>1, <1>3, <1>4 DEF QueueOK
  <2>2. c.id \notin ak
    BY <1>1 DEF Waits
  <2> QED BY <2>1, <2>2 DEF Runs
<1>8. ASSUME NEW a \in t \ {c} PROVE Waits(a, r, ak)
  <2>1. a.id # c.id
    BY <1>1 DEF SnapshotOK
  <2> QED BY <2>1, <1>3, <1>4 DEF Waits
<1>9. ReplayOK(t, "prepare", r, st, ak, dl)
  BY <1>7, <1>8 DEF ReplayOK, c
<1> QED BY <1>5, <1>6, <1>9 DEF r, c

(* A snapshot of a queue's pending actions: all of them wait in it.        *)
LEMMA NewSnapshot ==
  ASSUME NEW q, NEW st, NEW sg, NEW ak, NEW dl, NEW us,
         QueueOK(q, st, sg, ak, dl, us)
  PROVE  /\ SnapshotOK(Pending(q), sg, us)
         /\ SnapshotOf(Pending(q), q)
         /\ \A a \in Pending(q) : Waits(a, q, ak)
<1> DEFINE t == Pending(q)
<1>1. \A a \in t : \E i \in DOMAIN q : a = q[i] /\ q[i].status = "pending"
  BY DEF Pending
<1>2. \A i \in DOMAIN q : q[i].status = "pending" => q[i] \in t
  BY DEF Pending
<1>3. \A i \in DOMAIN q : q[i] \in Action
  BY DEF QueueOK
<1> HIDE DEF t
<1>4. SnapshotOK(t, sg, us)
  <2>1. \A a, b \in t : a.id = b.id => a = b
    BY <1>1 DEF QueueOK
  <2>2. \A a \in t : WellMade(a)
    BY <1>1 DEF QueueOK
  <2>3. \A a \in t : a \in Action /\ a.id <= us
    BY <1>1, <1>3 DEF QueueOK
  <2>4. \A x \in sg : \A a \in t : x[1] \notin a.photos
    BY <1>1 DEF QueueOK
  <2> QED BY <2>1, <2>2, <2>3, <2>4 DEF SnapshotOK
<1>5. SnapshotOf(t, q)
  <2>1. \A a \in t : \A i \in DOMAIN q : q[i].id = a.id =>
           q[i].type = a.type /\ q[i].stop = a.stop /\ q[i].kind = a.kind
    BY <1>1 DEF QueueOK
  <2>2. \A a \in t : \A i \in DOMAIN q : q[i].photos \cap a.photos # {} =>
           q[i].id = a.id
    BY <1>1 DEF QueueOK
  <2> QED BY <2>1, <2>2, <1>2 DEF SnapshotOf
<1>6. \A a \in t : Waits(a, q, ak)
  BY <1>1 DEF QueueOK, Waits
<1> QED BY <1>4, <1>5, <1>6 DEF t

(* A replay begins, or none does.                                          *)
LEMMA BeginOK ==
  ASSUME NEW q, NEW st, NEW sg, NEW ak, NEW dl, NEW us,
         QueueOK(q, st, sg, ak, dl, us),
         NEW on, NEW user, Begin(q, on, user)
  PROVE  /\ QueueOK(queue', st, sg, ak, dl, us)
         /\ SnapshotOK(todo', sg, us)
         /\ SnapshotOf(todo', queue')
         /\ ReplayOK(todo', pc', queue', st, ak, dl)
<1>1. CASE on /\ user /\ Pending(q) # {}
  <2>1. /\ todo' = Pending(q)
        /\ pc' = "prepare"
        /\ queue' = Mark(q, Least(todo'), "running")
    BY <1>1 DEF Begin
  <2> QED BY <1>1, <2>1, NewSnapshot, TurnBegins
<1>2. CASE ~(on /\ user /\ Pending(q) # {})
  <2>1. todo' = {} /\ pc' = "idle" /\ queue' = q
    BY <1>2 DEF Begin
  <2> QED BY <2>1 DEF SnapshotOK, SnapshotOf, ReplayOK
<1> QED BY <1>1, <1>2

(* The next action has its turn, or the replay is over.                    *)
LEMMA AdvanceOK ==
  ASSUME NEW q, NEW st, NEW sg, NEW ak, NEW dl, NEW us,
         QueueOK(q, st, sg, ak, dl, us),
         SnapshotOK(todo \ {Current}, sg, us), SnapshotOf(todo \ {Current}, q),
         \A a \in todo \ {Current} : Waits(a, q, ak),
         Advance(q)
  PROVE  /\ QueueOK(queue', st, sg, ak, dl, us)
         /\ SnapshotOK(todo', sg, us)
         /\ SnapshotOf(todo', queue')
         /\ ReplayOK(todo', pc', queue', st, ak, dl)
<1>1. todo' = todo \ {Current}
  BY DEF Advance
<1>2. CASE todo' # {}
  <2>1. pc' = "prepare" /\ queue' = Mark(q, Least(todo'), "running")
    BY <1>1, <1>2 DEF Advance
  <2> QED BY <1>1, <1>2, <2>1, TurnBegins
<1>3. CASE todo' = {}
  <2>1. pc' = "idle" /\ queue' = q
    BY <1>1, <1>3 DEF Advance
  <2> QED BY <1>3, <2>1 DEF SnapshotOK, SnapshotOf, ReplayOK
<1> QED BY <1>2, <1>3

(* When the current action is over, the others still wait.                 *)
LEMMA TurnEnds ==
  ASSUME NEW q, NEW t, NEW p, NEW st, NEW sg, NEW ak, NEW dl, NEW us,
         SnapshotOK(t, sg, us), SnapshotOf(t, q), ReplayOK(t, p, q, st, ak, dl),
         t # {},
         NEW r, NEW s, Settled(q, r, Least(t), s),
         s = "pending" => Least(t).type = "skip",
         NEW ak2, ak2 \subseteq ak \union {Least(t).id}
  PROVE  /\ SnapshotOK(t \ {Least(t)}, sg, us)
         /\ SnapshotOf(t \ {Least(t)}, r)
         /\ \A a \in t \ {Least(t)} : Waits(a, r, ak2)
<1> DEFINE c == Least(t)
           rest == t \ {c}
<1>1. c \in t
  BY LeastIsFirst DEF SnapshotOK
<1>2. Settled(q, r, c, s)
  OBVIOUS
<1>3. s = "pending" => c.type = "skip"
  OBVIOUS
<1>4. ak2 \subseteq ak \union {c.id}
  OBVIOUS
<1>5. \A a \in rest : Waits(a, q, ak)
  BY DEF ReplayOK
<1> HIDE DEF c
<1>6. DOMAIN r = DOMAIN q
  BY <1>2 DEF Settled, SameWork
<1>7. ASSUME NEW i \in DOMAIN q
      PROVE  /\ r[i].id = q[i].id
             /\ r[i].type = q[i].type
             /\ r[i].stop = q[i].stop
             /\ r[i].kind = q[i].kind
             /\ r[i].photos = q[i].photos
             /\ r[i].status = IF q[i].id = c.id THEN s ELSE q[i].status
  BY <1>2 DEF Settled, SameWork
<1>8. \A a \in rest : a.id # c.id
  BY <1>1 DEF SnapshotOK
<1>9. SnapshotOK(rest, sg, us)
  BY DEF SnapshotOK
<1>10. SnapshotOf(rest, r)
  <2>1. ASSUME NEW a \in rest, NEW i \in DOMAIN r, r[i].id = a.id
        PROVE  r[i].type = a.type /\ r[i].stop = a.stop /\ r[i].kind = a.kind
    BY <2>1, <1>6, <1>7 DEF SnapshotOf
  <2>2. ASSUME NEW a \in rest, NEW i \in DOMAIN r, r[i].photos \cap a.photos # {}
        PROVE  r[i].id = a.id
    BY <2>2, <1>6, <1>7 DEF SnapshotOf
  <2>3. ASSUME NEW i \in DOMAIN r, r[i].status = "pending",
               r[i].type \in {"start", "upload"}
        PROVE  (\E a \in rest : a.id = r[i].id) \/ (\A a \in rest : r[i].id > a.id)
    <3>1. q[i].id # c.id
      <4>1. q[i].id = c.id => q[i].type = c.type
        BY <1>1, <1>6, <2>3 DEF SnapshotOf
      <4> QED BY <4>1, <1>3, <1>6, <1>7, <2>3
    <3>2. q[i].status = "pending" /\ q[i].type \in {"start", "upload"}
      BY <3>1, <2>3, <1>6, <1>7
    <3>3. (\E a \in t : a.id = q[i].id) \/ (\A a \in t : q[i].id > a.id)
      BY <3>2, <1>6 DEF SnapshotOf
    <3> QED BY <3>1, <3>3, <1>6, <1>7
  <2> QED BY <2>1, <2>2, <2>3 DEF SnapshotOf
<1>11. ASSUME NEW a \in rest PROVE Waits(a, r, ak2)
  BY <1>4, <1>5, <1>6, <1>7, <1>8 DEF Waits
<1> QED BY <1>9, <1>10, <1>11 DEF c

-----------------------------------------------------------------------------
(* A new action.                                                           *)

(* Place k of e is b, the pending upload of that place with a's photos.    *)
Joined(q, e, k, a) ==
    /\ k \in DOMAIN q
    /\ a.type = "upload"
    /\ q[k].type = "upload"
    /\ q[k].status = "pending"
    /\ e[k].id = q[k].id
    /\ e[k].type = q[k].type
    /\ e[k].stop = q[k].stop
    /\ e[k].kind = q[k].kind
    /\ e[k].status = q[k].status
    /\ e[k].photos = q[k].photos \union a.photos

(* Place k of e is a itself, at the end or instead of a pending skip.      *)
Placed(q, e, k, a) ==
    /\ e[k] = a
    /\ k \in DOMAIN q => /\ a.type = "skip"
                         /\ q[k].type = a.type
                         /\ q[k].stop = a.stop
                         /\ q[k].status = "pending"

(* Enqueuing changes one place of the queue at most, and none only when a  *)
(* live action does the same.                                              *)
LEMMA EnqueuedChangesOnePlace ==
  ASSUME NEW q \in Seq(Action), NEW a \in Action
  PROVE  LET e == Enqueued(q, a)
         IN  /\ e \in Seq(Action)
             /\ DOMAIN q \subseteq DOMAIN e
             /\ \/ /\ e = q
                   /\ \E j \in DOMAIN q : /\ q[j].type = a.type
                                          /\ q[j].stop = a.stop
                                          /\ q[j].status # "done"
                \/ \E k \in DOMAIN e :
                      /\ \A j \in DOMAIN e \ {k} : j \in DOMAIN q /\ e[j] = q[j]
                      /\ Placed(q, e, k, a) \/ Joined(q, e, k, a)
<1> DEFINE e == Enqueued(q, a)
           waiting == Alike(q, a, {"pending"})
           live == Alike(q, a, {"pending", "running"})
           k == First(waiting)
<1>1. waiting \in SUBSET Nat /\ waiting \subseteq DOMAIN q
  BY DEF Alike
<1>2. waiting # {} => k \in waiting
  BY <1>1, FirstIsOneOfThem
<1>3. \A i \in waiting : /\ q[i].type = a.type
                         /\ q[i].stop = a.stop
                         /\ q[i].status = "pending"
  BY DEF Alike
<1> HIDE DEF waiting, k
<1>4. CASE a.type = "upload" /\ waiting # {}
  <2>1. e = [q EXCEPT ![k].photos = @ \union a.photos]
    BY <1>4 DEF Enqueued, waiting, k
  <2>2. k \in DOMAIN q /\ q[k].type = "upload" /\ q[k].status = "pending"
    BY <1>1, <1>2, <1>3, <1>4
  <2>3. e[k] = [q[k] EXCEPT !.photos = q[k].photos \union a.photos]
    BY <2>1, <2>2
  <2>4. q[k] \in Action
    BY <2>2
  <2>5. q[k].photos \union a.photos \in SUBSET Photo
    BY <2>4 DEF Action
  <2>6. /\ e[k] \in Action
        /\ e[k].id = q[k].id
        /\ e[k].type = q[k].type
        /\ e[k].stop = q[k].stop
        /\ e[k].kind = q[k].kind
        /\ e[k].status = q[k].status
        /\ e[k].photos = q[k].photos \union a.photos
    BY <2>3, <2>4, <2>5 DEF Action
  <2>7. DOMAIN e = DOMAIN q /\ \A j \in DOMAIN q \ {k} : e[j] = q[j]
    BY <2>1
  <2>8. e \in Seq(Action)
    <3>1. e = [j \in DOMAIN q |-> e[j]]
      BY <2>1, Zenon
    <3>2. \A j \in DOMAIN q : e[j] \in Action
      BY <2>6, <2>7
    <3> HIDE DEF e
    <3> QED BY <3>1, <3>2, QueueOfPlaces
  <2> QED BY <1>4, <2>2, <2>6, <2>7, <2>8 DEF Joined
<1>5. CASE a.type = "start" /\ live # {}
  <2>1. e = q
    BY <1>5 DEF Enqueued
  <2>2. \E j \in DOMAIN q : /\ q[j].type = a.type
                            /\ q[j].stop = a.stop
                            /\ q[j].status # "done"
    BY <1>5 DEF Alike
  <2> QED BY <2>1, <2>2
<1>6. CASE a.type = "skip" /\ waiting # {}
  <2>1. e = [q EXCEPT ![k] = a]
    BY <1>6 DEF Enqueued, waiting, k
  <2>2. k \in waiting /\ k \in DOMAIN q
    BY <1>1, <1>2, <1>6
  <2>3. e \in Seq(Action) /\ DOMAIN e = DOMAIN q /\ e[k] = a
    BY <2>1, <2>2
  <2>4. \A j \in DOMAIN e \ {k} : j \in DOMAIN q /\ e[j] = q[j]
    BY <2>1, <2>2
  <2>5. Placed(q, e, k, a)
    BY <1>3, <1>6, <2>2, <2>3 DEF Placed
  <2> QED BY <2>2, <2>3, <2>4, <2>5
<1>7. CASE /\ ~(a.type = "upload" /\ waiting # {})
           /\ ~(a.type = "start" /\ live # {})
           /\ ~(a.type = "skip" /\ waiting # {})
  <2>1. e = Append(q, a)
    BY <1>7 DEF Enqueued, waiting
  <2> DEFINE n == Len(q) + 1
  <2>2. e \in Seq(Action) /\ DOMAIN q \subseteq DOMAIN e
    BY <2>1
  <2>3. n \in DOMAIN e /\ n \notin DOMAIN q /\ e[n] = a
    BY <2>1
  <2>4. \A j \in DOMAIN e \ {n} : j \in DOMAIN q /\ e[j] = q[j]
    BY <2>1
  <2> HIDE DEF e, n
  <2>5. Placed(q, e, n, a)
    BY <2>3 DEF Placed
  <2> QED BY <2>2, <2>3, <2>4, <2>5 DEF e
<1> QED BY <1>4, <1>5, <1>6, <1>7

(* The invariant survives a new action whose photos, if it has any, are    *)
(* stored and in no other action.                                          *)
LEMMA EnqueuedOK ==
  ASSUME NEW q, NEW t, NEW p, NEW st, NEW sg, NEW ak, NEW dl, NEW us \in Nat,
         QueueOK(q, st, sg, ak, dl, us),
         SnapshotOK(t, sg, us), SnapshotOf(t, q), ReplayOK(t, p, q, st, ak, dl),
         ak \subseteq 1..us,
         NEW a \in Action, a.id = us + 1, a.status = "pending",
         WellMade(a),
         a.photos \subseteq st,
         \A i \in DOMAIN q : q[i].photos \cap a.photos = {},
         \A b \in t : b.photos \cap a.photos = {},
         NEW sg2 \in SUBSET sg, \A x \in sg2 : x[1] \notin a.photos
  PROVE  LET e == Enqueued(q, a)
         IN  /\ QueueOK(e, st, sg2, ak, dl, us + 1)
             /\ SnapshotOK(t, sg2, us + 1)
             /\ SnapshotOf(t, e)
             /\ ReplayOK(t, p, e, st, ak, dl)
<1> DEFINE e == Enqueued(q, a)
<1>1. q \in Seq(Action)
  BY DEF QueueOK
<1>2. e \in Seq(Action)
  BY <1>1, EnqueuedChangesOnePlace
<1>3. e = q \/ \E k \in DOMAIN e :
                   /\ \A j \in DOMAIN e \ {k} : j \in DOMAIN q /\ e[j] = q[j]
                   /\ e[k] = a \/ Joined(q, e, k, a)
  BY <1>1, EnqueuedChangesOnePlace DEF Placed
<1> HIDE DEF e
<1>4. \A i \in DOMAIN q : q[i] \in Action /\ q[i].id \in Nat /\ q[i].id <= us
  <2>1. \A i \in DOMAIN q : q[i] \in Action /\ q[i].id <= us
    BY <1>1 DEF QueueOK
  <2>2. \A b \in Action : b.id \in Nat
    BY MaxActionsAssumption DEF Action
  <2> QED BY <2>1, <2>2
<1>5. \A b \in t : b \in Action /\ b.id \in Nat /\ b.id <= us
  BY MaxActionsAssumption DEF SnapshotOK, Action
<1>6. SnapshotOK(t, sg2, us + 1)
  BY <1>5 DEF SnapshotOK
<1>7. a.id \notin ak /\ (\A i \in DOMAIN q : a.id # q[i].id)
      /\ (\A b \in t : a.id > b.id)
  BY <1>4, <1>5
<1>8. CASE e = q
  <2>1. QueueOK(q, st, sg2, ak, dl, us + 1)
    BY <1>4 DEF QueueOK
  <2> QED BY <1>6, <1>8, <2>1 DEF e
<1>9. ASSUME NEW k \in DOMAIN e,
             \A j \in DOMAIN e \ {k} : j \in DOMAIN q /\ e[j] = q[j],
             e[k] = a
      PROVE  /\ QueueOK(e, st, sg2, ak, dl, us + 1)
             /\ SnapshotOf(t, e)
             /\ ReplayOK(t, p, e, st, ak, dl)
  <2>1. QueueOK(e, st, sg2, ak, dl, us + 1)
    <3>1. \A i, j \in DOMAIN e : e[i].id = e[j].id => i = j
      BY <1>7, <1>9 DEF QueueOK
    <3>2. \A i \in DOMAIN e : e[i].id <= us + 1
      BY <1>4, <1>9
    <3>3. \A i \in DOMAIN e : WellMade(e[i])
      BY <1>9 DEF QueueOK
    <3>4. \A i, j \in DOMAIN e : e[i].photos \cap e[j].photos # {} => i = j
      BY <1>9 DEF QueueOK
    <3>5. \A i \in DOMAIN e : e[i].photos \subseteq st \union dl
      BY <1>9 DEF QueueOK
    <3>6. \A i \in DOMAIN e : e[i].status = "pending" =>
             e[i].photos \subseteq st /\ e[i].id \notin ak
      BY <1>7, <1>9 DEF QueueOK
    <3>7. \A i \in DOMAIN e : e[i].status = "done" /\ e[i].type # "upload" =>
             e[i].id \in ak
      BY <1>9 DEF QueueOK
    <3>8. \A x \in sg2 : x[1] \in st /\ \A i \in DOMAIN e : x[1] \notin e[i].photos
      BY <1>9 DEF QueueOK
    <3> QED BY <1>2, <3>1, <3>2, <3>3, <3>4, <3>5, <3>6, <3>7, <3>8 DEF QueueOK
  <2>2. SnapshotOf(t, e)
    BY <1>7, <1>9 DEF SnapshotOf
  <2>3. \A c \in t : Waits(c, q, ak) => Waits(c, e, ak)
    BY <1>7, <1>9 DEF Waits
  <2>4. \A c \in t : Runs(c, p, q, st, ak, dl) => Runs(c, p, e, st, ak, dl)
    BY <1>7, <1>9 DEF Runs
  <2>5. t # {} => Least(t) \in t
    BY LeastIsFirst DEF SnapshotOK
  <2> QED BY <2>1, <2>2, <2>3, <2>4, <2>5 DEF ReplayOK
<1>10. ASSUME NEW k \in DOMAIN e,
              \A j \in DOMAIN e \ {k} : j \in DOMAIN q /\ e[j] = q[j],
              Joined(q, e, k, a)
       PROVE  /\ QueueOK(e, st, sg2, ak, dl, us + 1)
              /\ SnapshotOf(t, e)
              /\ ReplayOK(t, p, e, st, ak, dl)
  <2>1. /\ \A i \in DOMAIN e : i \in DOMAIN q
        /\ \A i \in DOMAIN e : /\ e[i].id = q[i].id
                               /\ e[i].type = q[i].type
                               /\ e[i].stop = q[i].stop
                               /\ e[i].kind = q[i].kind
                               /\ e[i].status = q[i].status
        /\ \A i \in DOMAIN e : i # k => e[i].photos = q[i].photos
        /\ e[k].photos = q[k].photos \union a.photos
        /\ e[k].type = "upload" /\ e[k].status = "pending"
    BY <1>10 DEF Joined
  <2>2. QueueOK(e, st, sg2, ak, dl, us + 1)
    <3>1. \A i, j \in DOMAIN e : e[i].id = e[j].id => i = j
      BY <2>1 DEF QueueOK
    <3>2. \A i \in DOMAIN e : e[i].id <= us + 1
      BY <1>4, <2>1
    <3>3. \A i \in DOMAIN e : WellMade(e[i])
      BY <2>1 DEF QueueOK, WellMade
    <3>4. \A i, j \in DOMAIN e : e[i].photos \cap e[j].photos # {} => i = j
      BY <2>1 DEF QueueOK
    <3>5. \A i \in DOMAIN e : e[i].photos \subseteq st \union dl
      BY <2>1 DEF QueueOK
    <3>6. \A i \in DOMAIN e : e[i].status = "pending" =>
             e[i].photos \subseteq st /\ e[i].id \notin ak
      BY <2>1 DEF QueueOK
    <3>7. \A i \in DOMAIN e : e[i].status = "done" /\ e[i].type # "upload" =>
             e[i].id \in ak
      BY <2>1 DEF QueueOK
    <3>8. \A x \in sg2 : x[1] \in st /\ \A i \in DOMAIN e : x[1] \notin e[i].photos
      BY <2>1 DEF QueueOK
    <3> QED BY <1>2, <3>1, <3>2, <3>3, <3>4, <3>5, <3>6, <3>7, <3>8 DEF QueueOK
  <2>3. SnapshotOf(t, e)
    <3>1. \A b \in t : \A i \in DOMAIN e : e[i].id = b.id =>
             e[i].type = b.type /\ e[i].stop = b.stop /\ e[i].kind = b.kind
      BY <2>1 DEF SnapshotOf
    <3>2. \A b \in t : \A i \in DOMAIN e : e[i].photos \cap b.photos # {} =>
             e[i].id = b.id
      BY <2>1 DEF SnapshotOf
    <3>3. \A i \in DOMAIN e :
             e[i].status = "pending" /\ e[i].type \in {"start", "upload"} =>
                 (\E b \in t : b.id = e[i].id) \/ (\A b \in t : e[i].id > b.id)
      BY <2>1 DEF SnapshotOf
    <3> QED BY <3>1, <3>2, <3>3 DEF SnapshotOf
  <2>4. \A c \in t : Waits(c, q, ak) => Waits(c, e, ak)
    BY <2>1 DEF Waits
  <2>5. \A c \in t : Runs(c, p, q, st, ak, dl) => Runs(c, p, e, st, ak, dl)
    BY <2>1 DEF Runs
  <2>6. t # {} => Least(t) \in t
    BY LeastIsFirst DEF SnapshotOK
  <2> QED BY <2>2, <2>3, <2>4, <2>5, <2>6 DEF ReplayOK
<1> QED BY <1>3, <1>6, <1>8, <1>9, <1>10 DEF e

-----------------------------------------------------------------------------
(* The steps.                                                              *)

LEMMA InitInv == Init => Inv
<1> SUFFICES ASSUME Init PROVE Inv
  OBVIOUS
<1>1. RestOK
  BY MaxActionsAssumption DEF Init, RestOK
<1>2. QueueOK(queue, store, staged, acked, delivered, used)
  BY DEF Init, QueueOK
<1>3. SnapshotOK(todo, staged, used) /\ SnapshotOf(todo, queue)
  BY DEF Init, SnapshotOK, SnapshotOf
<1>4. ReplayOK(todo, pc, queue, store, acked, delivered)
  BY DEF Init, ReplayOK
<1> QED BY <1>1, <1>2, <1>3, <1>4 DEF Inv

(* While a replay is under way its current action is one of the snapshot.  *)
LEMMA CurrentIsOfSnapshot ==
  ASSUME Inv, pc # "idle"
  PROVE  /\ todo # {}
         /\ Current \in todo
         /\ Current \in Action
         /\ Current.id \in 1..used
         /\ Runs(Current, pc, queue, store, acked, delivered)
         /\ \A i \in DOMAIN queue :
               queue[i].id = Current.id => queue[i].type = Current.type
<1>1. todo # {} /\ Runs(Current, pc, queue, store, acked, delivered)
  BY DEF Inv, ReplayOK, Current
<1>2. Current \in todo /\ Current \in Action
  BY <1>1, LeastIsFirst DEF Inv, SnapshotOK, Current
<1>3. Current.id \in 1..used
  <2>1. Current.id <= used
    BY <1>2 DEF Inv, SnapshotOK
  <2> QED BY <1>2, <2>1, MaxActionsAssumption DEF Inv, RestOK, Action
<1> QED BY <1>1, <1>2, <1>3 DEF Inv, SnapshotOf

(* A queue to which a new action was added is handed to the replay.        *)
LEMMA NotifyOK ==
  ASSUME Inv, NEW q, NEW sg, NEW us, Notify(q),
         QueueOK(q, store, sg, acked, delivered, us),
         SnapshotOK(todo, sg, us), SnapshotOf(todo, q),
         ReplayOK(todo, pc, q, store, acked, delivered)
  PROVE  /\ QueueOK(queue', store, sg, acked, delivered, us)
         /\ SnapshotOK(todo', sg, us)
         /\ SnapshotOf(todo', queue')
         /\ ReplayOK(todo', pc', queue', store, acked, delivered)
<1>1. CASE todo = {}
  <2>1. Begin(q, online, signedIn)
    BY <1>1 DEF Notify
  <2> QED BY <2>1, BeginOK
<1>2. CASE todo # {}
  BY <1>2 DEF Notify, replay
<1> QED BY <1>1, <1>2

(* A start, skip or completion that the worker asks for.                   *)
LEMMA AskEnqueues ==
  ASSUME Inv, NEW type \in Type \ {"upload"}, NEW s \in Stop, Ask(type, s)
  PROVE  LET a == Fresh(type, s, NoKind, {})
             e == Enqueued(queue, a)
         IN  /\ a \in Action
             /\ used' = used + 1 /\ used \in Nat
             /\ QueueOK(e, store, staged, acked, delivered, used + 1)
             /\ SnapshotOK(todo, staged, used + 1)
             /\ SnapshotOf(todo, e)
             /\ ReplayOK(todo, pc, e, store, acked, delivered)
<1> DEFINE a == Fresh(type, s, NoKind, {})
<1>1. used \in Nat /\ used < MaxActions /\ used' = used + 1 /\ acked \subseteq 1..used
  BY MaxActionsAssumption DEF Inv, RestOK, Ask
<1>2. a \in Action
  <2>1. used + 1 \in 1..MaxActions /\ 0 \in 0..MaxRetries
    BY <1>1, MaxActionsAssumption DEF MaxRetries
  <2> QED BY <2>1 DEF Fresh, Action, Status
<1>3. a.id = used + 1 /\ a.status = "pending" /\ a.photos = {} /\ WellMade(a)
  BY DEF Fresh, WellMade
<1> HIDE DEF a
<1>4. /\ QueueOK(Enqueued(queue, a), store, staged, acked, delivered, used + 1)
      /\ SnapshotOK(todo, staged, used + 1)
      /\ SnapshotOf(todo, Enqueued(queue, a))
      /\ ReplayOK(todo, pc, Enqueued(queue, a), store, acked, delivered)
  BY <1>1, <1>2, <1>3, EnqueuedOK DEF Inv
<1> QED BY <1>1, <1>2, <1>4 DEF a

LEMMA AskInv ==
  ASSUME Inv, NEW type \in Type \ {"upload"}, NEW s \in Stop, Ask(type, s)
  PROVE  Inv'
<1> DEFINE e == Enqueued(queue, Fresh(type, s, NoKind, {}))
<1>1. /\ QueueOK(e, store, staged, acked, delivered, used')
      /\ SnapshotOK(todo, staged, used')
      /\ SnapshotOf(todo, e)
      /\ ReplayOK(todo, pc, e, store, acked, delivered)
  BY AskEnqueues
<1>2. Notify(e) /\ used < MaxActions /\ used' = used + 1
      /\ UNCHANGED <<store, staged, online, signedIn, acked, delivered>>
  BY DEF Ask, browser, server
<1>3. RestOK'
  BY <1>2, MaxActionsAssumption DEF Inv, RestOK
<1> HIDE DEF e
<1> QED BY <1>1, <1>2, <1>3, NotifyOK DEF Inv

(* The upload of a photo that was stored.                                  *)
LEMMA QueuePhotoEnqueues ==
  ASSUME Inv, NEW x \in staged, QueuePhoto(x)
  PROVE  LET a == Fresh("upload", x[2], x[3], {x[1]})
             e == Enqueued(queue, a)
         IN  /\ a \in Action
             /\ used' = used + 1 /\ used \in Nat
             /\ staged' = {}
             /\ QueueOK(e, store, staged', acked, delivered, used + 1)
             /\ SnapshotOK(todo, staged', used + 1)
             /\ SnapshotOf(todo, e)
             /\ ReplayOK(todo, pc, e, store, acked, delivered)
<1> DEFINE a == Fresh("upload", x[2], x[3], {x[1]})
<1>1. used \in Nat /\ used < MaxActions /\ used' = used + 1 /\ acked \subseteq 1..used
  BY MaxActionsAssumption DEF Inv, RestOK, QueuePhoto
<1>2. x[1] \in Photo /\ x[2] \in Stop /\ x[3] \in Kind
  BY DEF Inv, RestOK
<1>3. a \in Action
  <2>1. used + 1 \in 1..MaxActions /\ 0 \in 0..MaxRetries
    BY <1>1, MaxActionsAssumption DEF MaxRetries
  <2> QED BY <1>2, <2>1 DEF Fresh, Action, Status, Type, Rank
<1>4. a.id = used + 1 /\ a.status = "pending" /\ WellMade(a)
  BY <1>2 DEF Fresh, WellMade
<1>5. a.photos = {x[1]}
  BY DEF Fresh
<1> HIDE DEF a
<1>6. a.photos \subseteq store /\ \A i \in DOMAIN queue : queue[i].photos \cap a.photos = {}
  BY <1>5 DEF Inv, QueueOK
<1>7. \A b \in todo : b.photos \cap a.photos = {}
  BY <1>5 DEF Inv, SnapshotOK
<1>8. staged' = {}
  BY DEF QueuePhoto, Inv, RestOK
<1>9. staged' \in SUBSET staged /\ \A y \in staged' : y[1] \notin a.photos
  BY <1>8
<1>10. /\ QueueOK(queue, store, staged, acked, delivered, used)
       /\ SnapshotOK(todo, staged, used)
       /\ SnapshotOf(todo, queue)
       /\ ReplayOK(todo, pc, queue, store, acked, delivered)
  BY DEF Inv
<1>11. used \in Nat /\ acked \subseteq 1..used
  BY <1>1
<1>12. /\ QueueOK(Enqueued(queue, a), store, staged', acked, delivered, used + 1)
       /\ SnapshotOK(todo, staged', used + 1)
       /\ SnapshotOf(todo, Enqueued(queue, a))
       /\ ReplayOK(todo, pc, Enqueued(queue, a), store, acked, delivered)
  <2> HIDE <1>5
  <2> QED BY <1>3, <1>4, <1>6, <1>7, <1>9, <1>10, <1>11, EnqueuedOK
<1> QED BY <1>1, <1>3, <1>8, <1>12 DEF a

LEMMA QueuePhotoInv ==
  ASSUME Inv, NEW x \in staged, QueuePhoto(x)
  PROVE  Inv'
<1> DEFINE e == Enqueued(queue, Fresh("upload", x[2], x[3], {x[1]}))
<1>1. /\ staged' = {}
      /\ QueueOK(e, store, staged', acked, delivered, used')
      /\ SnapshotOK(todo, staged', used')
      /\ SnapshotOf(todo, e)
      /\ ReplayOK(todo, pc, e, store, acked, delivered)
  BY QueuePhotoEnqueues
<1>2. Notify(e) /\ used < MaxActions /\ used' = used + 1
      /\ UNCHANGED <<store, online, signedIn, acked, delivered>>
  BY DEF QueuePhoto, browser, server
<1>3. RestOK'
  BY <1>1, <1>2, MaxActionsAssumption DEF Inv, RestOK
<1> HIDE DEF e
<1> QED BY <1>1, <1>2, <1>3, NotifyOK DEF Inv

(* The current action gets a final status, or is a skip that waits again,  *)
(* and the replay goes on; blobs go if they are its own and were delivered. *)
LEMMA TurnOver ==
  ASSUME Inv, pc # "idle", NEW r, NEW s \in Status, Settled(queue, r, Current, s),
         Advance(r),
         s = "pending" => Current.type = "skip" /\ pc = "sent" /\ acked' = acked,
         s = "done" => Current.type = "upload" \/ Current.id \in acked',
         store' \subseteq store, store \ store' \subseteq Current.photos \cap delivered',
         pc = "sent" => store' = store,
         delivered \subseteq delivered', delivered' \subseteq Photo,
         acked \subseteq acked', acked' \subseteq acked \union {Current.id},
         UNCHANGED <<used, staged, online, signedIn>>
  PROVE  Inv'
<1>1. /\ todo # {}
      /\ Current \in todo
      /\ Current.id \in 1..used
      /\ Runs(Current, pc, queue, store, acked, delivered)
      /\ \A i \in DOMAIN queue : queue[i].id = Current.id => queue[i].type = Current.type
  BY CurrentIsOfSnapshot
<1>2. RestOK'
  BY <1>1 DEF Inv, RestOK
<1>3. QueueOK(r, store', staged, acked', delivered', used)
  <2>1. \A i \in DOMAIN queue :
           queue[i].id # Current.id => queue[i].photos \cap store \subseteq store'
    <3>1. \A i \in DOMAIN queue :
             queue[i].id # Current.id => queue[i].photos \cap Current.photos = {}
      BY <1>1 DEF Inv, SnapshotOf
    <3> QED BY <3>1
  <2>2. \A x \in staged : x[1] \in store'
    <3>1. \A x \in staged : x[1] \in store /\ x[1] \notin Current.photos
      BY <1>1 DEF Inv, QueueOK, SnapshotOK
    <3> QED BY <3>1
  <2>3. s = "pending" => /\ Current.id \notin acked'
                         /\ \A i \in DOMAIN queue :
                              queue[i].id = Current.id => queue[i].photos \subseteq store'
    BY <1>1 DEF Runs
  <2>4. s = "done" => \A i \in DOMAIN queue : queue[i].id = Current.id =>
                         queue[i].type = "upload" \/ Current.id \in acked'
    BY <1>1
  <2>5. QueueOK(queue, store, staged, acked, delivered, used)
    BY DEF Inv
  <2>6. store \subseteq store' \union delivered'
    OBVIOUS
  <2> QED BY <2>1, <2>2, <2>3, <2>4, <2>5, <2>6, SettledQueueOK
<1>4. /\ SnapshotOK(todo \ {Current}, staged, used)
      /\ SnapshotOf(todo \ {Current}, r)
      /\ \A a \in todo \ {Current} : Waits(a, r, acked')
  <2>1. /\ SnapshotOK(todo, staged, used)
        /\ SnapshotOf(todo, queue)
        /\ ReplayOK(todo, pc, queue, store, acked, delivered)
    BY DEF Inv
  <2>2. Current = Least(todo)
    BY DEF Current
  <2> QED BY <1>1, <2>1, <2>2, TurnEnds
<1>5. /\ QueueOK(queue', store', staged, acked', delivered', used)
      /\ SnapshotOK(todo', staged, used)
      /\ SnapshotOf(todo', queue')
      /\ ReplayOK(todo', pc', queue', store', acked', delivered')
  BY <1>3, <1>4, AdvanceOK
<1> QED BY <1>2, <1>5 DEF Inv

LEMMA ShootInv ==
  ASSUME Inv, NEW x \in Photo, NEW s \in Stop, NEW k \in Kind, Shoot(x, s, k)
  PROVE  Inv'
<1>1. /\ staged = {}
      /\ x \notin store \union delivered
      /\ \A a \in todo : x \notin a.photos
      /\ store \subseteq store' /\ store' \subseteq store \union {x}
      /\ delivered \subseteq delivered' /\ delivered' \subseteq delivered \union {x}
      /\ staged' = {} \/ (staged' = {<<x, s, k>>} /\ x \in store')
      /\ UNCHANGED <<queue, used, todo, pc, online, signedIn, acked>>
  BY DEF Shoot, replay, browser
<1>2. RestOK'
  BY <1>1 DEF Inv, RestOK
<1>3. QueueOK(queue, store', staged', acked, delivered', used)
  <2>1. \A i \in DOMAIN queue : x \notin queue[i].photos
    BY <1>1 DEF Inv, QueueOK
  <2>2. \A i \in DOMAIN queue : queue[i].photos \subseteq store' \union delivered'
    BY <1>1 DEF Inv, QueueOK
  <2>3. \A i \in DOMAIN queue : queue[i].status = "pending" =>
           queue[i].photos \subseteq store' /\ queue[i].id \notin acked
    BY <1>1 DEF Inv, QueueOK
  <2>4. \A y \in staged' : y[1] \in store' /\ \A i \in DOMAIN queue : y[1] \notin queue[i].photos
    BY <1>1, <2>1
  <2> QED BY <2>2, <2>3, <2>4 DEF Inv, QueueOK
<1>4. SnapshotOK(todo, staged', used)
  BY <1>1 DEF Inv, SnapshotOK
<1>5. ReplayOK(todo, pc, queue, store', acked, delivered')
  <2>1. \A c \in todo : Runs(c, pc, queue, store, acked, delivered) =>
                         Runs(c, pc, queue, store', acked, delivered')
    BY <1>1 DEF Runs
  <2>2. todo # {} => Least(todo) \in todo
    BY LeastIsFirst DEF Inv, SnapshotOK
  <2> QED BY <2>1, <2>2 DEF Inv, ReplayOK
<1> QED BY <1>1, <1>2, <1>3, <1>4, <1>5 DEF Inv

LEMMA ReloadInv ==
  ASSUME Inv, Reload
  PROVE  Inv'
<1>1. /\ staged' = {}
      /\ Begin(queue, online, signedIn)
      /\ UNCHANGED <<used, store, online, signedIn, acked>>
      /\ delivered' = delivered \/ (pc = "sent" /\ delivered' = delivered \union Current.photos)
  BY DEF Reload, browser
<1>2. delivered \subseteq delivered' /\ delivered' \subseteq Photo
  <2>1. pc = "sent" => Current.photos \subseteq Photo
    BY CurrentIsOfSnapshot DEF Action
  <2> QED BY <1>1, <2>1 DEF Inv, RestOK
<1>3. RestOK'
  BY <1>1, <1>2 DEF Inv, RestOK
<1>4. QueueOK(queue, store, {}, acked, delivered', used)
  <2>1. \A i \in DOMAIN queue : queue[i].photos \subseteq store \union delivered'
    BY <1>2 DEF Inv, QueueOK
  <2> QED BY <2>1 DEF Inv, QueueOK
<1>5. /\ QueueOK(queue', store, {}, acked, delivered', used)
      /\ SnapshotOK(todo', {}, used)
      /\ SnapshotOf(todo', queue')
      /\ ReplayOK(todo', pc', queue', store, acked, delivered')
  BY <1>1, <1>4, BeginOK
<1> QED BY <1>1, <1>3, <1>5 DEF Inv

LEMMA SignOutInv ==
  ASSUME Inv, SignOut
  PROVE  Inv'
<1>1. /\ signedIn' = FALSE
      /\ queue' = <<>>
      /\ store' = {}
      /\ staged = {}
      /\ UNCHANGED <<used, staged, todo, pc, online, acked, delivered>>
  BY DEF SignOut, replay, server
<1>2. RestOK'
  BY <1>1 DEF Inv, RestOK
<1>3. QueueOK(<<>>, {}, {}, acked, delivered, used)
  BY DEF QueueOK
<1>4. SnapshotOf(todo, <<>>)
  BY DEF SnapshotOf
<1>5. ReplayOK(todo, pc, <<>>, {}, acked, delivered)
  <2>1. \A c \in todo : Runs(c, pc, queue, store, acked, delivered) =>
                         Runs(c, pc, <<>>, {}, acked, delivered)
    BY DEF Runs
  <2>2. \A a \in todo : Waits(a, queue, acked) => Waits(a, <<>>, acked)
    BY DEF Waits
  <2>3. todo # {} => Least(todo) \in todo
    BY LeastIsFirst DEF Inv, SnapshotOK
  <2> QED BY <2>1, <2>2, <2>3 DEF Inv, ReplayOK
<1> QED BY <1>1, <1>2, <1>3, <1>4, <1>5 DEF Inv

LEMMA PrepareInv ==
  ASSUME Inv, Prepare
  PROVE  Inv'
<1>1. /\ pc = "prepare" /\ pc' = "sent"
      /\ UNCHANGED <<queue, used, store, staged, todo, online, signedIn, acked, delivered>>
  BY DEF Prepare, device, browser, server
<1>2. RestOK'
  BY <1>1 DEF Inv, RestOK
<1>3. ReplayOK(todo, "sent", queue, store, acked, delivered)
  BY <1>1 DEF Inv, ReplayOK, Runs
<1> QED BY <1>1, <1>2, <1>3 DEF Inv

LEMMA AcknowledgedInv ==
  ASSUME Inv, Acknowledged
  PROVE  Inv'
<1>1. /\ pc = "sent"
      /\ acked' = acked \union {Current.id}
      /\ delivered' = delivered \union Current.photos
      /\ UNCHANGED <<used, store, staged, online, signedIn>>
  BY DEF Acknowledged, browser
<1>2. /\ todo # {}
      /\ Current \in todo
      /\ Current \in Action
      /\ Current.id \in 1..used
      /\ Runs(Current, pc, queue, store, acked, delivered)
  BY <1>1, CurrentIsOfSnapshot
<1>3. delivered' \subseteq Photo
  BY <1>1, <1>2 DEF Inv, RestOK, Action
<1>4. CASE Current.type = "upload"
  <2>1. pc' = "clean" /\ UNCHANGED <<queue, todo>>
    BY <1>4 DEF Acknowledged
  <2>2. RestOK'
    BY <1>1, <1>2, <1>3 DEF Inv, RestOK
  <2>3. QueueOK(queue, store, staged, acked', delivered', used)
    <3>1. \A i \in DOMAIN queue : queue[i].photos \subseteq store \union delivered'
      BY <1>1 DEF Inv, QueueOK
    <3>2. \A i \in DOMAIN queue : queue[i].status = "pending" =>
             queue[i].photos \subseteq store /\ queue[i].id \notin acked'
      BY <1>1, <1>2 DEF Inv, QueueOK, Runs
    <3>3. \A i \in DOMAIN queue : queue[i].status = "done" /\ queue[i].type # "upload" =>
             queue[i].id \in acked'
      BY <1>1 DEF Inv, QueueOK
    <3> QED BY <3>1, <3>2, <3>3 DEF Inv, QueueOK
  <2>4. ReplayOK(todo, "clean", queue, store, acked', delivered')
    <3>1. Runs(Current, "clean", queue, store, acked', delivered')
      BY <1>1, <1>2, <1>4 DEF Runs
    <3>2. \A a \in todo \ {Current} : Waits(a, queue, acked')
      <4>1. \A a \in todo \ {Current} : a.id # Current.id
        BY <1>2 DEF Inv, SnapshotOK
      <4>2. \A a \in todo \ {Current} : Waits(a, queue, acked)
        BY <1>2 DEF Inv, ReplayOK, Current
      <4> QED BY <1>1, <4>1, <4>2 DEF Waits
    <3> QED BY <1>2, <3>1, <3>2 DEF ReplayOK, Current
  <2> QED BY <1>1, <2>1, <2>2, <2>3, <2>4 DEF Inv
<1>5. CASE Current.type # "upload"
  <2>1. Advance(Mark(queue, Current, "done"))
    BY <1>5 DEF Acknowledged
  <2>2. Settled(queue, Mark(queue, Current, "done"), Current, "done") /\ "done" \in Status
    BY MarkSettles DEF Inv, QueueOK, Status
  <2> QED BY <1>1, <1>3, <2>1, <2>2, TurnOver
<1> QED BY <1>4, <1>5

LEMMA NetworkFailsInv ==
  ASSUME Inv, NetworkFails
  PROVE  Inv'
<1> DEFINE r == Mark(queue, Current, "pending")
<1>1. /\ pc = "sent"
      /\ queue' = r /\ todo' = {} /\ pc' = "idle"
      /\ delivered' = delivered \/ delivered' = delivered \union Current.photos
      /\ UNCHANGED <<used, store, staged, online, signedIn, acked>>
  BY DEF NetworkFails, Requeue, browser
<1>2. /\ Current \in Action
      /\ Runs(Current, pc, queue, store, acked, delivered)
  BY <1>1, CurrentIsOfSnapshot
<1>3. delivered \subseteq delivered' /\ delivered' \subseteq Photo
  BY <1>1, <1>2 DEF Inv, RestOK, Action
<1>4. RestOK'
  BY <1>1, <1>3 DEF Inv, RestOK
<1>5. Settled(queue, r, Current, "pending") /\ "pending" \in Status
  BY MarkSettles DEF Inv, QueueOK, Status
<1> HIDE DEF r
<1>6. QueueOK(r, store, staged, acked, delivered', used)
  <2>1. /\ Current.id \notin acked
        /\ \A i \in DOMAIN queue :
              queue[i].id = Current.id => queue[i].photos \subseteq store
    BY <1>1, <1>2 DEF Runs
  <2>2. QueueOK(queue, store, staged, acked, delivered, used)
    BY DEF Inv
  <2>3. /\ \A x \in staged : x[1] \in store
        /\ \A i \in DOMAIN queue : queue[i].photos \cap store \subseteq store
        /\ store \subseteq store \union delivered'
        /\ acked \subseteq acked \union {Current.id}
    BY DEF Inv, QueueOK
  <2> QED BY <1>3, <1>5, <2>1, <2>2, <2>3, SettledQueueOK
<1>7. /\ SnapshotOK({}, staged, used)
      /\ SnapshotOf({}, r)
      /\ ReplayOK({}, "idle", r, store, acked, delivered')
  BY DEF SnapshotOK, SnapshotOf, ReplayOK
<1> QED BY <1>1, <1>4, <1>6, <1>7 DEF Inv

LEMMA CleanInv ==
  ASSUME Inv, Clean
  PROVE  Inv'
<1>1. /\ pc = "clean"
      /\ UNCHANGED <<used, staged, online, signedIn, acked, delivered>>
  BY DEF Clean, browser, server
<1>2. Runs(Current, pc, queue, store, acked, delivered)
  BY <1>1, CurrentIsOfSnapshot
<1>3. PICK s \in {"done", "failed"} : Advance(Mark(queue, Current, s))
  BY DEF Clean
<1>4. store' \subseteq store /\ store \ store' \subseteq Current.photos
  BY DEF Clean
<1>5. store \ store' \subseteq Current.photos \cap delivered'
  BY <1>1, <1>2, <1>4 DEF Runs
<1>6. Settled(queue, Mark(queue, Current, s), Current, s) /\ s \in Status
  BY MarkSettles DEF Inv, QueueOK, Status
<1>7. Current.type = "upload" /\ s # "pending"
  BY <1>1, <1>2 DEF Runs
<1>8. delivered' \subseteq Photo
  BY <1>1 DEF Inv, RestOK
<1> QED BY <1>1, <1>3, <1>4, <1>5, <1>6, <1>7, <1>8, TurnOver

LEMMA FailedInv ==
  ASSUME Inv, PrepareFails \/ Refused
  PROVE  Inv'
<1>1. /\ pc # "idle"
      /\ Advance(Mark(queue, Current, "failed"))
      /\ UNCHANGED <<used, store, staged, online, signedIn, acked, delivered>>
  BY DEF PrepareFails, Refused, browser, server
<1>2. Settled(queue, Mark(queue, Current, "failed"), Current, "failed") /\ "failed" \in Status
  BY MarkSettles DEF Inv, QueueOK, Status
<1>3. delivered' \subseteq Photo
  BY <1>1 DEF Inv, RestOK
<1> QED BY <1>1, <1>2, <1>3, TurnOver

LEMMA PhotoMissingInv ==
  ASSUME Inv, PhotoMissing
  PROVE  Inv'
<1>1. /\ pc = "sent"
      /\ Current.type = "skip"
      /\ Current.retry < MaxRetries
      /\ Advance(Retried(queue, Current))
      /\ UNCHANGED <<used, store, staged, online, signedIn, acked, delivered>>
  BY DEF PhotoMissing, browser, server
<1>2. Settled(queue, Retried(queue, Current), Current, "pending") /\ "pending" \in Status
  BY <1>1, RetriedSettles, CurrentIsOfSnapshot DEF Inv, QueueOK, Status
<1>3. delivered' \subseteq Photo
  BY <1>1 DEF Inv, RestOK
<1> QED BY <1>1, <1>2, <1>3, TurnOver

LEMMA NextInv == Inv /\ [Next]_vars => Inv'
<1> SUFFICES ASSUME Inv, [Next]_vars PROVE Inv'
  OBVIOUS
<1>1. CASE \E s \in Stop, t \in Type \ {"upload"} : Ask(t, s)
  BY <1>1, AskInv
<1>2. CASE \E x \in Photo, s \in Stop, k \in Kind : Shoot(x, s, k)
  BY <1>2, ShootInv
<1>3. CASE \E x \in staged : QueuePhoto(x)
  BY <1>3, QueuePhotoInv
<1>4. CASE GoOnline
  <2>1. /\ online' = TRUE
        /\ UNCHANGED <<used, store, staged, signedIn, acked, delivered>>
    BY <1>4 DEF GoOnline, server
  <2>2. RestOK'
    BY <2>1 DEF Inv, RestOK
  <2>3. CASE todo = {}
    <3>1. Begin(queue, TRUE, signedIn)
      BY <1>4, <2>3 DEF GoOnline
    <3> QED BY <2>1, <2>2, <3>1, BeginOK DEF Inv
  <2>4. CASE todo # {}
    BY <1>4, <2>1, <2>2, <2>4 DEF GoOnline, replay, Inv
  <2> QED BY <2>3, <2>4
<1>5. CASE GoOffline
  BY <1>5 DEF GoOffline, device, replay, server, Inv, RestOK
<1>6. CASE Reload
  BY <1>6, ReloadInv
<1>7. CASE SignOut
  BY <1>7, SignOutInv
<1>8. CASE SignIn
  BY <1>8 DEF SignIn, device, replay, server, Inv, RestOK
<1>9. CASE Replay
  BY <1>9, PrepareInv, FailedInv, AcknowledgedInv, PhotoMissingInv,
     NetworkFailsInv, CleanInv DEF Replay
<1>10. CASE UNCHANGED vars
  BY <1>10 DEF vars, device, replay, browser, server, Inv, RestOK
<1> QED BY <1>1, <1>2, <1>3, <1>4, <1>5, <1>6, <1>7, <1>8, <1>9, <1>10 DEF Next

-----------------------------------------------------------------------------
(* The invariant implies what the runs check.                              *)

LEMMA InvImpliesTypeOK == Inv => TypeOK
<1> SUFFICES ASSUME Inv PROVE TypeOK
  OBVIOUS
<1>1. acked \subseteq 1..MaxActions
  BY MaxActionsAssumption DEF Inv, RestOK
<1>2. todo \subseteq Action
  BY DEF Inv, SnapshotOK
<1>3. /\ queue \in Seq(Action)
      /\ \A i, j \in DOMAIN queue : queue[i].id = queue[j].id => i = j
  BY DEF Inv, QueueOK
<1>4. pc \in {"idle", "prepare", "sent", "clean"} /\ (pc = "idle" <=> todo = {})
  BY DEF Inv, ReplayOK
<1> QED BY <1>1, <1>2, <1>3, <1>4 DEF Inv, RestOK, TypeOK

LEMMA InvImpliesCompletionGoesLast == Inv => CompletionGoesLast
<1> SUFFICES ASSUME Inv, pc = "sent", Current.type = "complete",
                    NEW i \in DOMAIN queue, queue[i].status = "pending",
                    queue[i].stop = Current.stop,
                    queue[i].type \in {"start", "upload"}
             PROVE  /\ queue[i].id > Current.id
                    /\ \A b \in todo : b.id # queue[i].id
  BY DEF CompletionGoesLast, Pending
<1>1. Current \in todo
  BY CurrentIsOfSnapshot
<1>2. \A b \in todo : b.id # queue[i].id
  <2>1. SUFFICES ASSUME NEW b \in todo, b.id = queue[i].id PROVE FALSE
    OBVIOUS
  <2>2. b.type \in {"start", "upload"}
    BY <2>1 DEF Inv, SnapshotOf
  <2>3. Rank[Current.type] <= Rank[b.type]
    <3>1. todo \in SUBSET Action /\ todo # {}
      BY <1>1 DEF Inv, SnapshotOK
    <3>2. Rank[Current.type] < Rank[b.type] \/ Rank[Current.type] = Rank[b.type]
      BY <3>1, LeastIsFirst DEF Current
    <3> QED BY <2>2, <3>2 DEF Rank
  <2> QED BY <2>2, <2>3 DEF Rank
<1>3. \A b \in todo : queue[i].id > b.id
  BY <1>2 DEF Inv, SnapshotOf
<1> QED BY <1>1, <1>2, <1>3

-----------------------------------------------------------------------------
(* The inductive invariant holds of every state of the queue, the snapshot *)
(* and the store (offlineQueue.ts, photoStore.ts, OfflineSyncManager.tsx). *)
THEOREM QueueInvariant == Spec => []Inv
BY InitInv, NextInv, PTL DEF Spec

(* The types; ids are given once; and a replay is under way exactly while  *)
(* it has something to do, so that the lock of OfflineSyncManager is never *)
(* left behind by a replay that ended.                                     *)
THEOREM TypeCorrect == Spec => []TypeOK
BY QueueInvariant, InvImpliesTypeOK, PTL

(* An upload that will run again has its blobs, although clean-ups, merges,*)
(* lost answers and reloads come between (WaitingUploadHasBlobs).          *)
THEOREM WaitingUploadsCorrect == Spec => []WaitingUploadHasBlobs
<1>1. Inv => WaitingUploadHasBlobs
  BY DEF Inv, QueueOK, WaitingUploadHasBlobs, Pending
<1> QED BY <1>1, QueueInvariant, PTL

(* A start, skip or completion is marked done only when the server said so.*)
THEOREM DoneCorrect == Spec => []DoneWasAcknowledged
<1>1. Inv => DoneWasAcknowledged
  BY DEF Inv, QueueOK, DoneWasAcknowledged
<1> QED BY <1>1, QueueInvariant, PTL

(* No start or upload of its stop that was there before it, or that the    *)
(* same replay knows of, waits when a completion is sent.                  *)
THEOREM CompletionCorrect == Spec => []CompletionGoesLast
BY QueueInvariant, InvImpliesCompletionGoesLast, PTL

(* While the worker is signed in, a blob leaves the device only when its   *)
(* photo is on the server.                                                 *)
THEOREM BlobsCorrect == Spec => BlobOutlivesUpload
<1>1. Inv /\ [Next]_vars => [signedIn' => store \ store' \subseteq delivered]_vars
  <2> SUFFICES ASSUME Inv, Next, signedIn', NEW x \in store, x \notin store'
               PROVE  x \in delivered
    BY DEF vars
  <2>1. Clean \/ SignOut
    BY DEF Next, Ask, Shoot, QueuePhoto, GoOnline, GoOffline, Reload, SignIn, Replay,
       Prepare, PrepareFails, Acknowledged, Refused, PhotoMissing, NetworkFails, device
  <2>2. Clean
    BY <2>1 DEF SignOut
  <2>3. pc = "clean" /\ x \in Current.photos
    BY <2>2 DEF Clean
  <2> QED BY <2>3, CurrentIsOfSnapshot DEF Runs
<1> QED BY <1>1, QueueInvariant, PTL DEF Spec, BlobOutlivesUpload

(* An action whose success the client has seen is never sent again.        *)
THEOREM NoResend == Spec => AckedIsNotResent
<1>1. Inv /\ [Next]_vars => [pc # "sent" /\ pc' = "sent" => Current.id \notin acked]_vars
  <2> SUFFICES ASSUME Inv, Next, pc # "sent", pc' = "sent"
               PROVE  Current.id \notin acked
    BY DEF vars
  <2>1. Prepare
    BY DEF Next, Ask, Shoot, QueuePhoto, GoOnline, GoOffline, Reload, SignOut, SignIn,
       Replay, PrepareFails, Acknowledged, Refused, PhotoMissing, NetworkFails, Clean,
       device, replay, Notify, Begin, Advance, Requeue
  <2>2. pc = "prepare"
    BY <2>1 DEF Prepare
  <2> QED BY <2>2, CurrentIsOfSnapshot DEF Runs
<1> QED BY <1>1, QueueInvariant, PTL DEF Spec, AckedIsNotResent
=============================================================================
