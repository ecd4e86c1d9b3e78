-------------------------- MODULE FieldSyncProofs ---------------------------
(***************************************************************************)
(* The worker's day end to end, for any number of stops, photos, kinds and *)
(* actions: every step of the screen, the server and the network is a step *)
(* of the queue of OfflineQueue, whose theorems therefore hold here too,   *)
(* and the screen, the queue and the server's record agree as FieldSync    *)
(* says they do.                                                           *)
(***************************************************************************)
EXTENDS FieldSync, OfflineQueueProofs

-----------------------------------------------------------------------------
(* A stop was started on the server, or a start of it is in the queue and  *)
(* has not been acknowledged.                                              *)
StartKnown(s) ==
    \/ visited[s] # "none"
    \/ \E j \in DOMAIN queue : /\ queue[j].type = "start"
                               /\ queue[j].stop = s
                               /\ queue[j].status # "done"

(* Nobody will touch the action at place i again: it failed, or a reload   *)
(* left it "running".                                                      *)
Stuck(q, t, i) ==
    \/ q[i].status = "failed"
    \/ q[i].status = "running" /\ \A a \in t : a.id # q[i].id

ServerTypes == /\ served \in StopStatuses
               /\ runStatus \in {"planned", "in_progress", "finished"}
               /\ visited \in [Stop -> {"none", "open", "completed", "skipped"}]
               /\ evidence \in [Stop -> SUBSET Kind]
               /\ finishedAt \in BOOLEAN

ScreenTypes == /\ {route, cached} \subseteq Route \union {NoRoute}
               /\ fetch \in Route \union {NoRoute, Asked}
               /\ begun \subseteq Stop
               /\ processed \in BOOLEAN

(* The stop and its visit change together, and evidence needs a visit.     *)
RecordOK == \A s \in Stop : /\ visited[s] = "none" <=> served[s] = "pending"
                            /\ evidence[s] # {} => visited[s] # "none"

(* What was read from the server is never ahead of it.                     *)
CopyOK(r) == \A s \in Stop : /\ r[s] \in Terminal => served[s] \in Terminal
                             /\ r[s] = "in_progress" => visited[s] # "none"

(* The screen is ahead of the server by what the queue holds.              *)
ScreenOK == \A s \in Stop : /\ route[s] = "in_progress" => StartKnown(s)
                            /\ s \in begun => StartKnown(s)
StagedOK == \A x \in staged : StartKnown(x[2])

(* An upload was queued behind a start of its stop, unless the server has  *)
(* that start already.                                                     *)
UploadsFollowStarts ==
    \A i \in DOMAIN queue :
        queue[i].type = "upload" =>
            \/ visited[queue[i].stop] # "none"
            \/ \E j \in DOMAIN queue : /\ queue[j].type = "start"
                                       /\ queue[j].stop = queue[i].stop
                                       /\ queue[j].status # "done"
                                       /\ queue[j].id < queue[i].id

(* QueuedPhotoIsEvidence, and the start in the way will not get out of it. *)
AckedUploadsCount ==
    \A i \in DOMAIN queue :
        queue[i].type = "upload" /\ queue[i].id \in acked =>
            \/ queue[i].kind \in evidence[queue[i].stop]
            \/ \E j \in DOMAIN queue : /\ queue[j].type = "start"
                                       /\ queue[j].stop = queue[i].stop
                                       /\ Stuck(queue, todo, j)

FieldInv == /\ Inv
            /\ ServerTypes
            /\ ScreenTypes
            /\ RecordOK
            /\ CopyOK(cached)
            /\ CopyOK(fetch)
            /\ ScreenOK
            /\ StagedOK
            /\ NoWorkForgotten
            /\ UploadsFollowStarts
            /\ AckedUploadsCount

-----------------------------------------------------------------------------
(* How the queue goes on from q, with the snapshot t, to r, with the       *)
(* snapshot u: every action stays the work it was, a start that is stuck   *)
(* stays stuck, and only the actions with ids in D may become done.        *)
Keeps(q, t, r, u, D) ==
    /\ DOMAIN q \subseteq DOMAIN r
    /\ \A i \in DOMAIN q : /\ r[i].type = q[i].type
                            /\ r[i].stop = q[i].stop
    /\ \A i \in DOMAIN q : q[i].type # "skip" =>
           r[i].id = q[i].id /\ r[i].kind = q[i].kind
    /\ \A i \in DOMAIN q : q[i].type = "start" /\ Stuck(q, t, i) => Stuck(r, u, i)
    /\ \A i \in DOMAIN q : q[i].status # "done" /\ q[i].id \notin D =>
           r[i].status # "done"

LEMMA KeepsIsTransitive ==
  ASSUME NEW q, NEW t, NEW r, NEW u, NEW v, NEW w, NEW D,
         Keeps(q, t, r, u, D), Keeps(r, u, v, w, {})
  PROVE  Keeps(q, t, v, w, D)
<1>1. \A i \in DOMAIN q : i \in DOMAIN r /\ i \in DOMAIN v
  BY DEF Keeps
<1>2. \A i \in DOMAIN q : /\ v[i].type = q[i].type
                          /\ v[i].stop = q[i].stop
  BY <1>1 DEF Keeps
<1>3. \A i \in DOMAIN q : q[i].type # "skip" =>
         v[i].id = q[i].id /\ v[i].kind = q[i].kind
  BY <1>1 DEF Keeps
<1>4. \A i \in DOMAIN q : q[i].type = "start" /\ Stuck(q, t, i) => Stuck(v, w, i)
  BY <1>1 DEF Keeps
<1>5. \A i \in DOMAIN q : q[i].status # "done" /\ q[i].id \notin D =>
         v[i].status # "done"
  BY <1>1 DEF Keeps
<1> QED BY <1>1, <1>2, <1>3, <1>4, <1>5 DEF Keeps

LEMMA KeepsIsReflexive ==
  ASSUME NEW q, NEW t
  PROVE  Keeps(q, t, q, t, {})
BY DEF Keeps

(* The turn of the first of a snapshot whose actions wait.                 *)
LEMMA TurnKeeps ==
  ASSUME NEW q \in Seq(Action), NEW t \in SUBSET Action, t # {}, NEW t0,
         \A a \in t : \A i \in DOMAIN q : q[i].id = a.id => q[i].status = "pending"
  PROVE  LET r == Mark(q, Least(t), "running")
         IN  Keeps(q, t0, r, t, {}) /\ DOMAIN r = DOMAIN q
<1> DEFINE c == Least(t)
           r == Mark(q, c, "running")
<1>1. c \in t
  BY LeastIsFirst
<1>2. Settled(q, r, c, "running")
  BY MarkSettles DEF Status
<1> HIDE DEF c, r
<1>3. DOMAIN r = DOMAIN q
  BY <1>2 DEF Settled, SameWork
<1>4. ASSUME NEW i \in DOMAIN q
      PROVE  /\ r[i].id = q[i].id
             /\ r[i].type = q[i].type
             /\ r[i].stop = q[i].stop
             /\ r[i].kind = q[i].kind
             /\ r[i].status = IF q[i].id = c.id THEN "running" ELSE q[i].status
  BY <1>2 DEF Settled, SameWork
<1>5. ASSUME NEW i \in DOMAIN q, Stuck(q, t0, i) PROVE Stuck(r, t, i)
  <2>1. \A a \in t : a.id # q[i].id
    BY <1>5 DEF Stuck
  <2>2. r[i].status = q[i].status /\ r[i].id = q[i].id
    BY <1>1, <1>4, <2>1
  <2> QED BY <1>5, <2>1, <2>2 DEF Stuck
<1>6. Keeps(q, t0, r, t, {})
  BY <1>3, <1>4, <1>5 DEF Keeps
<1> QED BY <1>3, <1>6 DEF r, c

LEMMA BeginKeeps ==
  ASSUME NEW q, NEW st, NEW sg, NEW ak, NEW dl, NEW us, NEW t0,
         QueueOK(q, st, sg, ak, dl, us), NEW on, NEW user, Begin(q, on, user)
  PROVE  Keeps(q, t0, queue', todo', {}) /\ DOMAIN queue' = DOMAIN q
<1>1. CASE on /\ user /\ Pending(q) # {}
  <2>1. todo' = Pending(q) /\ queue' = Mark(q, Least(todo'), "running")
    BY <1>1 DEF Begin
  <2>2. q \in Seq(Action) /\ Pending(q) \subseteq Action
    BY NewSnapshot DEF QueueOK, SnapshotOK
  <2>3. \A a \in Pending(q) : \A i \in DOMAIN q :
           q[i].id = a.id => q[i].status = "pending"
    BY NewSnapshot DEF Waits
  <2> QED BY <1>1, <2>1, <2>2, <2>3, TurnKeeps
<1>2. CASE ~(on /\ user /\ Pending(q) # {})
  <2>1. todo' = {} /\ queue' = q
    BY <1>2 DEF Begin
  <2>2. \A i \in DOMAIN q : Stuck(q, t0, i) => Stuck(q, {}, i)
    BY DEF Stuck
  <2> QED BY <2>1, <2>2 DEF Keeps
<1> QED BY <1>1, <1>2

(* The current action is settled with s, and the replay goes on.           *)
LEMMA SettledKeeps ==
  ASSUME Inv, pc # "idle", NEW r, NEW s, Settled(queue, r, Current, s), NEW u,
         u \subseteq todo
  PROVE  /\ Keeps(queue, todo, r, u, IF s = "done" THEN {Current.id} ELSE {})
         /\ DOMAIN r = DOMAIN queue
<1>1. Runs(Current, pc, queue, store, acked, delivered) /\ Current \in todo
  BY CurrentIsOfSnapshot
<1>2. DOMAIN r = DOMAIN queue
  BY DEF Settled, SameWork
<1>3. ASSUME NEW i \in DOMAIN queue
      PROVE  /\ r[i].id = queue[i].id
             /\ r[i].type = queue[i].type
             /\ r[i].stop = queue[i].stop
             /\ r[i].kind = queue[i].kind
             /\ r[i].status = IF queue[i].id = Current.id THEN s ELSE queue[i].status
  BY DEF Settled, SameWork
<1>4. ASSUME NEW i \in DOMAIN queue, Stuck(queue, todo, i) PROVE Stuck(r, u, i)
  <2>1. queue[i].id # Current.id
    BY <1>1, <1>4 DEF Stuck, Runs
  <2>2. r[i].status = queue[i].status /\ r[i].id = queue[i].id
    BY <1>3, <2>1
  <2> QED BY <1>4, <2>2 DEF Stuck
<1> QED BY <1>2, <1>3, <1>4 DEF Keeps

LEMMA AdvanceKeeps ==
  ASSUME Inv, pc # "idle", NEW r, NEW s, Settled(queue, r, Current, s), Advance(r),
         s = "pending" => Current.type = "skip"
  PROVE  /\ Keeps(queue, todo, queue', todo', IF s = "done" THEN {Current.id} ELSE {})
         /\ DOMAIN queue' = DOMAIN queue
<1> DEFINE D == IF s = "done" THEN {Current.id} ELSE {}
           rest == todo \ {Current}
<1>1. Keeps(queue, todo, r, rest, D) /\ DOMAIN r = DOMAIN queue
  BY SettledKeeps
<1>2. todo' = rest
  BY DEF Advance
<1>3. CASE rest = {}
  BY <1>1, <1>2, <1>3 DEF Advance
<1>4. CASE rest # {}
  <2>1. queue' = Mark(r, Least(rest), "running")
    BY <1>4 DEF Advance
  <2>2. \A a \in rest : Waits(a, r, acked)
    <3>1. todo # {} /\ Current = Least(todo)
      BY CurrentIsOfSnapshot DEF Current
    <3> QED BY <3>1, TurnEnds DEF Inv
  <2>3. r \in Seq(Action) /\ rest \in SUBSET Action
    BY DEF Settled, SameWork, Inv, SnapshotOK
  <2>4. Keeps(r, rest, queue', rest, {}) /\ DOMAIN queue' = DOMAIN r
    BY <1>4, <2>1, <2>2, <2>3, TurnKeeps DEF Waits
  <2> QED BY <1>1, <1>2, <2>4, KeepsIsTransitive
<1> QED BY <1>3, <1>4

(* What a step adds to the queue q, with ids up to n, is the work t of s.   *)
Adds(q, n, r, t, s, k) ==
    \A i \in DOMAIN r \ DOMAIN q : /\ r[i].id = n + 1
                                   /\ r[i].type = t
                                   /\ r[i].stop = s
                                   /\ r[i].kind = k

(* Work of type t at stop s is in the queue and not done.                  *)
Holds(q, t, s) == \E j \in DOMAIN q : /\ q[j].type = t
                                     /\ q[j].stop = s
                                     /\ q[j].status # "done"

(* A new action is added to the queue, or the queue holds its like.        *)
LEMMA NewActionKeeps ==
  ASSUME NEW t \in Type, NEW s \in Stop, NEW k, NEW ph,
         queue \in Seq(Action), Fresh(t, s, k, ph) \in Action,
         NEW st, NEW sg, NEW ak, NEW dl, NEW us,
         QueueOK(Enqueued(queue, Fresh(t, s, k, ph)), st, sg, ak, dl, us),
         Notify(Enqueued(queue, Fresh(t, s, k, ph)))
  PROVE  /\ Keeps(queue, todo, queue', todo', {})
         /\ Adds(queue, used, queue', t, s, k)
         /\ t # "upload" => Holds(queue', t, s)
<1> DEFINE a == Fresh(t, s, k, ph)
           e == Enqueued(queue, a)
<1>1. /\ a.id = used + 1 /\ a.type = t /\ a.stop = s /\ a.kind = k
      /\ a.status = "pending"
  BY DEF Fresh
<1>2. DOMAIN queue \subseteq DOMAIN e
  BY EnqueuedChangesOnePlace
<1>3. \/ /\ e = queue
         /\ Holds(queue, t, s)
      \/ \E j \in DOMAIN e :
            /\ \A i \in DOMAIN e \ {j} : i \in DOMAIN queue /\ e[i] = queue[i]
            /\ Placed(queue, e, j, a) \/ Joined(queue, e, j, a)
  BY <1>1, EnqueuedChangesOnePlace DEF Holds
<1>4. QueueOK(e, st, sg, ak, dl, us) /\ Notify(e)
  OBVIOUS
<1> HIDE DEF e, a
<1>5. /\ Keeps(queue, todo, e, todo, {})
      /\ Adds(queue, used, e, t, s, k)
      /\ t # "upload" => Holds(e, t, s)
  <2>1. CASE e = queue /\ Holds(queue, t, s)
    BY <2>1, KeepsIsReflexive DEF Adds
  <2>2. ASSUME NEW j \in DOMAIN e,
               \A i \in DOMAIN e \ {j} : i \in DOMAIN queue /\ e[i] = queue[i],
               Placed(queue, e, j, a)
        PROVE  Keeps(queue, todo, e, todo, {}) /\ Adds(queue, used, e, t, s, k)
               /\ Holds(e, t, s)
    <3>1. Keeps(queue, todo, e, todo, {})
      BY <1>1, <1>2, <2>2 DEF Keeps, Placed, Stuck
    <3>2. Adds(queue, used, e, t, s, k) /\ Holds(e, t, s)
      BY <1>1, <2>2 DEF Adds, Holds, Placed
    <3> QED BY <3>1, <3>2
  <2>3. ASSUME NEW j \in DOMAIN e,
               \A i \in DOMAIN e \ {j} : i \in DOMAIN queue /\ e[i] = queue[i],
               Joined(queue, e, j, a)
        PROVE  Keeps(queue, todo, e, todo, {}) /\ Adds(queue, used, e, t, s, k)
               /\ t = "upload"
    <3>1. Keeps(queue, todo, e, todo, {})
      BY <1>1, <1>2, <2>3 DEF Keeps, Joined, Stuck
    <3>2. Adds(queue, used, e, t, s, k) /\ t = "upload"
      BY <1>1, <2>3 DEF Adds, Joined
    <3> QED BY <3>1, <3>2
  <2> QED BY <1>3, <2>1, <2>2, <2>3
<1>6. /\ Keeps(e, todo, queue', todo', {})
      /\ DOMAIN queue' = DOMAIN e
      /\ \A i \in DOMAIN e \ DOMAIN queue :
            queue'[i].id = e[i].id /\ queue'[i].kind = e[i].kind
  <2>1. CASE todo = {}
    <3>1. Begin(e, online, signedIn)
      BY <1>4, <2>1 DEF Notify
    <3>2. Keeps(e, todo, queue', todo', {}) /\ DOMAIN queue' = DOMAIN e
      BY <1>4, <3>1, BeginKeeps
    <3>3. CASE Pending(e) # {} /\ online /\ signedIn
      <4>1. queue' = Mark(e, Least(Pending(e)), "running")
        BY <3>1, <3>3 DEF Begin
      <4>2. Settled(e, queue', Least(Pending(e)), "running")
        BY <1>4, <4>1, MarkSettles DEF QueueOK, Status
      <4> QED BY <3>2, <4>2 DEF Settled, SameWork
    <3>4. CASE ~(Pending(e) # {} /\ online /\ signedIn)
      BY <3>1, <3>2, <3>4 DEF Begin
    <3> QED BY <3>3, <3>4
  <2>2. CASE todo # {}
    BY <1>4, <2>2, KeepsIsReflexive DEF Notify, replay
  <2> QED BY <2>1, <2>2
<1>7. Keeps(queue, todo, queue', todo', {})
  BY <1>5, <1>6, KeepsIsTransitive
<1>8. Adds(queue, used, queue', t, s, k)
  BY <1>5, <1>6 DEF Adds, Keeps
<1>9. t # "upload" => Holds(queue', t, s)
  BY <1>5, <1>6 DEF Holds, Keeps
<1> QED BY <1>7, <1>8, <1>9

-----------------------------------------------------------------------------
(* The server.                                                             *)

(* The server forgets nothing.                                             *)
ServerGrows ==
    \A s \in Stop : /\ visited[s] # "none" => visited'[s] # "none"
                    /\ served[s] \in Terminal => served'[s] \in Terminal
                    /\ evidence[s] \subseteq evidence'[s]

LEMMA ServeStartOK ==
  ASSUME ServerTypes, RecordOK, NEW s \in Stop, ServeStart(s)
  PROVE  /\ ServerTypes' /\ RecordOK' /\ ServerGrows
         /\ visited'[s] # "none"
         /\ [Record!Next]_(Record!vars)
<1>1. ServerTypes'
  BY DEF ServerTypes, StopStatuses, ServeStart
<1>2. RecordOK' /\ visited'[s] # "none"
  BY DEF ServerTypes, StopStatuses, RecordOK, ServeStart
<1>3. ServerGrows
  BY DEF ServerTypes, StopStatuses, ServerGrows, ServeStart, Terminal
<1>4. ASSUME served[s] = "pending" PROVE [Record!Next]_(Record!vars)
  <2>1. visited[s] = "none"
    BY <1>4 DEF RecordOK
  <2>2. Record!Start(s)
    BY <1>4, <2>1 DEF ServeStart, ServerTypes, Record!Start
  <2> QED BY <2>2 DEF Record!Next
<1>5. ASSUME served[s] = "in_progress" PROVE [Record!Next]_(Record!vars)
  <2>1. visited[s] # "none"
    BY <1>5 DEF RecordOK
  <2>2. UNCHANGED <<served, visited, runStatus, finishedAt>>
    BY <1>5, <2>1 DEF ServeStart, ServerTypes, StopStatuses
  <2> QED BY <2>2 DEF Record!vars
<1> QED BY <1>1, <1>2, <1>3, <1>4, <1>5 DEF ServeStart

LEMMA ServeUploadOK ==
  ASSUME ServerTypes, RecordOK, NEW s \in Stop, NEW k \in Kind, ServeUpload(s, k)
  PROVE  /\ ServerTypes' /\ RecordOK' /\ ServerGrows
         /\ visited[s] # "none" => k \in evidence'[s]
         /\ [Record!Next]_(Record!vars)
<1>1. UNCHANGED <<served, visited, runStatus, finishedAt>>
  BY DEF ServeUpload, record
<1>2. ServerTypes'
  BY <1>1 DEF ServerTypes, ServeUpload
<1>3. RecordOK'
  BY <1>1 DEF ServerTypes, RecordOK, ServeUpload
<1>4. ServerGrows /\ (visited[s] # "none" => k \in evidence'[s])
  BY <1>1 DEF ServerTypes, ServerGrows, ServeUpload
<1> QED BY <1>1, <1>2, <1>3, <1>4 DEF Record!vars

LEMMA ClosesOK ==
  ASSUME ServerTypes, RecordOK, NEW s \in Stop, NEW o \in {"skipped", "done"},
         Closes(s, o), evidence[s] # {}, served[s] # "done",
         o = "skipped" => served[s] \notin Terminal
  PROVE  /\ ServerTypes' /\ RecordOK' /\ ServerGrows
         /\ served'[s] \in Terminal
         /\ [Record!Next]_(Record!vars)
<1>1. visited[s] # "none" /\ served[s] \in {"in_progress", "skipped"}
  BY DEF ServerTypes, StopStatuses, RecordOK
<1>2. ServerTypes'
  BY DEF ServerTypes, StopStatuses, Closes
<1>3. RecordOK' /\ served'[s] \in Terminal
  BY <1>1 DEF ServerTypes, StopStatuses, RecordOK, Closes, Terminal
<1>4. ServerGrows
  BY <1>1 DEF ServerTypes, StopStatuses, ServerGrows, Closes, Terminal
<1>5. Record!ClosesRun(served') \/ UNCHANGED <<runStatus, finishedAt>>
  BY DEF Closes, Record!ClosesRun, Record!Terminal, Terminal
<1>6. ASSUME o = "skipped" PROVE [Record!Next]_(Record!vars)
  <2>1. visited' = [visited EXCEPT ![s] = Record!Closed(@, "skipped")]
    BY <1>6 DEF Closes, Record!Closed
  <2>2. Record!Skip(s)
    BY <1>1, <1>5, <1>6, <2>1 DEF Closes, Record!Skip
  <2> QED BY <2>2 DEF Record!Next
<1>7. ASSUME o = "done" PROVE [Record!Next]_(Record!vars)
  <2>1. visited' = [visited EXCEPT ![s] = Record!Closed(@, "completed")]
    BY <1>7 DEF Closes, Record!Closed
  <2>2. Record!Complete(s)
    BY <1>1, <1>5, <1>7, <2>1 DEF Closes, Record!Complete
  <2> QED BY <2>2 DEF Record!Next
<1> QED BY <1>2, <1>3, <1>4, <1>6, <1>7

(* What serving action a does for it.                                      *)
Done(a) == /\ a.type = "start" => visited'[a.stop] # "none"
           /\ a.type = "upload" /\ visited[a.stop] # "none" =>
                 a.kind \in evidence'[a.stop]
           /\ a.type \in {"skip", "complete"} => served'[a.stop] \in Terminal

LEMMA ServesOK ==
  ASSUME ServerTypes, RecordOK, NEW a \in Action, WellMade(a), Serves(a)
  PROVE  ServerTypes' /\ RecordOK' /\ ServerGrows /\ Done(a)
         /\ [Record!Next]_(Record!vars)
<1>1. a.stop \in Stop
  BY DEF Action
<1>2. CASE a.type = "start" /\ ServeStart(a.stop)
  BY <1>1, <1>2, ServeStartOK DEF Done
<1>3. CASE a.type = "upload" /\ ServeUpload(a.stop, a.kind)
  BY <1>1, <1>3, ServeUploadOK DEF Done, WellMade
<1>4. CASE a.type = "skip" /\ MaySkip(a.stop) /\ Closes(a.stop, "skipped")
  <2>1. evidence[a.stop] # {} /\ served[a.stop] \notin Terminal
    BY <1>4 DEF MaySkip
  <2>2. served[a.stop] # "done"
    BY <2>1 DEF Terminal
  <2> QED BY <1>1, <1>4, <2>1, <2>2, ClosesOK DEF Done
<1>5. CASE a.type = "complete" /\ MayComplete(a.stop) /\ Closes(a.stop, "done")
  BY <1>1, <1>5, ClosesOK DEF Done, MayComplete
<1> QED BY <1>2, <1>3, <1>4, <1>5 DEF Serves

LEMMA UntouchedOK ==
  ASSUME ServerTypes, RecordOK, Untouched
  PROVE  ServerTypes' /\ RecordOK' /\ ServerGrows /\ [Record!Next]_(Record!vars)
BY DEF Untouched, backend, record, ServerTypes, RecordOK, ServerGrows, Record!vars

-----------------------------------------------------------------------------
(* A step of any kind, where D are the actions it may mark done.           *)

(* A stop that is served, or whose service is in the queue.                *)
Remembered(s) ==
    \/ served[s] \in Terminal
    \/ \E i \in DOMAIN queue : /\ queue[i].stop = s
                               /\ queue[i].type \in {"skip", "complete"}
                               /\ queue[i].status # "done"

StepOK(D) ==
    /\ ServerGrows
    /\ Keeps(queue, todo, queue', todo', D)
    /\ \A i \in DOMAIN queue' \ DOMAIN queue :
          queue'[i].type = "upload" =>
              /\ queue'[i].id = used + 1
              /\ queue'[i].stop \in Stop
              /\ StartKnown(queue'[i].stop)
    /\ \A i \in DOMAIN queue : queue[i].id \in D =>
          /\ queue[i].type = "start" => visited'[queue[i].stop] # "none"
          /\ queue[i].type \in {"skip", "complete"} => served'[queue[i].stop] \in Terminal
    /\ acked' \subseteq 1..used
    /\ \A i \in DOMAIN queue :
          queue[i].type = "upload" /\ queue[i].id \in acked' \ acked =>
              \/ queue[i].kind \in evidence'[queue[i].stop]
              \/ \E j \in DOMAIN queue : /\ queue[j].type = "start"
                                         /\ queue[j].stop = queue[i].stop
                                         /\ Stuck(queue, todo, j)

LEMMA GoesOn ==
  ASSUME FieldInv, NEW D, StepOK(D)
  PROVE  /\ \A s \in Stop : StartKnown(s) => StartKnown(s)'
         /\ \A s \in Stop : Remembered(s) => Remembered(s)'
         /\ UploadsFollowStarts'
         /\ AckedUploadsCount'
<1>1. /\ ServerGrows
      /\ Keeps(queue, todo, queue', todo', D)
      /\ \A i \in DOMAIN queue : queue[i].id \in D =>
            /\ queue[i].type = "start" => visited'[queue[i].stop] # "none"
            /\ queue[i].type \in {"skip", "complete"} =>
                  served'[queue[i].stop] \in Terminal
  BY DEF StepOK
<1>2. \A i \in DOMAIN queue : /\ queue[i] \in Action /\ queue[i].stop \in Stop
                             /\ queue[i].id \in Nat /\ queue[i].id <= used
  <2>1. \A i \in DOMAIN queue : queue[i] \in Action /\ queue[i].id <= used
    BY DEF FieldInv, Inv, QueueOK
  <2>2. \A a \in Action : a.stop \in Stop /\ a.id \in Nat
    BY MaxActionsAssumption DEF Action
  <2> QED BY <2>1, <2>2
<1>3. ASSUME NEW j \in DOMAIN queue, queue[j].type = "start", queue[j].status # "done"
      PROVE  \/ visited'[queue[j].stop] # "none"
             \/ /\ j \in DOMAIN queue'
                /\ queue'[j].type = "start"
                /\ queue'[j].stop = queue[j].stop
                /\ queue'[j].id = queue[j].id
                /\ queue'[j].status # "done"
  BY <1>1, <1>3 DEF Keeps
<1>4. ASSUME NEW s \in Stop, StartKnown(s) PROVE StartKnown(s)'
  <2>1. CASE visited[s] # "none"
    BY <1>1, <2>1 DEF ServerGrows, StartKnown
  <2>2. ASSUME NEW j \in DOMAIN queue, queue[j].type = "start", queue[j].stop = s,
               queue[j].status # "done"
        PROVE  StartKnown(s)'
    BY <1>3, <2>2 DEF StartKnown
  <2> QED BY <1>4, <2>1, <2>2 DEF StartKnown
<1>5. ASSUME NEW s \in Stop, Remembered(s) PROVE Remembered(s)'
  <2>1. CASE served[s] \in Terminal
    BY <1>1, <2>1 DEF ServerGrows, Remembered
  <2>2. ASSUME NEW j \in DOMAIN queue, queue[j].type \in {"skip", "complete"},
               queue[j].stop = s, queue[j].status # "done"
        PROVE  Remembered(s)'
    <3>1. CASE queue[j].id \in D
      BY <1>1, <2>2, <3>1 DEF Remembered
    <3>2. CASE queue[j].id \notin D
      <4>1. /\ j \in DOMAIN queue'
            /\ queue'[j].type = queue[j].type
            /\ queue'[j].stop = s
            /\ queue'[j].status # "done"
        BY <1>1, <2>2, <3>2 DEF Keeps
      <4> QED BY <2>2, <4>1 DEF Remembered
    <3> QED BY <3>1, <3>2
  <2> QED BY <1>5, <2>1, <2>2 DEF Remembered
<1>6. UploadsFollowStarts'
  <2> SUFFICES ASSUME NEW i \in DOMAIN queue', queue'[i].type = "upload"
               PROVE  \/ visited'[queue'[i].stop] # "none"
                      \/ \E j \in DOMAIN queue' : /\ queue'[j].type = "start"
                                                 /\ queue'[j].stop = queue'[i].stop
                                                 /\ queue'[j].status # "done"
                                                 /\ queue'[j].id < queue'[i].id
    BY DEF UploadsFollowStarts
  <2>1. CASE i \in DOMAIN queue
    <3>1. /\ queue[i].type = "upload"
          /\ queue'[i].id = queue[i].id
          /\ queue'[i].stop = queue[i].stop
      BY <1>1, <2>1 DEF Keeps
    <3>2. \/ visited[queue[i].stop] # "none"
          \/ \E j \in DOMAIN queue : /\ queue[j].type = "start"
                                     /\ queue[j].stop = queue[i].stop
                                     /\ queue[j].status # "done"
                                     /\ queue[j].id < queue[i].id
      BY <2>1, <3>1 DEF FieldInv, UploadsFollowStarts
    <3>3. CASE visited[queue[i].stop] # "none"
      BY <1>1, <1>2, <2>1, <3>1, <3>3 DEF ServerGrows
    <3>4. CASE \E j \in DOMAIN queue : /\ queue[j].type = "start"
                                      /\ queue[j].stop = queue[i].stop
                                      /\ queue[j].status # "done"
                                      /\ queue[j].id < queue[i].id
      BY <1>3, <3>1, <3>4
    <3> QED BY <3>2, <3>3, <3>4
  <2>2. CASE i \notin DOMAIN queue
    <3>1. queue'[i].id = used + 1 /\ StartKnown(queue'[i].stop)
      BY <2>2 DEF StepOK
    <3>2. queue'[i].stop \in Stop /\ used \in Nat
      BY <2>2 DEF StepOK, FieldInv, Inv, RestOK
    <3>3. CASE visited[queue'[i].stop] # "none"
      BY <1>1, <3>2, <3>3 DEF ServerGrows
    <3>4. ASSUME NEW j \in DOMAIN queue, queue[j].type = "start",
                 queue[j].stop = queue'[i].stop, queue[j].status # "done"
          PROVE  \/ visited'[queue'[i].stop] # "none"
                 \/ \E k \in DOMAIN queue' : /\ queue'[k].type = "start"
                                            /\ queue'[k].stop = queue'[i].stop
                                            /\ queue'[k].status # "done"
                                            /\ queue'[k].id < queue'[i].id
      BY <1>2, <1>3, <3>1, <3>2, <3>4
    <3> QED BY <3>1, <3>3, <3>4 DEF StartKnown
  <2> QED BY <2>1, <2>2
<1>7. AckedUploadsCount'
  <2> SUFFICES ASSUME NEW i \in DOMAIN queue', queue'[i].type = "upload",
                      queue'[i].id \in acked'
               PROVE  \/ queue'[i].kind \in evidence'[queue'[i].stop]
                      \/ \E j \in DOMAIN queue' : /\ queue'[j].type = "start"
                                                 /\ queue'[j].stop = queue'[i].stop
                                                 /\ Stuck(queue', todo', j)
    BY DEF AckedUploadsCount, Stuck
  <2>1. i \in DOMAIN queue
    <3>1. SUFFICES ASSUME i \notin DOMAIN queue PROVE FALSE
      OBVIOUS
    <3>2. queue'[i].id = used + 1 /\ queue'[i].id \in 1..used
      BY <3>1 DEF StepOK
    <3> QED BY <3>2 DEF FieldInv, Inv, RestOK
  <2>2. /\ queue[i].type = "upload"
        /\ queue'[i].id = queue[i].id
        /\ queue'[i].stop = queue[i].stop
        /\ queue'[i].kind = queue[i].kind
    BY <1>1, <2>1 DEF Keeps
  <2>3. \/ queue[i].kind \in evidence'[queue[i].stop]
        \/ \E j \in DOMAIN queue : /\ queue[j].type = "start"
                                   /\ queue[j].stop = queue[i].stop
                                   /\ Stuck(queue, todo, j)
    <3>1. CASE queue[i].id \in acked
      <4>1. \/ queue[i].kind \in evidence[queue[i].stop]
            \/ \E j \in DOMAIN queue : /\ queue[j].type = "start"
                                       /\ queue[j].stop = queue[i].stop
                                       /\ Stuck(queue, todo, j)
        BY <2>1, <2>2, <3>1 DEF FieldInv, AckedUploadsCount
      <4> QED BY <1>1, <1>2, <2>1, <4>1 DEF ServerGrows
    <3>2. CASE queue[i].id \notin acked
      BY <2>1, <2>2, <3>2 DEF StepOK
    <3> QED BY <3>1, <3>2
  <2>4. \A j \in DOMAIN queue : queue[j].type = "start" /\ Stuck(queue, todo, j) =>
           /\ j \in DOMAIN queue'
           /\ queue'[j].type = "start"
           /\ queue'[j].stop = queue[j].stop
           /\ Stuck(queue', todo', j)
    BY <1>1 DEF Keeps
  <2> QED BY <2>2, <2>3, <2>4
<1> QED BY <1>4, <1>5, <1>6, <1>7

(* What a step keeps of the queue and the server.                          *)
Sound ==
    /\ Inv'
    /\ ServerTypes'
    /\ RecordOK'
    /\ ServerGrows
    /\ \A s \in Stop : StartKnown(s) => StartKnown(s)'
    /\ \A s \in Stop : Remembered(s) => Remembered(s)'
    /\ UploadsFollowStarts'
    /\ AckedUploadsCount'

(* And then the screen agrees with them if what it shows and what it has   *)
(* read come from the server, or are ahead of it as the queue is.          *)
LEMMA ScreenAgrees ==
  ASSUME FieldInv, Sound, ScreenTypes',
         cached' \in {cached, fetch},
         fetch' \in {fetch, NoRoute, Asked, Planned, served},
         \A x \in staged' : x \in staged \/ StartKnown(x[2]),
         \A s \in begun' : s \in begun \/ StartKnown(s)',
         \A s \in Stop :
            \/ route'[s] \in {route[s], cached[s], fetch[s], served[s], "unknown"}
            \/ route'[s] = "in_progress" /\ StartKnown(s)'
            \/ route'[s] \in Terminal /\ Remembered(s)'
  PROVE  FieldInv'
<1>1. ServerGrows
  BY DEF Sound
<1>2. ASSUME NEW s \in Stop PROVE served[s] = "in_progress" => visited[s] # "none"
  BY DEF FieldInv, RecordOK
<1>3. CopyOK(cached)'
  <2>1. \A s \in Stop : /\ cached'[s] \in Terminal => served[s] \in Terminal
                        /\ cached'[s] = "in_progress" => visited[s] # "none"
    BY DEF FieldInv, CopyOK
  <2> QED BY <1>1, <2>1 DEF ServerGrows, CopyOK
<1>4. CopyOK(fetch)'
  <2>1. \A s \in Stop : /\ fetch'[s] \in Terminal => served[s] \in Terminal
                        /\ fetch'[s] = "in_progress" => visited[s] # "none"
    <3> TAKE s \in Stop
    <3>1. CASE fetch' = fetch
      BY <3>1 DEF FieldInv, CopyOK
    <3>2. CASE fetch' = served
      BY <1>2, <3>2
    <3>3. CASE fetch' \in {NoRoute, Asked, Planned}
      BY <3>3 DEF NoRoute, Asked, Planned, Terminal
    <3> QED BY <3>1, <3>2, <3>3
  <2> QED BY <1>1, <2>1 DEF ServerGrows, CopyOK
<1>5. ASSUME NEW s \in Stop, route'[s] = "in_progress" PROVE StartKnown(s)'
  <2>1. CASE route'[s] = route[s]
    BY <1>5, <2>1 DEF FieldInv, ScreenOK, Sound
  <2>2. CASE route'[s] \in {cached[s], fetch[s], served[s]}
    <3>1. visited[s] # "none"
      BY <1>2, <1>5, <2>2 DEF FieldInv, CopyOK
    <3> QED BY <3>1 DEF StartKnown, Sound
  <2>3. CASE StartKnown(s)'
    BY <2>3
  <2> QED BY <1>5, <2>1, <2>2, <2>3 DEF Terminal
<1>6. ASSUME NEW s \in Stop, route'[s] \in Terminal PROVE Remembered(s)'
  <2>1. CASE route'[s] = route[s]
    <3>1. Remembered(s)
      BY <1>6, <2>1 DEF FieldInv, NoWorkForgotten, Remembered
    <3> QED BY <3>1 DEF Sound
  <2>2. CASE route'[s] \in {cached[s], fetch[s], served[s]}
    <3>1. served[s] \in Terminal
      BY <1>6, <2>2 DEF FieldInv, CopyOK
    <3> QED BY <3>1 DEF Remembered, Sound
  <2>3. CASE Remembered(s)'
    BY <2>3
  <2> QED BY <1>6, <2>1, <2>2, <2>3 DEF Terminal
<1>7. ScreenOK'
  <2>1. \A s \in Stop : s \in begun' => StartKnown(s)'
    BY DEF FieldInv, ScreenOK, Sound
  <2> QED BY <1>5, <2>1 DEF ScreenOK
<1>8. StagedOK'
  <2>1. \A x \in staged' : StartKnown(x[2])
    BY DEF FieldInv, StagedOK
  <2>2. \A x \in staged' : x[2] \in Stop
    BY DEF Sound, Inv, RestOK
  <2> QED BY <2>1, <2>2 DEF StagedOK, Sound
<1>9. NoWorkForgotten'
  BY <1>6 DEF NoWorkForgotten, Remembered
<1> QED BY <1>3, <1>4, <1>7, <1>8, <1>9 DEF Sound, FieldInv

LEMMA SoundStep ==
  ASSUME FieldInv, [Next]_vars, ServerTypes', RecordOK', NEW D, StepOK(D)
  PROVE  Sound
BY NextInv, GoesOn DEF FieldInv, Sound, StepOK

(* A step that leaves the queue and the answers alone.                     *)
LEMMA QuietStep ==
  ASSUME FieldInv, [Next]_vars, ServerTypes', RecordOK', ServerGrows,
         UNCHANGED <<queue, todo, acked>>
  PROVE  Sound
<1>1. StepOK({})
  BY KeepsIsReflexive DEF StepOK, FieldInv, Inv, RestOK
<1> QED BY <1>1, SoundStep

(* A step that looks for something to replay.                              *)
LEMMA BeginStep ==
  ASSUME FieldInv, [Next]_vars, ServerTypes', RecordOK', ServerGrows,
         NEW on, NEW user, Begin(queue, on, user), UNCHANGED acked
  PROVE  Sound
<1>1. Keeps(queue, todo, queue', todo', {}) /\ DOMAIN queue' = DOMAIN queue
  BY BeginKeeps DEF FieldInv, Inv
<1>2. StepOK({})
  BY <1>1 DEF StepOK, FieldInv, Inv, RestOK
<1> QED BY <1>2, SoundStep

(* A step that settles the current action without an answer: nothing is    *)
(* marked done.                                                            *)
LEMMA UnansweredStep ==
  ASSUME FieldInv, [Next]_vars, ServerTypes', RecordOK', ServerGrows, UNCHANGED acked,
         Keeps(queue, todo, queue', todo', {}), DOMAIN queue' = DOMAIN queue
  PROVE  Sound
<1>1. StepOK({})
  BY DEF StepOK, FieldInv, Inv, RestOK
<1> QED BY <1>1, SoundStep

-----------------------------------------------------------------------------
(* The steps of the replay.                                                *)

LEMMA CurrentIsServable ==
  ASSUME FieldInv, pc # "idle"
  PROVE  Current \in Action /\ WellMade(Current)
<1>1. Inv
  BY DEF FieldInv
<1> QED BY <1>1, CurrentIsOfSnapshot DEF Inv, SnapshotOK

LEMMA UnheardOK ==
  ASSUME FieldInv, pc # "idle", Unheard(Current)
  PROVE  ServerTypes' /\ RecordOK' /\ ServerGrows /\ [Record!Next]_(Record!vars)
BY CurrentIsServable, ServesOK, UntouchedOK DEF Unheard, FieldInv

(* When an upload is answered, a start of its stop that went before it is  *)
(* not waiting and not under way.                                          *)
LEMMA EarlierStartIsStuck ==
  ASSUME Inv, pc = "sent", Current.type = "upload",
         NEW j \in DOMAIN queue, queue[j].type = "start", queue[j].status # "done",
         queue[j].id < Current.id
  PROVE  Stuck(queue, todo, j)
<1>1. Current \in todo /\ todo # {} /\ Current = Least(todo)
  BY CurrentIsOfSnapshot DEF Current
<1>2. \A a \in todo : a.id # queue[j].id
  <2>1. SUFFICES ASSUME NEW a \in todo, a.id = queue[j].id PROVE FALSE
    OBVIOUS
  <2>2. a.type = "start"
    BY <2>1 DEF Inv, SnapshotOf
  <2>3. Rank[Current.type] < Rank[a.type] \/ Rank[Current.type] = Rank[a.type]
    <3>1. todo \in SUBSET Action
      BY DEF Inv, SnapshotOK
    <3> QED BY <1>1, <3>1, LeastIsFirst
  <2> QED BY <2>2, <2>3 DEF Rank
<1>3. queue[j].status # "pending"
  <2>1. SUFFICES ASSUME queue[j].status = "pending" PROVE FALSE
    OBVIOUS
  <2>2. queue[j].id > Current.id
    BY <1>1, <1>2, <2>1 DEF Inv, SnapshotOf
  <2>3. queue[j].id \in Nat /\ Current.id \in Nat
    <3>1. queue[j] \in Action /\ Current \in Action
      BY CurrentIsOfSnapshot DEF Inv, QueueOK
    <3> QED BY <3>1, MaxActionsAssumption DEF Action
  <2> QED BY <2>2, <2>3
<1>4. queue[j].status \in Status
  <2>1. queue[j] \in Action
    BY DEF Inv, QueueOK
  <2> QED BY <2>1 DEF Action
<1> QED BY <1>2, <1>3, <1>4 DEF Stuck, Status

LEMMA AcknowledgedSound ==
  ASSUME FieldInv, [Next]_vars, Acknowledged, Serves(Current)
  PROVE  Sound /\ [Record!Next]_(Record!vars)
<1>1. /\ pc = "sent"
      /\ acked' = acked \union {Current.id}
  BY DEF Acknowledged
<1>2. Inv
  BY DEF FieldInv
<1>3. /\ Current \in todo
      /\ Current.id \in 1..used
      /\ \A i \in DOMAIN queue : queue[i].id = Current.id =>
            /\ queue[i].type = Current.type
            /\ queue[i].stop = Current.stop
            /\ queue[i].kind = Current.kind
  BY <1>1, <1>2, CurrentIsOfSnapshot DEF Inv, SnapshotOf
<1>4. ServerTypes' /\ RecordOK' /\ ServerGrows /\ Done(Current)
      /\ [Record!Next]_(Record!vars)
  BY <1>1, CurrentIsServable, ServesOK DEF FieldInv
<1>5. acked' \subseteq 1..used
  BY <1>1, <1>3 DEF FieldInv, Inv, RestOK
<1>6. CASE Current.type = "upload"
  <2>1. UNCHANGED <<queue, todo>>
    BY <1>6 DEF Acknowledged
  <2>2. ASSUME NEW i \in DOMAIN queue, queue[i].type = "upload",
               queue[i].id \in acked' \ acked
        PROVE  \/ queue[i].kind \in evidence'[queue[i].stop]
               \/ \E j \in DOMAIN queue : /\ queue[j].type = "start"
                                          /\ queue[j].stop = queue[i].stop
                                          /\ Stuck(queue, todo, j)
    <3>1. queue[i].id = Current.id
      BY <1>1, <2>2
    <3>2. CASE visited[queue[i].stop] # "none"
      BY <1>3, <1>4, <1>6, <3>1, <3>2 DEF Done
    <3>3. CASE visited[queue[i].stop] = "none"
      <4>1. PICK j \in DOMAIN queue : /\ queue[j].type = "start"
                                      /\ queue[j].stop = queue[i].stop
                                      /\ queue[j].status # "done"
                                      /\ queue[j].id < queue[i].id
        BY <2>2, <3>3 DEF FieldInv, UploadsFollowStarts
      <4> QED BY <1>1, <1>2, <1>6, <3>1, <4>1, EarlierStartIsStuck
    <3> QED BY <3>2, <3>3
  <2>3. StepOK({})
    BY <1>4, <1>5, <2>1, <2>2, KeepsIsReflexive DEF StepOK
  <2> QED BY <1>4, <2>3, SoundStep
<1>7. CASE Current.type # "upload"
  <2> DEFINE r == Mark(queue, Current, "done")
  <2>1. Advance(r)
    BY <1>7 DEF Acknowledged
  <2>2. Settled(queue, r, Current, "done")
    BY MarkSettles DEF FieldInv, Inv, QueueOK, Status
  <2> HIDE DEF r
  <2>3. Keeps(queue, todo, queue', todo', {Current.id}) /\ DOMAIN queue' = DOMAIN queue
    BY <1>1, <1>2, <2>1, <2>2, AdvanceKeeps
  <2>4. \A i \in DOMAIN queue : queue[i].id \in {Current.id} =>
          /\ queue[i].type = "start" => visited'[queue[i].stop] # "none"
          /\ queue[i].type \in {"skip", "complete"} => served'[queue[i].stop] \in Terminal
    BY <1>3, <1>4 DEF Done
  <2>5. \A i \in DOMAIN queue : ~(queue[i].type = "upload" /\ queue[i].id \in acked' \ acked)
    BY <1>1, <1>3, <1>7
  <2>6. StepOK({Current.id})
    BY <1>4, <1>5, <2>3, <2>4, <2>5 DEF StepOK
  <2> QED BY <1>4, <2>6, SoundStep
<1> QED BY <1>6, <1>7

LEMMA FailedSound ==
  ASSUME FieldInv, [Next]_vars, PrepareFails \/ Refused, Untouched
  PROVE  Sound /\ [Record!Next]_(Record!vars)
<1>1. pc # "idle" /\ Advance(Mark(queue, Current, "failed")) /\ UNCHANGED acked
  BY DEF PrepareFails, Refused, server
<1>2. Settled(queue, Mark(queue, Current, "failed"), Current, "failed")
  BY MarkSettles DEF FieldInv, Inv, QueueOK, Status
<1>3. Keeps(queue, todo, queue', todo', {}) /\ DOMAIN queue' = DOMAIN queue
  BY <1>1, <1>2, AdvanceKeeps DEF FieldInv
<1> QED BY <1>1, <1>3, UnansweredStep, UntouchedOK DEF FieldInv

LEMMA PhotoMissingSound ==
  ASSUME FieldInv, [Next]_vars, PhotoMissing, Untouched
  PROVE  Sound /\ [Record!Next]_(Record!vars)
<1>1. /\ pc # "idle" /\ Current.type = "skip" /\ Current.retry < MaxRetries
      /\ Advance(Retried(queue, Current)) /\ UNCHANGED acked
  BY DEF PhotoMissing, server
<1>2. Settled(queue, Retried(queue, Current), Current, "pending")
  BY <1>1, RetriedSettles, CurrentIsServable DEF FieldInv, Inv, QueueOK
<1>3. Keeps(queue, todo, queue', todo', {}) /\ DOMAIN queue' = DOMAIN queue
  BY <1>1, <1>2, AdvanceKeeps DEF FieldInv
<1> QED BY <1>1, <1>3, UnansweredStep, UntouchedOK DEF FieldInv

LEMMA NetworkFailsSound ==
  ASSUME FieldInv, [Next]_vars, NetworkFails, Unheard(Current)
  PROVE  Sound /\ [Record!Next]_(Record!vars)
<1>1. /\ pc # "idle" /\ queue' = Mark(queue, Current, "pending") /\ todo' = {}
      /\ UNCHANGED acked
  BY DEF NetworkFails, Requeue
<1>2. Settled(queue, queue', Current, "pending")
  BY <1>1, MarkSettles DEF FieldInv, Inv, QueueOK, Status
<1>3. Keeps(queue, todo, queue', todo', {}) /\ DOMAIN queue' = DOMAIN queue
  BY <1>1, <1>2, SettledKeeps DEF FieldInv
<1> QED BY <1>1, <1>3, UnansweredStep, UnheardOK

LEMMA CleanSound ==
  ASSUME FieldInv, [Next]_vars, Clean, Untouched
  PROVE  Sound /\ [Record!Next]_(Record!vars)
<1>1. pc = "clean" /\ UNCHANGED acked
  BY DEF Clean, server
<1>2. Inv
  BY DEF FieldInv
<1>3. \A i \in DOMAIN queue : queue[i].id = Current.id => queue[i].type = "upload"
  BY <1>1, <1>2, CurrentIsOfSnapshot DEF Runs
<1>4. PICK s \in {"done", "failed"} : Advance(Mark(queue, Current, s))
  BY DEF Clean
<1>5. Settled(queue, Mark(queue, Current, s), Current, s)
  BY MarkSettles DEF FieldInv, Inv, QueueOK, Status
<1>6. Keeps(queue, todo, queue', todo', IF s = "done" THEN {Current.id} ELSE {})
      /\ DOMAIN queue' = DOMAIN queue
  BY <1>1, <1>2, <1>4, <1>5, AdvanceKeeps
<1>7. Keeps(queue, todo, queue', todo', {Current.id})
  BY <1>6 DEF Keeps
<1>8. ServerTypes' /\ RecordOK' /\ ServerGrows /\ [Record!Next]_(Record!vars)
  BY UntouchedOK DEF FieldInv
<1>9. StepOK({Current.id})
  BY <1>1, <1>3, <1>6, <1>7, <1>8 DEF StepOK, FieldInv, Inv, RestOK
<1> QED BY <1>8, <1>9, SoundStep

LEMMA ReplaySound ==
  ASSUME FieldInv, [Next]_vars, FieldReplay
  PROVE  /\ Sound /\ [Record!Next]_(Record!vars)
         /\ \E b \in BOOLEAN : AfterReplay(b)
         /\ UNCHANGED staged
<1>1. CASE ReplayAcknowledged
  BY <1>1, AcknowledgedSound DEF ReplayAcknowledged, Acknowledged, FieldInv, ScreenTypes
<1>2. CASE ReplayRefused
  BY <1>2, FailedSound DEF ReplayRefused, Refused, FieldInv, ScreenTypes
<1>3. CASE ReplayPhotoMissing
  BY <1>3, PhotoMissingSound DEF ReplayPhotoMissing, PhotoMissing, FieldInv, ScreenTypes
<1>4. CASE ReplayNetworkFails
  BY <1>4, NetworkFailsSound DEF ReplayNetworkFails, NetworkFails, FieldInv, ScreenTypes
<1>5. CASE ReplayElse
  <2>1. Untouched /\ AfterReplay(processed)
    BY <1>5 DEF ReplayElse, Untouched
  <2>2. CASE Prepare
    <3>1. UNCHANGED <<queue, todo, acked, staged>>
      BY <2>2 DEF Prepare, device, server
    <3> QED BY <2>1, <3>1, QuietStep, UntouchedOK DEF FieldInv, ScreenTypes
  <2>3. CASE PrepareFails
    BY <2>1, <2>3, FailedSound DEF PrepareFails, FieldInv, ScreenTypes
  <2>4. CASE Clean
    BY <2>1, <2>4, CleanSound DEF Clean, FieldInv, ScreenTypes
  <2> QED BY <1>5, <2>2, <2>3, <2>4 DEF ReplayElse
<1> QED BY <1>1, <1>2, <1>3, <1>4, <1>5 DEF FieldReplay

-----------------------------------------------------------------------------
(* The steps of the worker and the network.                                *)

(* Whatever happens on the screen or the server, the queue takes a step of *)
(* its own specification or none.                                          *)
LEMMA FieldStepIsQueueStep == [FieldNext]_fieldVars => [Next]_vars
<1> SUFFICES ASSUME [FieldNext]_fieldVars PROVE [Next]_vars
  OBVIOUS
<1>1. CASE \E s \in Stop : TapStart(s) \/ TapSkip(s) \/ TapComplete(s)
  BY <1>1 DEF TapStart, TapSkip, TapComplete, Next, Type, Rank
<1>2. CASE \E p \in Photo, s \in Stop, k \in Kind : TapPhoto(p, s, k)
  BY <1>2 DEF TapPhoto, Next
<1>3. CASE PhotoIsQueued
  BY <1>3 DEF PhotoIsQueued, Next
<1>4. CASE Back \/ StartRoute \/ Refetch \/ RouteIsRead \/ FetchAnswered \/ FetchFails
  BY <1>4 DEF Back, StartRoute, Refetch, RouteIsRead, FetchAnswered, FetchFails
<1>5. CASE FieldReplay
  BY <1>5 DEF FieldReplay, ReplayAcknowledged, ReplayRefused, ReplayPhotoMissing,
     ReplayNetworkFails, ReplayElse, Next, Replay
<1>6. CASE FieldReload
  BY <1>6 DEF FieldReload, Next
<1>7. CASE Connectivity
  BY <1>7 DEF Connectivity, Next
<1>8. CASE UNCHANGED fieldVars
  BY <1>8 DEF fieldVars
<1> QED BY <1>1, <1>2, <1>3, <1>4, <1>5, <1>6, <1>7, <1>8 DEF FieldNext

(* A tap on start, skip or complete: the queue holds it from then on.      *)
LEMMA AskSound ==
  ASSUME FieldInv, [Next]_vars, NEW t \in Type \ {"upload"}, NEW s \in Stop, Ask(t, s),
         Untouched
  PROVE  /\ Sound /\ [Record!Next]_(Record!vars) /\ UNCHANGED staged
         /\ Holds(queue', t, s)
<1> DEFINE a == Fresh(t, s, NoKind, {})
<1>1. a \in Action /\ QueueOK(Enqueued(queue, a), store, staged, acked, delivered, used + 1)
  BY AskEnqueues DEF FieldInv
<1>2. Notify(Enqueued(queue, a)) /\ UNCHANGED <<staged, acked>>
  BY DEF Ask, server
<1>3. queue \in Seq(Action)
  BY DEF FieldInv, Inv, QueueOK
<1>4. /\ Keeps(queue, todo, queue', todo', {})
      /\ Adds(queue, used, queue', t, s, NoKind)
      /\ Holds(queue', t, s)
  BY <1>1, <1>2, <1>3, NewActionKeeps
<1>5. ServerTypes' /\ RecordOK' /\ ServerGrows /\ [Record!Next]_(Record!vars)
  BY UntouchedOK DEF FieldInv
<1>6. StepOK({})
  BY <1>2, <1>4, <1>5 DEF StepOK, Adds, FieldInv, Inv, RestOK
<1> QED BY <1>2, <1>4, <1>5, <1>6, SoundStep

(* The screen shows a new status of one stop.                              *)
LEMMA ShowsOne ==
  ASSUME ScreenTypes, NEW s \in Stop, route # NoRoute, route # Planned,
         NEW v \in {"pending", "in_progress", "done", "skipped"}, Shows(s, v)
  PROVE  /\ route' \in StopStatuses
         /\ route'[s] = v
         /\ \A t \in Stop \ {s} : route'[t] = route[t]
<1>1. route \in StopStatuses
  BY DEF ScreenTypes, Route
<1> QED BY <1>1 DEF Shows, StopStatuses

LEMMA TapInv ==
  ASSUME FieldInv, [Next]_vars, NEW s \in Stop, TapStart(s) \/ TapSkip(s) \/ TapComplete(s)
  PROVE  FieldInv' /\ [Record!Next]_(Record!vars)
<1>1. /\ UNCHANGED <<backend, fetch, cached, processed>>
      /\ route # NoRoute /\ route # Planned
  BY DEF TapStart, TapSkip, TapComplete, Ready
<1>2. ScreenTypes
  BY DEF FieldInv
<1>3. CASE TapStart(s)
  <2>1. Ask("start", s) /\ Shows(s, "in_progress") /\ begun' = {s}
    BY <1>3 DEF TapStart
  <2>2. /\ Sound /\ [Record!Next]_(Record!vars) /\ UNCHANGED staged
        /\ Holds(queue', "start", s)
    BY <1>1, <2>1, AskSound DEF Untouched, Type, Rank
  <2>3. StartKnown(s)'
    BY <2>2 DEF Holds, StartKnown
  <2>4. /\ route' \in StopStatuses
        /\ route'[s] = "in_progress"
        /\ \A t \in Stop \ {s} : route'[t] = route[t]
    BY <1>1, <1>2, <2>1, ShowsOne
  <2>5. ScreenTypes'
    BY <1>1, <1>2, <2>1, <2>4 DEF ScreenTypes, Route, StopStatuses, NoRoute, Planned, Asked
  <2> QED BY <1>1, <2>1, <2>2, <2>3, <2>4, <2>5, ScreenAgrees
<1>4. ASSUME NEW t \in {"skip", "complete"}, NEW v \in Terminal,
             Ask(t, s), Shows(s, v), begun' = {}
      PROVE  FieldInv' /\ [Record!Next]_(Record!vars)
  <2>1. v \in {"pending", "in_progress", "done", "skipped"}
    BY <1>4 DEF Terminal
  <2>2. /\ Sound /\ [Record!Next]_(Record!vars) /\ UNCHANGED staged
        /\ Holds(queue', t, s)
    BY <1>1, <1>4, AskSound DEF Untouched, Type, Rank
  <2>3. Remembered(s)'
    BY <1>4, <2>2 DEF Holds, Remembered
  <2>4. /\ route' \in StopStatuses
        /\ route'[s] = v
        /\ \A u \in Stop \ {s} : route'[u] = route[u]
    BY <1>1, <1>2, <1>4, <2>1, ShowsOne
  <2>5. ScreenTypes'
    BY <1>1, <1>2, <1>4, <2>4 DEF ScreenTypes, Route, StopStatuses, NoRoute, Planned, Asked
  <2> QED BY <1>1, <1>4, <2>2, <2>3, <2>4, <2>5, ScreenAgrees
<1>5. CASE TapSkip(s)
  BY <1>4, <1>5 DEF TapSkip, Terminal
<1>6. CASE TapComplete(s)
  BY <1>4, <1>6 DEF TapComplete, Terminal
<1> QED BY <1>3, <1>5, <1>6

LEMMA TapPhotoInv ==
  ASSUME FieldInv, [Next]_vars, NEW p \in Photo, NEW s \in Stop, NEW k \in Kind,
         TapPhoto(p, s, k)
  PROVE  FieldInv' /\ [Record!Next]_(Record!vars)
<1>1. /\ UNCHANGED <<queue, todo, acked, route, begun, fetch, cached, processed>>
      /\ staged = {} /\ staged' \subseteq {<<p, s, k>>}
  BY DEF TapPhoto, Shoot, replay, screen
<1>2. StartKnown(s)
  <2>1. route[s] = "in_progress" \/ s \in begun
    BY DEF TapPhoto, Workable
  <2> QED BY <2>1 DEF FieldInv, ScreenOK
<1>3. ServeUpload(s, k) \/ Untouched
  BY DEF TapPhoto
<1>4. ServerTypes' /\ RecordOK' /\ ServerGrows /\ [Record!Next]_(Record!vars)
  BY <1>3, ServeUploadOK, UntouchedOK DEF FieldInv
<1>5. Sound
  BY <1>1, <1>4, QuietStep
<1>6. ScreenTypes'
  BY <1>1 DEF FieldInv, ScreenTypes, Route, StopStatuses, NoRoute, Planned, Asked
<1>7. \A x \in staged' : StartKnown(x[2])
  BY <1>1, <1>2
<1> QED BY <1>1, <1>4, <1>5, <1>6, <1>7, ScreenAgrees

LEMMA PhotoIsQueuedInv ==
  ASSUME FieldInv, [Next]_vars, NEW x \in staged, QueuePhoto(x), UNCHANGED <<backend, screen>>
  PROVE  FieldInv' /\ [Record!Next]_(Record!vars)
<1> DEFINE a == Fresh("upload", x[2], x[3], {x[1]})
<1>1. /\ a \in Action /\ staged' = {}
      /\ QueueOK(Enqueued(queue, a), store, staged', acked, delivered, used + 1)
  BY QueuePhotoEnqueues DEF FieldInv
<1>2. Notify(Enqueued(queue, a)) /\ UNCHANGED acked
  BY DEF QueuePhoto, server
<1>3. queue \in Seq(Action) /\ x[2] \in Stop /\ "upload" \in Type
  BY DEF FieldInv, Inv, RestOK, QueueOK, Type, Rank
<1>4. Keeps(queue, todo, queue', todo', {}) /\ Adds(queue, used, queue', "upload", x[2], x[3])
  BY <1>1, <1>2, <1>3, NewActionKeeps
<1>5. ServerTypes' /\ RecordOK' /\ ServerGrows /\ [Record!Next]_(Record!vars)
  BY UntouchedOK DEF FieldInv, Untouched
<1>6. StartKnown(x[2])
  BY DEF FieldInv, StagedOK
<1>7. StepOK({})
  BY <1>2, <1>3, <1>4, <1>5, <1>6 DEF StepOK, Adds, FieldInv, Inv, RestOK
<1>8. Sound
  BY <1>5, <1>7, SoundStep
<1>9. ScreenTypes' /\ UNCHANGED <<route, begun, fetch, cached>>
  BY DEF FieldInv, ScreenTypes, screen, Route, StopStatuses, NoRoute, Planned, Asked
<1> QED BY <1>1, <1>5, <1>8, <1>9, ScreenAgrees

(* The steps of the screen and its fetches: the queue does not move.       *)
LEMMA ScreenStepInv ==
  ASSUME FieldInv, [Next]_vars,
         Back \/ StartRoute \/ Refetch \/ RouteIsRead \/ FetchAnswered \/ FetchFails
  PROVE  FieldInv' /\ [Record!Next]_(Record!vars)
<1>1. UNCHANGED <<queue, todo, acked, staged, served, visited, evidence, finishedAt>>
  BY DEF Back, StartRoute, Refetch, RouteIsRead, FetchAnswered, FetchFails, vars, device,
     replay, server, backend, record
<1>2. ServerTypes' /\ RecordOK' /\ ServerGrows
  <2>1. runStatus' \in {"planned", "in_progress", "finished"}
    BY DEF Back, StartRoute, Refetch, RouteIsRead, FetchAnswered, FetchFails, backend,
       record, FieldInv, ServerTypes
  <2> QED BY <1>1, <2>1 DEF FieldInv, ServerTypes, RecordOK, ServerGrows
<1>3. Sound
  BY <1>1, <1>2, QuietStep
<1>4. [Record!Next]_(Record!vars)
  BY <1>1 DEF Back, StartRoute, Refetch, RouteIsRead, FetchAnswered, FetchFails, backend,
     record, Record!vars, Record!Next, Record!StartRun
<1>5. /\ cached' \in {cached, fetch}
      /\ cached' = fetch => fetch \in Route \/ cached' = cached
      /\ fetch' \in {fetch, NoRoute, Asked, Planned, served}
      /\ begun' \subseteq begun
      /\ UNCHANGED processed
      /\ route' \in {route, cached, served} \/ (route' = fetch /\ fetch \in Route)
  BY DEF Back, StartRoute, Refetch, RouteIsRead, FetchAnswered, FetchFails, Served
<1>6. ScreenTypes'
  BY <1>5 DEF FieldInv, ServerTypes, ScreenTypes, Route
<1> QED BY <1>1, <1>3, <1>4, <1>5, <1>6, ScreenAgrees

LEMMA ReplayInv ==
  ASSUME FieldInv, [Next]_vars, FieldReplay
  PROVE  FieldInv' /\ [Record!Next]_(Record!vars)
<1>1. PICK b \in BOOLEAN : AfterReplay(b)
  BY ReplaySound
<1>2. /\ UNCHANGED <<route, begun, cached>>
      /\ fetch' \in {fetch, Asked}
      /\ processed' \in BOOLEAN
  BY <1>1 DEF AfterReplay
<1>3. ScreenTypes'
  BY <1>2 DEF FieldInv, ScreenTypes, Route, StopStatuses, NoRoute, Planned, Asked
<1> QED BY <1>2, <1>3, ReplaySound, ScreenAgrees

LEMMA FieldReloadInv ==
  ASSUME FieldInv, [Next]_vars, FieldReload
  PROVE  FieldInv' /\ [Record!Next]_(Record!vars)
<1>1. /\ Begin(queue, online, signedIn)
      /\ UNCHANGED <<acked, cached>>
      /\ staged' = {} /\ begun' = {}
      /\ route' = NoRoute /\ fetch' = Asked /\ processed' = FALSE
  BY DEF FieldReload, Reload
<1>2. ServerTypes' /\ RecordOK' /\ ServerGrows /\ [Record!Next]_(Record!vars)
  <2>1. CASE pc = "sent"
    BY <2>1, UnheardOK DEF FieldReload
  <2>2. CASE pc # "sent"
    BY <2>2, UntouchedOK DEF FieldReload, FieldInv, Untouched
  <2> QED BY <2>1, <2>2
<1>3. Sound
  BY <1>1, <1>2, BeginStep
<1>4. ScreenTypes'
  BY <1>1 DEF FieldInv, ScreenTypes, Route, StopStatuses, NoRoute, Planned, Asked
<1>5. \A s \in Stop : route'[s] = "unknown"
  BY <1>1 DEF NoRoute
<1> QED BY <1>1, <1>2, <1>3, <1>4, <1>5, ScreenAgrees

LEMMA ConnectivityInv ==
  ASSUME FieldInv, [Next]_vars, Connectivity
  PROVE  FieldInv' /\ [Record!Next]_(Record!vars)
<1>1. UNCHANGED <<route, begun, fetch, cached, processed, acked, staged>> /\ Untouched
  BY DEF Connectivity, screen, Untouched, GoOnline, GoOffline, device, server
<1>2. ServerTypes' /\ RecordOK' /\ ServerGrows /\ [Record!Next]_(Record!vars)
  BY <1>1, UntouchedOK DEF FieldInv
<1>3. Sound
  <2>1. CASE UNCHANGED <<queue, todo>>
    BY <1>1, <1>2, <2>1, QuietStep
  <2>2. CASE Begin(queue, TRUE, signedIn)
    BY <1>1, <1>2, <2>2, BeginStep
  <2> QED BY <2>1, <2>2 DEF Connectivity, GoOnline, GoOffline, device, replay
<1>4. ScreenTypes'
  BY <1>1 DEF FieldInv, ScreenTypes, Route, StopStatuses, NoRoute, Planned, Asked
<1> QED BY <1>1, <1>2, <1>3, <1>4, ScreenAgrees

LEMMA FieldInitInv == FieldInit => FieldInv
<1> SUFFICES ASSUME FieldInit PROVE FieldInv
  OBVIOUS
<1>1. Inv /\ queue = <<>> /\ staged = {}
  BY InitInv DEF FieldInit, Init
<1>2. ServerTypes /\ ScreenTypes /\ RecordOK
  BY DEF FieldInit, ServerTypes, StopStatuses, ScreenTypes, Route, RecordOK
<1>3. CopyOK(cached) /\ CopyOK(fetch) /\ ScreenOK /\ NoWorkForgotten
  BY DEF FieldInit, NoRoute, Asked, CopyOK, ScreenOK, NoWorkForgotten, Terminal
<1>4. StagedOK /\ UploadsFollowStarts /\ AckedUploadsCount
  BY <1>1 DEF StagedOK, UploadsFollowStarts, AckedUploadsCount
<1> QED BY <1>1, <1>2, <1>3, <1>4 DEF FieldInv

LEMMA FieldNextInv ==
  FieldInv /\ [FieldNext]_fieldVars => FieldInv' /\ [Record!Next]_(Record!vars)
<1> SUFFICES ASSUME FieldInv, [FieldNext]_fieldVars
             PROVE  FieldInv' /\ [Record!Next]_(Record!vars)
  OBVIOUS
<1>1. [Next]_vars
  BY FieldStepIsQueueStep
<1>2. CASE \E s \in Stop : TapStart(s) \/ TapSkip(s) \/ TapComplete(s)
  BY <1>1, <1>2, TapInv
<1>3. CASE \E p \in Photo, s \in Stop, k \in Kind : TapPhoto(p, s, k)
  BY <1>1, <1>3, TapPhotoInv
<1>4. CASE PhotoIsQueued
  BY <1>1, <1>4, PhotoIsQueuedInv DEF PhotoIsQueued
<1>5. CASE Back \/ StartRoute \/ Refetch \/ RouteIsRead \/ FetchAnswered \/ FetchFails
  BY <1>1, <1>5, ScreenStepInv
<1>6. CASE FieldReplay
  BY <1>1, <1>6, ReplayInv
<1>7. CASE FieldReload
  BY <1>1, <1>7, FieldReloadInv
<1>8. CASE Connectivity
  BY <1>1, <1>8, ConnectivityInv
<1>9. CASE UNCHANGED fieldVars
  <2>1. /\ Untouched
        /\ UNCHANGED <<queue, todo, acked, staged, route, begun, fetch, cached, processed>>
    BY <1>9 DEF fieldVars, vars, device, replay, server, screen, Untouched
  <2>2. ServerTypes' /\ RecordOK' /\ ServerGrows /\ [Record!Next]_(Record!vars)
    BY <2>1, UntouchedOK DEF FieldInv
  <2>3. Sound
    BY <1>1, <2>1, <2>2, QuietStep
  <2>4. ScreenTypes'
    BY <2>1 DEF FieldInv, ScreenTypes, Route, StopStatuses, NoRoute, Planned, Asked
  <2> QED BY <2>1, <2>2, <2>3, <2>4, ScreenAgrees
<1> QED BY <1>2, <1>3, <1>4, <1>5, <1>6, <1>7, <1>8, <1>9 DEF FieldNext

-----------------------------------------------------------------------------
(* The device in the field is a device of OfflineQueue: everything proved  *)
(* of the queue alone holds with the screen and the server at its ends.    *)
THEOREM FieldIsQueue == FieldSpec => Spec
<1>1. FieldInit => Init
  BY DEF FieldInit
<1> QED BY <1>1, FieldStepIsQueueStep, PTL DEF FieldSpec, Spec

(* The inductive invariant of the screen, the queue and the server.        *)
THEOREM FieldInvariant == FieldSpec => []FieldInv
BY FieldInitInv, FieldNextInv, PTL DEF FieldSpec

(* Types of the queue, the screen and the server.                          *)
THEOREM FieldTypeCorrect == FieldSpec => []FieldTypeOK
<1>1. FieldInv => FieldTypeOK
  BY InvImpliesTypeOK DEF FieldInv, ServerTypes, ScreenTypes, FieldTypeOK
<1> QED BY <1>1, FieldInvariant, PTL

(* A stop the screen shows as done or skipped is so on the server, or the  *)
(* queue holds the action that says so (useTodayRoute.ts, offlineQueue.ts). *)
THEOREM WorkIsNotForgotten == FieldSpec => []NoWorkForgotten
<1>1. FieldInv => NoWorkForgotten
  BY DEF FieldInv
<1> QED BY <1>1, FieldInvariant, PTL

(* A queued photo that was acknowledged is evidence of the visit, unless a *)
(* start of its stop failed or was left running.                           *)
THEOREM QueuedPhotosCount == FieldSpec => []QueuedPhotoIsEvidence
<1>1. FieldInv => QueuedPhotoIsEvidence
  BY DEF FieldInv, AckedUploadsCount, QueuedPhotoIsEvidence, Stuck
<1> QED BY <1>1, FieldInvariant, PTL

(* Whatever the network loses, repeats or delays, the server's record of   *)
(* the stops is a behaviour of StopRecord.                                 *)
THEOREM RecordIsKept == FieldSpec => ServerKeepsRecord
<1>1. FieldInit => Record!Init
  BY DEF FieldInit, Record!Init
<1> QED BY <1>1, FieldInvariant, FieldNextInv, PTL
     DEF FieldSpec, ServerKeepsRecord, Record!Spec
=============================================================================
