---------------------------- MODULE OfflineQueue ----------------------------
(***************************************************************************)
(* The worker's device: the action queue of offlineQueue.ts, the photo     *)
(* store of photoStore.ts and the replay driven by OfflineSyncManager.tsx. *)
(* A step is what JavaScript runs between two awaits, so the screen, the   *)
(* browser's events, a page reload and the network come between any two    *)
(* steps of a replay.  The queue is written through to localStorage at     *)
(* every change: a reload keeps it and forgets the replay.                 *)
(*                                                                         *)
(* The server is the environment: a request reaches it or not, and it      *)
(* acknowledges or refuses.  The code 'conflict' is never set: the API     *)
(* client throws plain Errors, in which parseApiErrorCode finds no code.   *)
(***************************************************************************)
EXTENDS Naturals, Sequences

CONSTANTS Stop,       \* the stops on the worker's screen
          Photo,      \* photos the worker can take
          Kind,       \* their kinds
          NoKind,     \* the kind of an action that is no upload
          MaxActions, \* bound: action ids a behaviour may use
          Reloads     \* may the page be reloaded, or the user sign out?

ASSUME NoKindAssumption == NoKind \notin Kind
ASSUME MaxActionsAssumption == MaxActions \in Nat
ASSUME ReloadsAssumption == Reloads \in BOOLEAN

VARIABLES queue,      \* the actions of the queue, in order of insertion
          used,       \* ids given so far; a greater id was created later
          store,      \* photos whose blob is in IndexedDB
          staged,     \* <<photo, stop, kind>> stored, their upload not queued yet
          todo,       \* what is left of the snapshot a replay works through
          pc,         \* where the replay is in its current action
          online,     \* navigator.onLine
          signedIn,   \* an account is active
          acked,      \* ids of the actions whose success the client has seen
          delivered   \* photos that reached the server

device == <<queue, used, store, staged>>
replay == <<todo, pc>>
browser == <<online, signedIn>>
server == <<acked, delivered>>
vars == <<device, replay, browser, server>>

-----------------------------------------------------------------------------
Rank == [start |-> 1, upload |-> 2, skip |-> 3, complete |-> 4]
Type == DOMAIN Rank
Status == {"pending", "running", "done", "failed"}
MaxRetries == 3

Action == [id : 1..MaxActions, type : Type, stop : Stop,
           kind : Kind \union {NoKind}, photos : SUBSET Photo,
           retry : 0..MaxRetries, status : Status]

Fresh(type, stop, kind, photos) ==
    [id |-> used + 1, type |-> type, stop |-> stop, kind |-> kind,
     photos |-> photos, retry |-> 0, status |-> "pending"]

Pending(q) == {q[i] : i \in {j \in DOMAIN q : q[j].status = "pending"}}

LeastByAge(S) == CHOOSE a \in S : \A b \in S : a.id <= b.id

(* The replay order: by kind of action, then by age.                       *)
Least(S) ==
    CHOOSE a \in S : \A b \in S : \/ Rank[a.type] < Rank[b.type]
                                  \/ /\ Rank[a.type] = Rank[b.type]
                                     /\ a.id <= b.id

Current == Least(todo)

MarkByStop(q, a, status) ==
    [i \in DOMAIN q |-> IF q[i].stop = a.stop /\ q[i].type = a.type
                        THEN [q[i] EXCEPT !.status = status] ELSE q[i]]

(* updateActionStatus: nothing happens when the id has left the queue.     *)
Mark(q, a, status) ==
    [i \in DOMAIN q |-> IF q[i].id = a.id
                        THEN [q[i] EXCEPT !.status = status] ELSE q[i]]

(* To be tried again, as often as the snapshot says and once more.         *)
Retried(q, a) ==
    [i \in DOMAIN q |-> IF q[i].id = a.id
                        THEN [q[i] EXCEPT !.status = "pending", !.retry = a.retry + 1]
                        ELSE q[i]]

(* What already stands in the queue for the same work as a, where.         *)
Alike(q, a, statuses) ==
    {i \in DOMAIN q : /\ q[i].type = a.type
                      /\ q[i].stop = a.stop
                      /\ q[i].kind = a.kind
                      /\ q[i].status \in statuses}

First(I) == CHOOSE i \in I : \A j \in I : i <= j

(* enqueueAction: an upload joins a pending one of its stop and kind, a    *)
(* start is dropped behind a live one, a skip replaces a pending one.      *)
Enqueued(q, a) ==
    LET waiting == Alike(q, a, {"pending"})
        live == Alike(q, a, {"pending", "running"})
    IN  CASE a.type = "upload" /\ waiting # {} ->
                 [q EXCEPT ![First(waiting)].photos = @ \union a.photos]
          [] a.type = "start" /\ live # {} -> q
          [] a.type = "skip" /\ waiting # {} ->
                 [q EXCEPT ![First(waiting)] = a]
          [] OTHER -> Append(q, a)

-----------------------------------------------------------------------------
Init == /\ queue = <<>>
        /\ used = 0
        /\ store = {}
        /\ staged = {}
        /\ todo = {}
        /\ pc = "idle"
        /\ online \in BOOLEAN
        /\ signedIn = TRUE
        /\ acked = {}
        /\ delivered = {}

(* attemptReplay with no replay under way: runReplay takes its snapshot of *)
(* the pending actions of q and marks the first one running.               *)
Begin(q, on, user) ==
    IF on /\ user /\ Pending(q) # {}
    THEN /\ todo' = Pending(q)
         /\ pc' = "prepare"
         /\ queue' = Mark(q, Least(Pending(q)), "running")
    ELSE /\ todo' = {}
         /\ pc' = "idle"
         /\ queue' = q

(* Every change of the queue notifies OfflineSyncManager, which ignores it *)
(* while a replay is under way.                                            *)
Notify(q) == IF todo = {} THEN Begin(q, online, signedIn)
                          ELSE /\ queue' = q
                               /\ UNCHANGED replay

(* handleStartStop, handleSkipStop, handleCompleteStop.                    *)
Ask(type, s) ==
    /\ signedIn
    /\ used < MaxActions
    /\ used' = used + 1
    /\ Notify(Enqueued(queue, Fresh(type, s, NoKind, {})))
    /\ UNCHANGED <<store, staged, browser, server>>

(* uploadPhotos: the photo goes straight to the server, or, when the       *)
(* network fails, into the store; it may have reached the server even so.  *)
(* The screen takes one capture at a time (isUploadingPhoto).              *)
Shoot(p, s, k) ==
    /\ signedIn
    /\ staged = {}
    /\ p \notin store \union delivered
    /\ \A a \in todo : p \notin a.photos
    /\ \/ /\ online
          /\ delivered' = delivered \union {p}
          /\ UNCHANGED <<store, staged>>
       \/ /\ store' = store \union {p}
          /\ staged' = staged \union {<<p, s, k>>}
          /\ \/ UNCHANGED delivered
             \/ online /\ delivered' = delivered \union {p}
    /\ UNCHANGED <<queue, used, replay, browser, acked>>

(* queueStopPhotosUpload, once putPhoto has settled.                       *)
QueuePhoto(x) ==
    /\ used < MaxActions
    /\ used' = used + 1
    /\ staged' = staged \ {x}
    /\ Notify(Enqueued(queue, Fresh("upload", x[2], x[3], {x[1]})))
    /\ UNCHANGED <<store, browser, server>>

-----------------------------------------------------------------------------
GoOnline == /\ ~online
            /\ online' = TRUE
            /\ IF todo = {} THEN Begin(queue, TRUE, signedIn)
                            ELSE UNCHANGED <<queue, replay>>
            /\ UNCHANGED <<used, store, staged, signedIn, server>>

GoOffline == /\ online
             /\ online' = FALSE
             /\ UNCHANGED <<device, replay, signedIn, server>>

(* The page is closed, killed or reloaded, and mounts again.  A request    *)
(* under way may still reach the server.                                   *)
Reload ==
    /\ Reloads
    /\ staged' = {}
    /\ Begin(queue, online, signedIn)
    /\ \/ UNCHANGED delivered
       \/ /\ pc = "sent" /\ online
          /\ delivered' = delivered \union Current.photos
    /\ UNCHANGED <<used, store, browser, acked>>

(* signOut clears the queue and the blobs; a replay under way goes on.     *)
(* Not while a capture is under way: that the worker does both is left out. *)
SignOut == /\ Reloads
           /\ signedIn
           /\ staged = {}
           /\ signedIn' = FALSE
           /\ queue' = <<>>
           /\ store' = {}
           /\ UNCHANGED <<used, staged, replay, online, server>>

SignIn == /\ ~signedIn
          /\ signedIn' = TRUE
          /\ UNCHANGED <<device, replay, online, server>>

-----------------------------------------------------------------------------
(* The current action is over and q is the queue that says so.             *)
Advance(q) ==
    LET rest == todo \ {Current}
    IN  /\ todo' = rest
        /\ IF rest = {}
           THEN pc' = "idle" /\ queue' = q
           ELSE pc' = "prepare" /\ queue' = Mark(q, Least(rest), "running")

(* Reset to pending; the replay stops here.                                *)
Requeue == /\ queue' = Mark(queue, Current, "pending")
           /\ todo' = {}
           /\ pc' = "idle"

PrepareTakesBlobs ==
    /\ pc = "prepare"
    /\ Current.photos \subseteq store
    /\ pc' = "sent"
    /\ store' = store \ Current.photos
    /\ UNCHANGED <<queue, used, staged, todo, browser, server>>

(* The executor awaits its token and reads its blobs.                      *)
Prepare ==
    /\ pc = "prepare"
    /\ Current.photos \subseteq store
    /\ pc' = "sent"
    /\ UNCHANGED <<device, todo, browser, server>>

(* No token, a blob missing, or IndexedDB failing.                         *)
PrepareFails ==
    /\ pc = "prepare"
    /\ Advance(Mark(queue, Current, "failed"))
    /\ UNCHANGED <<used, store, staged, browser, server>>

Acknowledged ==
    /\ pc = "sent"
    /\ online
    /\ acked' = acked \union {Current.id}
    /\ delivered' = delivered \union Current.photos
    /\ IF Current.type = "upload"
       THEN pc' = "clean" /\ UNCHANGED <<queue, todo>>
       ELSE Advance(Mark(queue, Current, "done"))
    /\ UNCHANGED <<used, store, staged, browser>>

RefusedIsDone ==
    /\ pc = "sent"
    /\ online
    /\ Advance(Mark(queue, Current, "done"))
    /\ UNCHANGED <<used, store, staged, browser, server>>

Refused ==
    /\ pc = "sent"
    /\ online
    /\ Advance(Mark(queue, Current, "failed"))
    /\ UNCHANGED <<used, store, staged, browser, server>>

PhotoMissingOnceMore ==
    /\ pc = "sent"
    /\ online
    /\ Current.type = "skip"
    /\ \/ /\ Current.retry <= MaxRetries
          /\ Advance(Retried(queue, Current))
       \/ /\ Current.retry > MaxRetries
          /\ Advance(Mark(queue, Current, "failed"))
    /\ UNCHANGED <<used, store, staged, browser, server>>

PhotoMissingInPlace ==
    /\ pc = "sent"
    /\ online
    /\ Current.type = "skip"
    /\ pc' = "prepare"
    /\ UNCHANGED <<device, todo, browser, server>>

(* "A safety photo is required": the skip may be tried again, three times. *)
(* The wording of the refusal of a completion is not recognised.           *)
PhotoMissing ==
    /\ pc = "sent"
    /\ online
    /\ Current.type = "skip"
    /\ Current.retry < MaxRetries
    /\ Advance(Retried(queue, Current))
    /\ UNCHANGED <<used, store, staged, browser, server>>

(* The request or its answer is lost.                                      *)
NetworkFails ==
    /\ pc = "sent"
    /\ Requeue
    /\ \/ UNCHANGED delivered
       \/ online /\ delivered' = delivered \union Current.photos
    /\ UNCHANGED <<used, store, staged, browser, acked>>

CleanWholeStop ==
    /\ pc = "clean"
    /\ store' = {p \in store :
                   ~\E i \in DOMAIN queue : /\ queue[i].id = Current.id
                                            /\ p \in queue[i].photos}
    /\ Advance(Mark(queue, Current, "done"))
    /\ UNCHANGED <<used, staged, browser, server>>

CleanTriesAgain ==
    /\ pc = "clean"
    /\ \/ /\ store' = store \ Current.photos
          /\ Advance(Mark(queue, Current, "done"))
       \/ /\ UNCHANGED store
          /\ Advance(Mark(queue, Current, "pending"))
    /\ UNCHANGED <<used, staged, browser, server>>

(* The blobs of the uploaded photos are deleted, or that fails.            *)
Clean ==
    /\ pc = "clean"
    /\ \/ /\ store' = store \ Current.photos
          /\ Advance(Mark(queue, Current, "done"))
       \/ /\ \E S \in SUBSET Current.photos : store' = store \ S
          /\ Advance(Mark(queue, Current, "failed"))
    /\ UNCHANGED <<used, staged, browser, server>>

Replay == \/ Prepare \/ PrepareFails \/ Acknowledged \/ Refused
          \/ PhotoMissing \/ NetworkFails \/ Clean

Next == \/ \E s \in Stop, t \in Type \ {"upload"} : Ask(t, s)
        \/ \E p \in Photo, s \in Stop, k \in Kind : Shoot(p, s, k)
        \/ \E x \in staged : QueuePhoto(x)
        \/ GoOnline \/ GoOffline \/ Reload \/ SignOut \/ SignIn
        \/ Replay

Spec == Init /\ [][Next]_vars

(* What an executor awaits settles: fetch ends or times out, IndexedDB     *)
(* and the token library call back.  Nobody has to act, and the browser    *)
(* need not report anything.                                               *)
FairSpec == Spec /\ WF_vars(Replay)

(* Connectivity comes and goes for ever, and the network does not lose     *)
(* every request: what "when connectivity returns" supposes of the world.  *)
Answered == Acknowledged \/ Refused \/ PhotoMissing
ReconnectSpec == /\ FairSpec
                 /\ WF_vars(GoOnline)
                 /\ WF_vars(GoOffline)
                 /\ []<><<Prepare>>_vars => []<><<Answered>>_vars

-----------------------------------------------------------------------------
(* Types; ids are given once; and a replay has something to do exactly     *)
(* when it is under way, whatever ended the one before it: an answer, a    *)
(* lost connection, a reload (isReplayingRef, OfflineSyncManager.tsx).     *)
TypeOK == /\ queue \in Seq(Action)
          /\ \A i, j \in DOMAIN queue : queue[i].id = queue[j].id => i = j
          /\ used \in 0..MaxActions
          /\ store \subseteq Photo
          /\ staged \subseteq Photo \X Stop \X Kind
          /\ todo \subseteq Action
          /\ pc \in {"idle", "prepare", "sent", "clean"}
          /\ pc = "idle" <=> todo = {}
          /\ online \in BOOLEAN
          /\ signedIn \in BOOLEAN
          /\ acked \subseteq 1..MaxActions
          /\ delivered \subseteq Photo

(* "Written at capture time; deleted by OfflineSyncManager after           *)
(* successful upload replay" (offline_queue_architecture.md): whatever     *)
(* joined an upload while it ran, a photo that is not on the server stays  *)
(* on the device of a worker who is signed in.                             *)
BlobOutlivesUpload ==
    [][signedIn' => store \ store' \subseteq delivered]_vars

(* An upload that will run again still has its blobs: another action's     *)
(* clean-up, a merge, a lost answer or a reload never take them away.      *)
WaitingUploadHasBlobs ==
    \A a \in Pending(queue) : a.photos \subseteq store

(* An action whose success the client has seen is not sent again, although *)
(* actions whose answer was lost are (runReplay).                          *)
AckedIsNotResent ==
    [][pc # "sent" /\ pc' = "sent" => Current.id \notin acked]_vars

(* A start, skip or completion is marked done only when the server said    *)
(* so, even if it was replaced, or the queue cleared, while it ran.        *)
DoneWasAcknowledged ==
    \A i \in DOMAIN queue :
        queue[i].status = "done" /\ queue[i].type # "upload" =>
            queue[i].id \in acked

(* "photos must exist on the backend before completion, stop must be       *)
(* started before it can be completed": when a completion is sent, no      *)
(* start or upload of its stop waits that was there before it, or that the *)
(* same replay knows of.                                                   *)
CompletionGoesLast ==
    pc = "sent" /\ Current.type = "complete" =>
        \A a \in Pending(queue) :
            a.stop = Current.stop /\ a.type \in {"start", "upload"} =>
                /\ a.id > Current.id
                /\ \A b \in todo : b.id # a.id

(* A replay ends, and with it the lock that keeps the next one out: each   *)
(* action is tried once, also the ones that go back to pending.            *)
ReplayEnds == pc # "idle" ~> pc = "idle"

(* As long as connectivity keeps returning, every action that is not       *)
(* replaced is settled in the end: the one in front of it that fails or    *)
(* has to be tried again does not keep it waiting for ever.                *)
Unsettled(id) == \E i \in DOMAIN queue :
                    /\ queue[i].id = id
                    /\ queue[i].status \in {"pending", "running"}
EveryActionSettles == \A id \in 1..MaxActions : Unsettled(id) ~> ~Unsettled(id)

-----------------------------------------------------------------------------
(* Statements of the repository about the queue that the code above does   *)
(* not keep; each is refuted by a run of its own.                          *)

(* "done: Successfully applied to backend" (offline_queue_architecture.md). *)
DoneUploadIsDelivered ==
    \A i \in DOMAIN queue :
        queue[i].status = "done" => queue[i].photos \subseteq delivered

Waiting(id) == /\ online
               /\ signedIn
               /\ \E a \in Pending(queue) : a.id = id

(* "replayed to the backend when connectivity returns": an action does not *)
(* wait for ever on a device that stays online.                            *)
NoActionWaitsForever == \A id \in 1..MaxActions : Waiting(id) ~> ~Waiting(id)
=============================================================================
