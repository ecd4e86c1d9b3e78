----------------------------- MODULE StopRecord -----------------------------
(***************************************************************************)
(* What the stop endpoints promise, without handlers, locks or statements: *)
(* one step per request that took effect.  A stop and the visit that       *)
(* records it change together, a run is closed by the system only when no  *)
(* stop of it is left to do, and a dispatcher may open or close a run at   *)
(* any time.  StopLifecycle is shown to implement this specification.      *)
(***************************************************************************)
CONSTANT Stop            \* the route_run_stops of one route run

VARIABLES status,        \* status[s]: route_run_stops.status
          visit,         \* visit[s]: the visit of the stop, "none" before one exists
          runStatus,     \* route_runs.status
          finishedAt     \* route_runs.finished_at is set

vars == <<status, visit, runStatus, finishedAt>>

Terminal == {"done", "skipped"}

Closed(v, outcome) == IF v \in {"none", "open"} THEN outcome ELSE v

Init == /\ status = [s \in Stop |-> "pending"]
        /\ visit = [s \in Stop |-> "none"]
        /\ runStatus = "planned"
        /\ finishedAt = FALSE

Start(s) == /\ status[s] = "pending"
            /\ status' = [status EXCEPT ![s] = "in_progress"]
            /\ visit' = [visit EXCEPT ![s] = "open"]
            /\ UNCHANGED <<runStatus, finishedAt>>

ClosesRun(st) == /\ \A s \in Stop : st[s] \in Terminal
                 /\ runStatus \notin {"finished", "completed"}
                 /\ runStatus' = "finished"
                 /\ finishedAt' = TRUE

(* A stop is serviced or skipped only after it was started.  Either        *)
(* outcome may follow the other one: the visit keeps the first.            *)
Skip(s) == /\ status[s] # "pending"
           /\ status' = [status EXCEPT ![s] = "skipped"]
           /\ visit' = [visit EXCEPT ![s] = Closed(@, "skipped")]
           /\ \/ ClosesRun(status')
              \/ UNCHANGED <<runStatus, finishedAt>>

Complete(s) == /\ status[s] \in {"in_progress", "skipped"}
               /\ status' = [status EXCEPT ![s] = "done"]
               /\ visit' = [visit EXCEPT ![s] = Closed(@, "completed")]
               /\ \/ ClosesRun(status')
                  \/ UNCHANGED <<runStatus, finishedAt>>

AutoFinish == /\ ClosesRun(status)
              /\ UNCHANGED <<status, visit>>

StartRun == /\ runStatus' = "in_progress"
            /\ UNCHANGED <<status, visit, finishedAt>>

FinishRun == /\ runStatus' = "completed"
             /\ finishedAt' = TRUE
             /\ UNCHANGED <<status, visit>>

Next == \/ \E s \in Stop : Start(s) \/ Skip(s) \/ Complete(s)
        \/ AutoFinish \/ StartRun \/ FinishRun

Spec == Init /\ [][Next]_vars
=============================================================================
