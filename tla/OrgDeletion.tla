----------------------------- MODULE OrgDeletion ----------------------------
(***************************************************************************)
(* exportDeleteRoutes.ts: an administrator asks for an export of the       *)
(* organisation and gets a confirmation token; presenting the token        *)
(* deletes everything the organisation has.  Crews keep recording, audit   *)
(* rows are written late, and several administrators may be at it.  The    *)
(* export reads table by table on a plain connection; the deletion is one  *)
(* READ COMMITTED transaction whose writes appear at COMMIT.               *)
(***************************************************************************)
EXTENDS Naturals, Sequences

CONSTANTS DelOrg,      \* organisations
          Row,         \* rows that can exist, [org, table, visit]
          FirstRows,   \* those that exist in the beginning
          Ticket,      \* confirmation tokens
          NoTicket,
          Clerk        \* requests of administrators served at one time

Table == <<"evidence", "visits", "audit_log">>

ASSUME RowAssumption ==
    /\ \A x \in Row : x.org \in DelOrg /\ \E i \in DOMAIN Table : x.table = Table[i]
    /\ FirstRows \subseteq Row
(* A visit's id is a primary key, and its evidence is of its organisation. *)
ASSUME VisitAssumption ==
    \A v, x \in Row : v.table = "visits" /\ x.table = "evidence" /\ v.visit = x.visit =>
                         v.org = x.org
ASSUME OrgAssumption == DelOrg # {}
ASSUME TicketAssumption == NoTicket \notin Ticket

VARIABLES rows,        \* committed rows
          born,        \* rows that were ever inserted: ids are not used twice
          ticket,      \* export_delete_tokens
          clerk,       \* the requests under way
          owed         \* organisations whose fire-and-forget audit is to come

delVars == <<rows, born, ticket, clerk, owed>>

NoRequest == [phase |-> "idle", org |-> CHOOSE o \in DelOrg : TRUE, step |-> 0,
              ticket |-> NoTicket, set |-> {}, seen |-> {}]

(* set is what a request has read, or deleted so far; seen is what the     *)
(* organisation had when the deletion began, kept for the properties only. *)
DelTypeOK ==
    /\ rows \subseteq born
    /\ born \subseteq Row
    /\ ticket \in [Ticket -> [org : DelOrg, bundle : SUBSET Row,
                              state : {"unissued", "valid", "expired", "consumed"}]]
    /\ clerk \in [Clerk -> [phase : {"idle", "export", "delete"}, org : DelOrg,
                            step : 0..Len(Table), ticket : Ticket \union {NoTicket},
                            set : SUBSET Row, seen : SUBSET Row]]
    /\ owed \subseteq DelOrg

DelInit == /\ rows = FirstRows
           /\ born = FirstRows
           /\ ticket = [t \in Ticket |-> [org |-> NoRequest.org, bundle |-> {},
                                          state |-> "unissued"]]
           /\ clerk = [c \in Clerk |-> NoRequest]
           /\ owed = {}

-----------------------------------------------------------------------------
OfOrg(o, table) == {x \in rows : x.org = o /\ x.table = table}

Deleting(c) == clerk[c].phase = "delete"

(* Rows another transaction has deleted are locked until it ends.          *)
Locked(c) == UNION {clerk[d].set : d \in {e \in Clerk \ {c} : Deleting(e)}}

(* A row is recorded: evidence needs its visit, and waits for a deletion   *)
(* of it, which makes the insert fail.                                     *)
Record(x) ==
    /\ x \notin born
    /\ x.table # "audit_log"
    /\ x.table = "evidence" =>
          \E v \in OfOrg(x.org, "visits") :
             /\ v.visit = x.visit
             /\ \A c \in Clerk : Deleting(c) => v \notin clerk[c].set
    /\ rows' = rows \union {x}
    /\ born' = born \union {x}
    /\ UNCHANGED <<ticket, clerk, owed>>

(* auditWrite of a request, whenever its promise is run.                   *)
AuditLands(o) ==
    /\ o \in owed
    /\ \/ \E x \in Row \ born : /\ x.org = o
                                /\ x.table = "audit_log"
                                /\ rows' = rows \union {x}
                                /\ born' = born \union {x}
       \/ UNCHANGED <<rows, born>>
    /\ owed' = owed \ {o}
    /\ UNCHANGED <<ticket, clerk>>

Expire(t) == /\ ticket[t].state = "valid"
             /\ ticket' = [ticket EXCEPT ![t].state = "expired"]
             /\ UNCHANGED <<rows, born, clerk, owed>>

-----------------------------------------------------------------------------
(* .../request: the tables are read one by one into the bundle, which is   *)
(* written to disk before its token is.                                    *)
StartExport(c, o) ==
    /\ clerk[c].phase = "idle"
    /\ clerk' = [clerk EXCEPT ![c] = [NoRequest EXCEPT !.phase = "export", !.org = o]]
    /\ UNCHANGED <<rows, born, ticket, owed>>

ReadTable(c) ==
    /\ clerk[c].phase = "export"
    /\ clerk[c].step < Len(Table)
    /\ clerk' = [clerk EXCEPT ![c].step = @ + 1,
                   ![c].set = @ \union OfOrg(clerk[c].org, Table[clerk[c].step + 1])]
    /\ UNCHANGED <<rows, born, ticket, owed>>

IssueToken(c, t) ==
    /\ clerk[c].phase = "export"
    /\ clerk[c].step = Len(Table)
    /\ ticket[t].state = "unissued"
    /\ ticket' = [ticket EXCEPT ![t] = [org |-> clerk[c].org, bundle |-> clerk[c].set,
                                        state |-> "valid"]]
    /\ owed' = owed \union {clerk[c].org}
    /\ clerk' = [clerk EXCEPT ![c] = NoRequest]
    /\ UNCHANGED <<rows, born>>

-----------------------------------------------------------------------------
StartDeletionAnyOrg(c, o, t) ==
    /\ clerk[c].phase = "idle"
    /\ ticket[t].state = "valid"
    /\ clerk' = [clerk EXCEPT ![c] =
                   [NoRequest EXCEPT !.phase = "delete", !.org = o, !.ticket = t,
                                     !.seen = {x \in rows : x.org = o}]]
    /\ UNCHANGED <<rows, born, ticket, owed>>

(* .../execute: the token is looked up without a lock, before BEGIN: it    *)
(* must be known, not expired, not consumed, and the caller's own.         *)
StartDeletion(c, o, t) ==
    /\ clerk[c].phase = "idle"
    /\ ticket[t].state = "valid"
    /\ ticket[t].org = o
    /\ clerk' = [clerk EXCEPT ![c] =
                   [NoRequest EXCEPT !.phase = "delete", !.org = o, !.ticket = t,
                                     !.seen = {x \in rows : x.org = o}]]
    /\ UNCHANGED <<rows, born, ticket, owed>>

(* DELETE ... WHERE org_id: the rows committed by now, after waiting for   *)
(* those another deletion holds; what hangs on a visit goes with it.       *)
DeleteTable(c) ==
    /\ Deleting(c)
    /\ clerk[c].step < Len(Table)
    /\ LET table == Table[clerk[c].step + 1]
           mine == OfOrg(clerk[c].org, table)
           hanging == {x \in rows : /\ table = "visits"
                                    /\ x.table = "evidence"
                                    /\ \E v \in mine : v.visit = x.visit}
       IN  /\ (mine \union hanging) \intersect Locked(c) = {}
           /\ clerk' = [clerk EXCEPT ![c].step = @ + 1,
                                     ![c].set = @ \union mine \union hanging]
    /\ UNCHANGED <<rows, born, ticket, owed>>

(* The token is consumed, whatever it has become, in the same transaction. *)
CommitDeletion(c) ==
    /\ Deleting(c)
    /\ clerk[c].step = Len(Table)
    /\ rows' = rows \ clerk[c].set
    /\ ticket' = [ticket EXCEPT ![clerk[c].ticket].state = "consumed"]
    /\ clerk' = [clerk EXCEPT ![c] = NoRequest]
    /\ UNCHANGED <<born, owed>>

(* A statement fails or the process dies: ROLLBACK, nothing was done.      *)
GiveUp(c) == /\ clerk[c].phase # "idle"
             /\ clerk' = [clerk EXCEPT ![c] = NoRequest]
             /\ UNCHANGED <<rows, born, ticket, owed>>

DelNext ==
    \/ \E x \in Row : Record(x)
    \/ \E o \in DelOrg : AuditLands(o)
    \/ \E t \in Ticket : Expire(t)
    \/ \E c \in Clerk :
         \/ \E o \in DelOrg : StartExport(c, o)
         \/ ReadTable(c)
         \/ \E t \in Ticket : IssueToken(c, t)
         \/ \E o \in DelOrg, t \in Ticket : StartDeletion(c, o, t)
         \/ DeleteTable(c) \/ CommitDeletion(c) \/ GiveUp(c)

DelSpec == DelInit /\ [][DelNext]_delVars

-----------------------------------------------------------------------------
(* "The token consumed_at is set atomically with the delete so partial     *)
(* deletion cannot leave the token re-usable", "a token issued for one org *)
(* must never delete another org's data", "after commit, nothing remains": *)
(* rows of an organisation disappear only in a step that leaves a consumed *)
(* token of its own, and with them all that was there when the deletion    *)
(* began, although another deletion and crews work on the same tables.     *)
DeletionIsWhole ==
    [][/\ \A x \in rows \ rows' : \E t \in Ticket :
             ticket'[t].state = "consumed" /\ ticket'[t].org = x.org
       /\ \A c \in Clerk :
             Deleting(c) /\ rows' # rows /\ clerk'[c].phase = "idle" =>
                 clerk[c].seen \intersect rows' = {}]_delVars
=============================================================================
