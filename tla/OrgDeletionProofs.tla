-------------------------- MODULE OrgDeletionProofs --------------------------
(***************************************************************************)
(* Theorem about OrgDeletion: for any organisations, rows, tokens and      *)
(* administrators at work at once, a deletion is whole and has its token.  *)
(***************************************************************************)
EXTENDS OrgDeletion, TLAPS

(* What a deletion under way may rely on: its token was issued for its     *)
(* organisation, it has taken rows of no other, and in the tables it has   *)
(* been through it has taken all that it saw and that is still there.      *)
DeletionInv(c) ==
    Deleting(c) =>
        /\ clerk[c].ticket \in Ticket
        /\ ticket[clerk[c].ticket].state # "unissued"
        /\ ticket[clerk[c].ticket].org = clerk[c].org
        /\ \A x \in clerk[c].set : x.org = clerk[c].org
        /\ clerk[c].seen \subseteq born
        /\ \A x \in clerk[c].seen : x.org = clerk[c].org
        /\ \A x \in clerk[c].seen \intersect rows, i \in 1..clerk[c].step :
              x.table = Table[i] => x \in clerk[c].set

DelInv == DelTypeOK /\ \A c \in Clerk : DeletionInv(c)

RequestType == [phase : {"idle", "export", "delete"}, org : DelOrg,
                step : 0..Len(Table), ticket : Ticket \union {NoTicket},
                set : SUBSET Row, seen : SUBSET Row]

LEMMA TableLength == Len(Table) = 3
  BY DEF Table

LEMMA NoRequestType == NoRequest \in RequestType /\ NoRequest.phase = "idle"
  BY TableLength, OrgAssumption DEF NoRequest, RequestType

LEMMA DelInitInv == DelInit => DelInv
<1> SUFFICES ASSUME DelInit
             PROVE  DelInv
  OBVIOUS
<1>1. NoRequest.org \in DelOrg
  BY NoRequestType DEF RequestType
<1>2. ticket \in [Ticket -> [org : DelOrg, bundle : SUBSET Row,
                             state : {"unissued", "valid", "expired", "consumed"}]]
  BY <1>1 DEF DelInit
<1>3. clerk \in [Clerk -> RequestType]
  BY NoRequestType DEF DelInit
<1>4. DelTypeOK
  BY <1>2, <1>3, RowAssumption DEF DelInit, DelTypeOK, RequestType
<1>5. \A c \in Clerk : ~Deleting(c)
  BY NoRequestType DEF DelInit, Deleting
<1> QED
  BY <1>4, <1>5 DEF DelInv, DeletionInv

(* A deletion goes on as it was beside a step of somebody else: rows that  *)
(* appear are new, and an issued token keeps its organisation.             *)
LEMMA OthersGoOn ==
    ASSUME NEW c \in Clerk, DeletionInv(c), clerk'[c] = clerk[c],
           born \subseteq born', (rows' \ rows) \intersect born = {},
           \A t \in Ticket : ticket[t].state # "unissued" =>
                                 /\ ticket'[t].state # "unissued"
                                 /\ ticket'[t].org = ticket[t].org
    PROVE  DeletionInv(c)'
  BY DEF DeletionInv, Deleting

(* A request that is over, or that exports, claims nothing.                *)
LEMMA NotDeleting ==
    ASSUME NEW c \in Clerk, clerk'[c].phase # "delete"
    PROVE  DeletionInv(c)'
  BY DEF DeletionInv, Deleting

LEMMA DelStepInv == DelInv /\ [DelNext]_delVars => DelInv'
<1> SUFFICES ASSUME DelInv, [DelNext]_delVars
             PROVE  DelInv'
  OBVIOUS
<1> USE DEF DelInv
<1>t. /\ clerk \in [Clerk -> RequestType]
      /\ NoRequest \in RequestType /\ NoRequest.phase = "idle"
  BY NoRequestType DEF DelTypeOK, RequestType
<1>1. ASSUME NEW x \in Row, Record(x)
      PROVE  DelInv'
  <2>1. DelTypeOK'
    BY <1>1 DEF Record, DelTypeOK
  <2>2. ASSUME NEW c \in Clerk
        PROVE  DeletionInv(c)'
    BY <1>1, OthersGoOn DEF Record
  <2> QED
    BY <2>1, <2>2
<1>2. ASSUME NEW o \in DelOrg, AuditLands(o)
      PROVE  DelInv'
  <2>1. /\ rows' \subseteq born' /\ born \subseteq born' /\ born' \subseteq Row
        /\ (rows' \ rows) \intersect born = {}
        /\ UNCHANGED <<ticket, clerk>> /\ owed' \subseteq DelOrg
    BY <1>2 DEF AuditLands, DelTypeOK
  <2>2. DelTypeOK'
    BY <2>1 DEF DelTypeOK
  <2>3. ASSUME NEW c \in Clerk
        PROVE  DeletionInv(c)'
    BY <2>1, OthersGoOn
  <2> QED
    BY <2>2, <2>3
<1>3. ASSUME NEW t \in Ticket, Expire(t)
      PROVE  DelInv'
  <2>1. DelTypeOK'
    BY <1>3 DEF Expire, DelTypeOK
  <2>2. \A u \in Ticket : ticket[u].state # "unissued" =>
                              /\ ticket'[u].state # "unissued"
                              /\ ticket'[u].org = ticket[u].org
    BY <1>3 DEF Expire, DelTypeOK
  <2>3. ASSUME NEW c \in Clerk
        PROVE  DeletionInv(c)'
    BY <1>3, <2>2, OthersGoOn DEF Expire
  <2> QED
    BY <2>1, <2>3
(* A step of request c is right if what c has afterwards is.               *)
<1>a. ASSUME NEW c \in Clerk, NEW q \in RequestType, clerk' = [clerk EXCEPT ![c] = q],
             DeletionInv(c)', UNCHANGED born, rows' \subseteq rows, owed' \subseteq DelOrg,
             ticket' \in [Ticket -> [org : DelOrg, bundle : SUBSET Row,
                              state : {"unissued", "valid", "expired", "consumed"}]],
             \A t \in Ticket : ticket[t].state # "unissued" =>
                                   /\ ticket'[t].state # "unissued"
                                   /\ ticket'[t].org = ticket[t].org
      PROVE  DelInv'
  <2>1. clerk' \in [Clerk -> RequestType]
    BY <1>a, <1>t
  <2>2. DelTypeOK'
    BY <1>a, <2>1 DEF DelTypeOK, RequestType
  <2>3. ASSUME NEW d \in Clerk, d # c
        PROVE  DeletionInv(d)'
    <3>1. clerk'[d] = clerk[d]
      BY <1>a, <1>t, <2>3
    <3> QED
      BY <1>a, <3>1, OthersGoOn
  <2> QED
    BY <1>a, <2>2, <2>3
<1>4. ASSUME NEW c \in Clerk, NEW o \in DelOrg, StartExport(c, o)
      PROVE  DelInv'
  <2> DEFINE q == [NoRequest EXCEPT !.phase = "export", !.org = o]
  <2>1. q \in RequestType /\ q.phase # "delete"
    BY <1>t DEF RequestType
  <2>2. clerk' = [clerk EXCEPT ![c] = q] /\ UNCHANGED <<rows, born, ticket, owed>>
    BY <1>4 DEF StartExport
  <2>3. DeletionInv(c)'
    BY <1>t, <2>1, <2>2, NotDeleting
  <2> QED
    BY <1>a, <2>1, <2>2, <2>3 DEF DelTypeOK
<1>5. ASSUME NEW c \in Clerk, ReadTable(c)
      PROVE  DelInv'
  <2> DEFINE read == OfOrg(clerk[c].org, Table[clerk[c].step + 1])
             q == [clerk[c] EXCEPT !.step = @ + 1, !.set = @ \union read]
  <2>1. q \in RequestType /\ q.phase # "delete"
    <3>1. read \in SUBSET Row
      BY DEF OfOrg, DelTypeOK
    <3> HIDE DEF read
    <3>2. clerk[c] \in RequestType
      BY <1>t
    <3>3. clerk[c].step + 1 \in 0..Len(Table)
      BY <1>5, <3>2, TableLength DEF ReadTable, RequestType
    <3>4. clerk[c].set \union read \in SUBSET Row
      BY <3>1, <3>2 DEF RequestType
    <3>5. clerk[c].phase = "export"
      BY <1>5 DEF ReadTable
    <3> QED
      BY <3>2, <3>3, <3>4, <3>5 DEF RequestType
  <2>2. clerk' = [clerk EXCEPT ![c] = q] /\ UNCHANGED <<rows, born, ticket, owed>>
    BY <1>5, <1>t DEF ReadTable
  <2>3. DeletionInv(c)'
    BY <1>t, <2>1, <2>2, NotDeleting
  <2> QED
    BY <1>a, <2>1, <2>2, <2>3 DEF DelTypeOK
<1>6. ASSUME NEW c \in Clerk, NEW t \in Ticket, IssueToken(c, t)
      PROVE  DelInv'
  <2>1. /\ clerk' = [clerk EXCEPT ![c] = NoRequest] /\ UNCHANGED <<rows, born>>
        /\ ticket' = [ticket EXCEPT ![t] = [org |-> clerk[c].org, bundle |-> clerk[c].set,
                                            state |-> "valid"]]
        /\ ticket[t].state = "unissued"
        /\ owed' = owed \union {clerk[c].org}
    BY <1>6 DEF IssueToken
  <2>2. clerk[c].org \in DelOrg /\ clerk[c].set \in SUBSET Row
    BY <1>t DEF RequestType
  <2>3. DeletionInv(c)'
    BY <1>t, <2>1, NotDeleting
  <2>4. ticket' \in [Ticket -> [org : DelOrg, bundle : SUBSET Row,
                         state : {"unissued", "valid", "expired", "consumed"}]]
    BY <2>1, <2>2 DEF DelTypeOK
  <2>5. \A u \in Ticket : ticket[u].state # "unissued" => ticket'[u] = ticket[u]
    BY <2>1 DEF DelTypeOK
  <2> QED
    BY <1>a, <1>t, <2>1, <2>2, <2>3, <2>4, <2>5 DEF DelTypeOK
<1>7. ASSUME NEW c \in Clerk, NEW o \in DelOrg, NEW t \in Ticket, StartDeletion(c, o, t)
      PROVE  DelInv'
  <2> DEFINE q == [NoRequest EXCEPT !.phase = "delete", !.org = o, !.ticket = t,
                                    !.seen = {x \in rows : x.org = o}]
  <2>1. /\ clerk' = [clerk EXCEPT ![c] = q] /\ UNCHANGED <<rows, born, ticket, owed>>
        /\ ticket[t].state = "valid" /\ ticket[t].org = o
    BY <1>7 DEF StartDeletion
  <2>2. /\ q.org = o /\ q.ticket = t /\ q.seen = {x \in rows : x.org = o}
        /\ q.set = {} /\ q.step = 0
    BY <1>t DEF NoRequest
  <2>3. q \in RequestType
    BY <1>t DEF RequestType, DelTypeOK
  <2>4. clerk'[c] = q
    BY <1>t, <2>1
  <2> HIDE DEF q
  <2>5. DeletionInv(c)'
    BY <2>1, <2>2, <2>4 DEF DeletionInv, DelTypeOK
  <2> QED
    BY <1>a, <2>1, <2>3, <2>5 DEF DelTypeOK
<1>8. ASSUME NEW c \in Clerk, DeleteTable(c)
      PROVE  DelInv'
  <2> DEFINE table == Table[clerk[c].step + 1]
             mine == OfOrg(clerk[c].org, table)
             hanging == {x \in rows : /\ table = "visits"
                                      /\ x.table = "evidence"
                                      /\ \E v \in mine : v.visit = x.visit}
             q == [clerk[c] EXCEPT !.step = @ + 1, !.set = @ \union mine \union hanging]
  <2>1. /\ Deleting(c) /\ clerk[c].step < Len(Table)
        /\ clerk' = [clerk EXCEPT ![c] = q] /\ UNCHANGED <<rows, born, ticket, owed>>
    BY <1>8, <1>t DEF DeleteTable
  <2>2. mine \subseteq rows /\ hanging \subseteq rows /\ rows \subseteq Row
    BY DEF OfOrg, DelTypeOK
  <2>3. \A x \in mine \union hanging : x.org = clerk[c].org
    BY <2>2, VisitAssumption DEF OfOrg
  <2>4. \A x \in rows : x.org = clerk[c].org /\ x.table = table => x \in mine
    BY DEF OfOrg
  <2> HIDE DEF mine, hanging
  <2>5. /\ q \in RequestType
        /\ q.phase = clerk[c].phase /\ q.org = clerk[c].org /\ q.ticket = clerk[c].ticket
        /\ q.seen = clerk[c].seen
        /\ q.set = clerk[c].set \union mine \union hanging
        /\ q.step = clerk[c].step + 1 /\ clerk[c].step \in 0..Len(Table)
    <3>1. clerk[c] \in RequestType
      BY <1>t
    <3>2. clerk[c].step \in 0..Len(Table) /\ clerk[c].step + 1 \in 0..Len(Table)
      BY <2>1, <3>1, TableLength DEF RequestType
    <3>3. clerk[c].set \union mine \union hanging \in SUBSET Row
      BY <2>2, <3>1 DEF RequestType
    <3> QED
      BY <3>1, <3>2, <3>3 DEF RequestType
  <2>6. clerk'[c] = q
    BY <1>t, <2>1
  <2> HIDE DEF q
  <2>7. \A i \in 1..q.step : i \in 1..clerk[c].step \/ Table[i] = table
    BY <2>5, TableLength
  <2> HIDE DEF table
  <2>8. DeletionInv(c)'
    BY <2>1, <2>3, <2>4, <2>5, <2>6, <2>7 DEF DeletionInv, Deleting
  <2> QED
    BY <1>a, <2>1, <2>5, <2>8 DEF DelTypeOK
<1>9. ASSUME NEW c \in Clerk, CommitDeletion(c)
      PROVE  DelInv'
  <2>1. /\ Deleting(c) /\ rows' = rows \ clerk[c].set
        /\ ticket' = [ticket EXCEPT ![clerk[c].ticket].state = "consumed"]
        /\ clerk' = [clerk EXCEPT ![c] = NoRequest] /\ UNCHANGED <<born, owed>>
    BY <1>9 DEF CommitDeletion
  <2>2. DeletionInv(c)'
    BY <1>t, <2>1, NotDeleting
  <2>3. /\ ticket' \in [Ticket -> [org : DelOrg, bundle : SUBSET Row,
                            state : {"unissued", "valid", "expired", "consumed"}]]
        /\ \A u \in Ticket : ticket[u].state # "unissued" =>
                                 /\ ticket'[u].state # "unissued"
                                 /\ ticket'[u].org = ticket[u].org
    <3>1. clerk[c].ticket \in Ticket
      BY <2>1 DEF DeletionInv
    <3>2. \A u \in Ticket :
             ticket'[u] = IF u = clerk[c].ticket THEN [ticket[u] EXCEPT !.state = "consumed"]
                          ELSE ticket[u]
      BY <2>1 DEF DelTypeOK
    <3> DEFINE TicketType == [org : DelOrg, bundle : SUBSET Row,
                              state : {"unissued", "valid", "expired", "consumed"}]
    <3>3. \A u \in Ticket : ticket[u] \in TicketType
      BY DEF DelTypeOK
    <3>4. \A u \in Ticket : ticket'[u] \in TicketType /\ ticket'[u].org = ticket[u].org
                           /\ ticket'[u].state \in {ticket[u].state, "consumed"}
      BY <3>2, <3>3
    <3>5. ticket' = [u \in Ticket |-> ticket'[u]]
      BY <2>1 DEF DelTypeOK
    <3> HIDE DEF TicketType
    <3>6. ticket' \in [Ticket -> TicketType]
      BY <3>4, <3>5
    <3> QED
      BY <3>4, <3>6 DEF TicketType
  <2> QED
    BY <1>a, <1>t, <2>1, <2>2, <2>3 DEF DelTypeOK
<1>10. ASSUME NEW c \in Clerk, GiveUp(c)
       PROVE  DelInv'
  <2>1. clerk' = [clerk EXCEPT ![c] = NoRequest] /\ UNCHANGED <<rows, born, ticket, owed>>
    BY <1>10 DEF GiveUp
  <2>2. DeletionInv(c)'
    BY <1>t, <2>1, NotDeleting
  <2> QED
    BY <1>a, <1>t, <2>1, <2>2 DEF DelTypeOK
<1>11. CASE UNCHANGED delVars
  <2>1. DelTypeOK'
    BY <1>11 DEF delVars, DelTypeOK
  <2>2. ASSUME NEW c \in Clerk
        PROVE  DeletionInv(c)'
    BY <1>11, OthersGoOn DEF delVars
  <2> QED
    BY <2>1, <2>2
<1> QED
  BY <1>1, <1>2, <1>3, <1>4, <1>5, <1>6, <1>7, <1>8, <1>9, <1>10, <1>11 DEF DelNext

(* Rows go only in a commit, which takes those of one organisation, all it *)
(* saw of them, and consumes a token of that organisation.                 *)
DeletionStep ==
    /\ \A x \in rows \ rows' : \E t \in Ticket :
          ticket'[t].state = "consumed" /\ ticket'[t].org = x.org
    /\ \A c \in Clerk :
          Deleting(c) /\ rows' # rows /\ clerk'[c].phase = "idle" =>
              clerk[c].seen \intersect rows' = {}

LEMMA CommitIsWhole ==
    ASSUME DelInv, NEW d \in Clerk, CommitDeletion(d)
    PROVE  DeletionStep
<1> USE DEF DelInv
<1>1. /\ Deleting(d) /\ rows' = rows \ clerk[d].set /\ clerk[d].step = Len(Table)
      /\ ticket' = [ticket EXCEPT ![clerk[d].ticket].state = "consumed"]
      /\ clerk' = [clerk EXCEPT ![d] = NoRequest]
  BY DEF CommitDeletion
<1>2. /\ clerk[d].ticket \in Ticket
      /\ ticket[clerk[d].ticket].org = clerk[d].org
      /\ \A x \in clerk[d].set : x.org = clerk[d].org
  BY <1>1 DEF DeletionInv
<1>3. ticket'[clerk[d].ticket].state = "consumed" /\ ticket'[clerk[d].ticket].org = clerk[d].org
  BY <1>1, <1>2 DEF DelTypeOK
<1>4. \A x \in rows \ rows' : \E t \in Ticket :
         ticket'[t].state = "consumed" /\ ticket'[t].org = x.org
  BY <1>1, <1>2, <1>3
<1>5. ASSUME NEW x \in clerk[d].seen, x \in rows
      PROVE  x \in clerk[d].set
  <2>1. x \in Row
    BY <1>5 DEF DelTypeOK
  <2>2. PICK i \in DOMAIN Table : x.table = Table[i]
    BY <2>1, RowAssumption
  <2>3. i \in 1..clerk[d].step
    BY <1>1, <2>2 DEF Table
  <2> QED
    BY <1>1, <1>5, <2>2, <2>3 DEF DeletionInv
<1>6. ASSUME NEW c \in Clerk, Deleting(c), clerk'[c].phase = "idle"
      PROVE  c = d
  BY <1>1, <1>6 DEF Deleting, DelTypeOK
<1> QED
  BY <1>1, <1>4, <1>5, <1>6 DEF DeletionStep

LEMMA StepIsWhole == DelInv /\ [DelNext]_delVars => [DeletionStep]_delVars
<1> SUFFICES ASSUME DelInv, DelNext
             PROVE  DeletionStep
  OBVIOUS
<1>1. ASSUME UNCHANGED rows
      PROVE  DeletionStep
  BY <1>1 DEF DeletionStep
<1>2. ASSUME rows \subseteq rows', UNCHANGED clerk
      PROVE  DeletionStep
  BY <1>2 DEF DeletionStep, Deleting
<1>3. ASSUME NEW x \in Row, Record(x)
      PROVE  DeletionStep
  BY <1>2, <1>3 DEF Record
<1>4. ASSUME NEW o \in DelOrg, AuditLands(o)
      PROVE  DeletionStep
  BY <1>2, <1>4 DEF AuditLands
<1> QED
  BY <1>1, <1>3, <1>4, CommitIsWhole
  DEF DelNext, Expire, StartExport, ReadTable, IssueToken, StartDeletion, DeleteTable, GiveUp

(* "After commit, nothing remains" of what the organisation had when its   *)
(* deletion began, and rows go only with a consumed token of their own     *)
(* organisation (exportDeleteRoutes.ts), however many administrators and   *)
(* crews are at work and wherever a deletion fails.                        *)
THEOREM DeletionCorrect == DelSpec => DeletionIsWhole
  BY DelInitInv, DelStepInv, StepIsWhole, PTL
  DEF DelSpec, DeletionIsWhole, DeletionStep
=============================================================================
