----------------------------- MODULE JobProofs ------------------------------
(***************************************************************************)
(* Theorems about what runs by itself: the EAM bridge, the SFTP export,    *)
(* the migration runner and the rebuild of the risk map, each for any      *)
(* organisations, runs, stops, runners and number of instants or rebuilds, *)
(* and for jobs that overlap and die anywhere.                             *)
(***************************************************************************)
EXTENDS EamBridge, SftpExport, Migrations, RiskMap, TLAPS

-----------------------------------------------------------------------------
(* EamBridge.                                                              *)

(* A row was logged with that finishing time.                              *)
LogHas(t) == \E i \in DOMAIN routeLog : routeLog[i].at = t

(* What a job carries to the watermark was logged when it got it, and the  *)
(* log only grows.                                                         *)
BridgeInv ==
    /\ BridgeTypeOK
    /\ \A o \in BridgeOrg : job[o].top = 0 \/ LogHas(job[o].top)
    /\ WatermarkWasLogged

(* A row that goes in is logged then, and those before it stay.            *)
LEMMA LogGrows ==
    ASSUME NEW x \in LogRow, routeLog \in Seq(LogRow), routeLog' = Append(routeLog, x)
    PROVE  /\ routeLog' \in Seq(LogRow)
           /\ LogHas(x.at)'
           /\ \A t : LogHas(t) => LogHas(t)'
<1>1. routeLog' \in Seq(LogRow) /\ DOMAIN routeLog' = 1..(Len(routeLog) + 1)
  OBVIOUS
<1>2. routeLog'[Len(routeLog) + 1] = x
  OBVIOUS
<1>3. \A i \in DOMAIN routeLog : i \in DOMAIN routeLog' /\ routeLog'[i] = routeLog[i]
  BY <1>1
<1> QED
  BY <1>1, <1>2, <1>3 DEF LogHas

(* Nothing is logged, and no job carries anything.                         *)
LEMMA BridgeInitInv == BridgeInit => BridgeInv
  BY LastInstantAssumption
  DEF BridgeInit, BridgeInv, BridgeTypeOK, WatermarkWasLogged, Idle, Instant

(* Only AdvanceWatermark moves the watermark, to what the job carries, and *)
(* only InsertRow makes a job carry something, with the row it logs.       *)
LEMMA BridgeStepInv == BridgeInv /\ [BridgeNext]_bridgeVars => BridgeInv'
<1> SUFFICES ASSUME BridgeInv, [BridgeNext]_bridgeVars
             PROVE  BridgeInv'
  OBVIOUS
<1> USE LastInstantAssumption DEF BridgeInv, BridgeTypeOK, Instant, runRows
(* What does not touch the log, the jobs and the watermark.                *)
<1>0. ASSUME UNCHANGED <<watermark, routeLog, job>>, BridgeTypeOK'
      PROVE  BridgeInv'
  BY <1>0 DEF WatermarkWasLogged, LogHas
(* A job that starts, lists or ends without writing to the log.            *)
<1>a. ASSUME UNCHANGED <<watermark, routeLog>>, BridgeTypeOK',
            \A p \in BridgeOrg : job'[p].top \in {0, job[p].top}
      PROVE  BridgeInv'
  BY <1>a DEF WatermarkWasLogged, LogHas
<1>1. ASSUME NEW r \in BridgeRun, BeginFinish(r)
      PROVE  BridgeInv'
  <2>1. BridgeTypeOK'
    BY <1>1 DEF BeginFinish
  <2> QED
    BY <1>0, <1>1, <2>1 DEF BeginFinish
<1>2. ASSUME NEW r \in BridgeRun, EndFinish(r)
      PROVE  BridgeInv'
  <2>1. BridgeTypeOK'
    BY <1>2 DEF EndFinish
  <2> QED
    BY <1>0, <1>2, <2>1 DEF EndFinish
<1>3. ASSUME NEW r \in BridgeRun, RestartRun(r)
      PROVE  BridgeInv'
  <2>1. BridgeTypeOK'
    BY <1>3 DEF RestartRun
  <2> QED
    BY <1>0, <1>3, <2>1 DEF RestartRun
<1>4. ASSUME NEW r \in BridgeRun, CloseRun(r)
      PROVE  BridgeInv'
  <2>1. CASE stamp[r] = 0
    <3>1. instant + 1 \in Instant
      BY <1>4, <2>1 DEF CloseRun
    <3>2. BridgeTypeOK'
      BY <1>4, <2>1, <3>1 DEF CloseRun
    <3> QED
      BY <1>0, <1>4, <3>2 DEF CloseRun
  <2>2. CASE stamp[r] # 0
    <3>1. BridgeTypeOK'
      BY <1>4, <2>2 DEF CloseRun
    <3> QED
      BY <1>0, <1>4, <3>1 DEF CloseRun
  <2> QED
    BY <2>1, <2>2
<1>5. ASSUME NEW o \in BridgeOrg, ReadWatermark(o)
      PROVE  BridgeInv'
  <2>1. /\ BridgeTypeOK'
        /\ \A p \in BridgeOrg : job'[p].top \in {0, job[p].top}
    BY <1>5 DEF ReadWatermark
  <2> QED
    BY <1>a, <1>5, <2>1 DEF ReadWatermark
<1>6. ASSUME NEW o \in BridgeOrg, SelectRuns(o)
      PROVE  BridgeInv'
  <2>1. {[run |-> r, at |-> stamp[r]] : r \in Unlogged(o, job[o].from)} \subseteq LogRow
    BY DEF Unlogged, LogRow
  <2> DEFINE rows == {[run |-> r, at |-> stamp[r]] : r \in Unlogged(o, job[o].from)}
  <2>a. job' = [job EXCEPT ![o].phase = "insert", ![o].todo = rows]
    BY <1>6 DEF SelectRuns
  <2>b. rows \in SUBSET LogRow
    BY <2>1
  <2> HIDE DEF rows
  <2>2. job' \in [BridgeOrg -> [phase : {"idle", "select", "insert"}, from : Instant,
                                todo : SUBSET LogRow, top : Instant]]
    <3> DEFINE Job == [phase : {"idle", "select", "insert"}, from : Instant,
                       todo : SUBSET LogRow, top : Instant]
               next == [job[o] EXCEPT !.phase = "insert", !.todo = rows]
    <3>1. job \in [BridgeOrg -> Job] /\ job[o] \in Job
      OBVIOUS
    <3>2. next \in Job
      BY <2>b, <3>1
    <3>3. job' = [job EXCEPT ![o] = next]
      BY <2>a
    <3> HIDE DEF Job, next
    <3>4. job' \in [BridgeOrg -> Job]
      BY <3>1, <3>2, <3>3
    <3> QED
      BY <3>4 DEF Job
  <2>3. /\ \A p \in BridgeOrg : job'[p].top = job[p].top
        /\ UNCHANGED <<runRows, watermark, routeLog>>
    BY <1>6 DEF SelectRuns
  <2>4. BridgeTypeOK'
    BY <2>2, <2>3
  <2> QED
    BY <1>a, <2>3, <2>4
<1>7. ASSUME NEW o \in BridgeOrg, InsertRow(o)
      PROVE  BridgeInv'
  <2>1. PICK x \in Earliest(job[o].todo) :
           /\ IF Logged(x.run)
              THEN /\ job' = [job EXCEPT ![o].todo = @ \ {x}]
                   /\ UNCHANGED routeLog
              ELSE /\ job' = [job EXCEPT ![o].todo = @ \ {x},
                                ![o].top = IF x.at > @ THEN x.at ELSE @]
                   /\ routeLog' = Append(routeLog, x)
           /\ UNCHANGED <<runRows, watermark>>
    BY <1>7 DEF InsertRow
  <2>0. x \in LogRow /\ x.at \in Instant
    BY DEF Earliest, LogRow
  <2>2. CASE Logged(x.run)
    <3>1. /\ job' = [job EXCEPT ![o].todo = @ \ {x}]
          /\ UNCHANGED <<runRows, watermark, routeLog>>
      BY <2>1, <2>2
    <3>2. /\ BridgeTypeOK'
          /\ \A p \in BridgeOrg : job'[p].top \in {0, job[p].top}
      BY <3>1
    <3> QED
      BY <1>a, <3>1, <3>2
  <2>3. CASE ~Logged(x.run)
    <3>1. /\ routeLog' = Append(routeLog, x)
          /\ job' = [job EXCEPT ![o].todo = @ \ {x},
                                ![o].top = IF x.at > @ THEN x.at ELSE @]
          /\ UNCHANGED <<runState, stamp, late, instant, watermark>>
      BY <2>1, <2>3
    <3>2. /\ routeLog' \in Seq(LogRow) /\ LogHas(x.at)'
          /\ \A t : LogHas(t) => LogHas(t)'
      BY <2>0, <3>1, LogGrows
    <3>3. BridgeTypeOK'
      <4> DEFINE top == IF x.at > job[o].top THEN x.at ELSE job[o].top
      <4>1. top \in Instant
        BY <2>0
      <4>2. job' = [job EXCEPT ![o].todo = @ \ {x}, ![o].top = top]
        BY <3>1
      <4> HIDE DEF top
      <4>3. job' \in [BridgeOrg -> [phase : {"idle", "select", "insert"}, from : Instant,
                                    todo : SUBSET LogRow, top : Instant]]
        <5>1. job[o].todo \ {x} \in SUBSET LogRow
          OBVIOUS
        <5> DEFINE todo == job[o].todo \ {x}
        <5>2. job' = [job EXCEPT ![o].todo = todo, ![o].top = top]
          BY <4>2
        <5>3. todo \in SUBSET LogRow
          BY <5>1
        <5> HIDE DEF todo
        <5> DEFINE Job == [phase : {"idle", "select", "insert"}, from : Instant,
                           todo : SUBSET LogRow, top : Instant]
                   next == [job[o] EXCEPT !.todo = todo, !.top = top]
        <5>4. job \in [BridgeOrg -> Job] /\ job[o] \in Job
          OBVIOUS
        <5>5. next \in Job
          BY <4>1, <5>3, <5>4
        <5>6. job' = [job EXCEPT ![o] = next]
          BY <5>2
        <5> HIDE DEF Job, next
        <5>7. job' \in [BridgeOrg -> Job]
          BY <5>4, <5>5, <5>6
        <5> QED
          BY <5>7 DEF Job
      <4> QED
        BY <3>1, <3>2, <4>3
    <3>4. \A p \in BridgeOrg : job'[p].top \in {job[p].top, x.at}
                               /\ (p # o => job'[p] = job[p])
      BY <3>1
    <3>5. \A p \in BridgeOrg : (job[p].top = 0 \/ LogHas(job[p].top))'
      BY <3>1, <3>2
    <3>6. WatermarkWasLogged'
      BY <3>1, <3>2 DEF WatermarkWasLogged, LogHas
    <3> QED
      BY <3>3, <3>5, <3>6
  <2> QED
    BY <2>2, <2>3
<1>8. ASSUME NEW o \in BridgeOrg, AdvanceWatermark(o)
      PROVE  BridgeInv'
  <2>1. /\ job' = [job EXCEPT ![o] = Idle] /\ UNCHANGED <<runRows, routeLog>>
        /\ watermark' \in {watermark, job[o].top}
        /\ job[o].top = 0 => watermark' = watermark
    BY <1>8 DEF AdvanceWatermark
  <2>2. BridgeTypeOK'
    BY <2>1 DEF Idle
  <2>3. \A p \in BridgeOrg : job'[p].top \in {0, job[p].top}
    BY <2>1 DEF Idle
  <2>4. WatermarkWasLogged'
    BY <2>1 DEF WatermarkWasLogged, LogHas
  <2> QED
    BY <2>1, <2>2, <2>3, <2>4 DEF LogHas
<1>9. ASSUME NEW o \in BridgeOrg, JobDies(o)
      PROVE  BridgeInv'
  <2>1. /\ BridgeTypeOK'
        /\ \A p \in BridgeOrg : job'[p].top \in {0, job[p].top}
    BY <1>9 DEF JobDies, Idle
  <2> QED
    BY <1>a, <1>9, <2>1 DEF JobDies
<1>10. CASE UNCHANGED bridgeVars
  BY <1>10 DEF bridgeVars, WatermarkWasLogged, LogHas
<1> QED
  BY <1>1, <1>2, <1>3, <1>4, <1>5, <1>6, <1>7, <1>8, <1>9, <1>10 DEF BridgeNext

(* The watermark never runs ahead of the log (populateEamBridge.ts): it is *)
(* 0, or the finishing time of a run whose row was inserted, for any jobs  *)
(* that overlap and die anywhere.                                          *)
THEOREM WatermarkCorrect == BridgeSpec => []WatermarkWasLogged
<1>1. BridgeInv => WatermarkWasLogged
  BY DEF BridgeInv
<1> QED
  BY <1>1, BridgeInitInv, BridgeStepInv, PTL DEF BridgeSpec

-----------------------------------------------------------------------------
(* SftpExport.                                                             *)

(* The server holds nothing of a file of the export.                       *)
Untouched(held) == \A f \in FileName : held[f] = "none"

(* The server holds every file of the export.                              *)
Whole(held) == \A f \in FileName : held[f] = "whole"

(* Files are put in the order of the list: one is begun when all before it *)
(* are whole.                                                              *)
PutInOrder(held) ==
    /\ held["json.sha256"] # "none" => held["json"] = "whole"
    /\ held["tar"] # "none" => held["json.sha256"] = "whole"
    /\ held["tar.sha256"] # "none" => held["tar"] = "whole"

(* The server holds nothing of an organisation whose turn has not come to  *)
(* be uploaded; what it holds of any is the beginning of the list, and     *)
(* while that is not all of it the local copies are there.                 *)
RemoteOK ==
    \A o \in ExportOrg :
        /\ PutInOrder(remote[o])
        /\ o > turn \/ (o = turn /\ stage \in {"config", "read", "write"}) => Untouched(remote[o])
        /\ o \in local \/ Whole(remote[o]) \/ Untouched(remote[o])

(* The loop: each organisation before the turn has an audit row or is      *)
(* counted as failed; one with an audit row was exported to where it was   *)
(* meant to go, and so was the one whose row is about to be written.       *)
LoopOK ==
    /\ turn = ExportOrgs + 1 => stage = "over"
    /\ stage = "upload" => uploads /\ turn \in local
    /\ stage = "audit" => Whole(remote[turn]) \/ (~uploads /\ turn \in local)
    /\ exported \subseteq 1..(turn - 1)
    /\ 1..(turn - 1) \subseteq exported \union failed
    /\ \A o \in exported : Whole(remote[o]) \/ (~uploads /\ o \in local)
    /\ exitCode = "0" => turn = ExportOrgs + 1 /\ failed = {}

(* The invariant of the export.                                            *)
SftpInv == SftpTypeOK /\ RemoteOK /\ LoopOK

(* Before the first organisation nothing was written, sent or recorded.    *)
LEMMA SftpInitInv == SftpInit => SftpInv
<1> SUFFICES ASSUME SftpInit
             PROVE  SftpInv
  OBVIOUS
<1> USE ExportOrgsAssumption
<1>1. SftpTypeOK
  BY DEF SftpInit, SftpTypeOK, ExportOrg
<1>2. RemoteOK
  BY DEF SftpInit, RemoteOK, PutInOrder, Untouched, FileName
<1>3. LoopOK
  BY DEF SftpInit, LoopOK
<1> QED
  BY <1>1, <1>2, <1>3 DEF SftpInv

(* The file that is put next is the first one not whole.                   *)
LEMMA NextFileIsFirst ==
    ASSUME stage = "upload", \E f \in FileName : remote[turn][f] # "whole"
    PROVE  /\ NextFile \in FileName
           /\ remote[turn][NextFile] # "whole"
           /\ NextFile = "json.sha256" => remote[turn]["json"] = "whole"
           /\ NextFile = "tar" => remote[turn]["json.sha256"] = "whole"
           /\ NextFile = "tar.sha256" => remote[turn]["tar"] = "whole"
<1> DEFINE IsFirst(i) == /\ remote[turn][Files[i]] # "whole"
                         /\ \A j \in 1..(i - 1) : remote[turn][Files[j]] = "whole"
<1>1. /\ DOMAIN Files = 1..4
      /\ Files[1] = "json" /\ Files[2] = "json.sha256" /\ Files[3] = "tar" /\ Files[4] = "tar.sha256"
  BY DEF Files
<1>2. \E i \in 1..4 : IsFirst(i)
  <2>1. CASE remote[turn]["json"] # "whole"
    <3>1. IsFirst(1)
      BY <1>1, <2>1
    <3> QED
      BY <3>1
  <2>2. CASE remote[turn]["json"] = "whole" /\ remote[turn]["json.sha256"] # "whole"
    <3>1. IsFirst(2)
      BY <1>1, <2>2
    <3> QED
      BY <3>1
  <2>3. CASE /\ remote[turn]["json"] = "whole" /\ remote[turn]["json.sha256"] = "whole"
             /\ remote[turn]["tar"] # "whole"
    <3>1. IsFirst(3)
      BY <1>1, <2>3
    <3> QED
      BY <3>1
  <2>4. CASE /\ remote[turn]["json"] = "whole" /\ remote[turn]["json.sha256"] = "whole"
             /\ remote[turn]["tar"] = "whole" /\ remote[turn]["tar.sha256"] # "whole"
    <3>1. IsFirst(4)
      BY <1>1, <2>4
    <3> QED
      BY <3>1
  <2> QED
    BY <2>1, <2>2, <2>3, <2>4 DEF FileName
<1>3. PICK i \in 1..4 : IsFirst(i) /\ NextFile = Files[i]
  BY <1>1, <1>2 DEF NextFile
<1>4. /\ i = 2 => remote[turn][Files[1]] = "whole"
      /\ i = 3 => remote[turn][Files[2]] = "whole"
      /\ i = 4 => remote[turn][Files[3]] = "whole"
  BY <1>3
<1>5. remote[turn][NextFile] # "whole"
  BY <1>3
<1> HIDE DEF IsFirst
<1>6. i \in {1, 2, 3, 4}
  OBVIOUS
<1> QED
  BY <1>1, <1>3, <1>4, <1>5, <1>6 DEF FileName

(* A put of the next file begins it when all before it are whole, and      *)
(* makes it whole.                                                         *)
LEMMA PutKeeps ==
    ASSUME SftpInv, Put
    PROVE  SftpInv'
<1>0. SftpTypeOK /\ RemoteOK /\ LoopOK
  BY DEF SftpInv
<1> USE ExportOrgsAssumption
<1> DEFINE now == remote[turn][NextFile]
<1>1. turn \in ExportOrg
  BY <1>0 DEF SftpTypeOK, LoopOK, Put, ExportOrg
<1>2. remote[turn] \in [FileName -> {"none", "part", "whole"}]
  BY <1>0, <1>1 DEF SftpTypeOK
<1>3. NextFile \in FileName
  BY NextFileIsFirst DEF Put
<1>4. /\ remote' = [remote EXCEPT ![turn] =
                       [remote[turn] EXCEPT ![NextFile] = IF now = "none" THEN "part" ELSE "whole"]]
      /\ UNCHANGED <<uploads, turn, stage, bundle, local, exported, failed, exitCode>>
  BY DEF Put
<1>5. /\ \A o \in ExportOrg \ {turn} : remote'[o] = remote[o]
      /\ remote'[turn] = [remote[turn] EXCEPT ![NextFile] = IF now = "none" THEN "part" ELSE "whole"]
      /\ remote'[turn] \in [FileName -> {"none", "part", "whole"}]
  BY <1>0, <1>1, <1>2, <1>4 DEF SftpTypeOK
<1>6. remote' \in [ExportOrg -> [FileName -> {"none", "part", "whole"}]]
  BY <1>0, <1>1, <1>4, <1>5 DEF SftpTypeOK
<1>7. PutInOrder(remote'[turn])
  BY <1>0, <1>1, <1>2, <1>5, NextFileIsFirst DEF RemoteOK, PutInOrder, FileName, Put
<1>8. SftpTypeOK'
  BY <1>0, <1>4, <1>6 DEF SftpTypeOK
<1>9. RemoteOK'
  BY <1>0, <1>1, <1>4, <1>5, <1>7 DEF RemoteOK, LoopOK, Put, ExportOrg
<1>10. LoopOK'
  <2>1. turn \notin exported
    BY <1>0, <1>1 DEF LoopOK, ExportOrg
  <2>2. \A o \in exported : remote'[o] = remote[o]
    BY <1>0, <1>5, <2>1 DEF SftpTypeOK
  <2> QED
    BY <1>0, <1>4, <2>2 DEF LoopOK, Put
<1> QED
  BY <1>8, <1>9, <1>10 DEF SftpInv

(* Whatever became of an organisation, the loop goes on behind it.         *)
LEMMA LoopGoesOn ==
    ASSUME SftpInv, stage \in {"read", "write", "upload", "audit"}, NextOrg(failed'),
           \/ failed' = failed \union {turn} /\ exported' = exported
           \/ /\ stage = "audit" /\ failed' = failed
              /\ exported' = exported \union {turn},
           UNCHANGED <<uploads, bundle, local, remote>>
    PROVE  SftpInv'
<1>0. SftpTypeOK /\ RemoteOK /\ LoopOK
  BY DEF SftpInv
<1> USE ExportOrgsAssumption
<1>1. turn \in 1..ExportOrgs /\ turn' = turn + 1
  BY <1>0 DEF SftpTypeOK, LoopOK, NextOrg
<1>2. \/ turn < ExportOrgs /\ stage' = "read" /\ exitCode' = exitCode
      \/ /\ turn = ExportOrgs /\ stage' = "over"
         /\ exitCode' = IF failed' = {} THEN "0" ELSE "1"
  BY <1>1 DEF NextOrg
<1>3. exitCode # "0"
  BY <1>0, <1>1 DEF LoopOK
<1>4. SftpTypeOK'
  <2>1. turn' \in 1..(ExportOrgs + 1)
    BY <1>1
  <2>3. exported' \subseteq ExportOrg /\ failed' \subseteq ExportOrg
    BY <1>0, <1>1 DEF SftpTypeOK, ExportOrg
  <2>2. /\ stage' \in {"config", "read", "write", "upload", "audit", "over"}
        /\ exitCode' \in {"running", "0", "1"}
    BY <1>0, <1>2 DEF SftpTypeOK
  <2> QED
    BY <1>0, <2>1, <2>2, <2>3 DEF SftpTypeOK
<1>5. RemoteOK'
  BY <1>0, <1>1 DEF RemoteOK, ExportOrg
<1>6. LoopOK'
  <2>1. 1..(turn' - 1) = (1..(turn - 1)) \union {turn}
    BY <1>1
  <2>2. exported' \subseteq 1..(turn' - 1) /\ 1..(turn' - 1) \subseteq exported' \union failed'
    BY <1>0, <2>1 DEF LoopOK
  <2>3. \A o \in exported' : Whole(remote[o]) \/ (~uploads /\ o \in local)
    BY <1>0 DEF LoopOK
  <2> QED
    BY <1>1, <1>2, <1>3, <2>2, <2>3 DEF LoopOK
<1> QED
  BY <1>4, <1>5, <1>6 DEF SftpInv

(* Each stage of the loop body, and each of its failures, keeps the order  *)
(* of the files and the accounts of the loop.                              *)
LEMMA SftpStepInv == SftpInv /\ [SftpNext]_sftpVars => SftpInv'
<1> SUFFICES ASSUME SftpInv, [SftpNext]_sftpVars
             PROVE  SftpInv'
  OBVIOUS
<1> USE ExportOrgsAssumption
<1>0. SftpTypeOK /\ RemoteOK /\ LoopOK
  BY DEF SftpInv
<1>1. CASE LoadConfig
  BY <1>0, <1>1 DEF LoadConfig, SftpInv, SftpTypeOK, RemoteOK, LoopOK, ExportOrg
<1>2. CASE OrgFails
  BY <1>2, LoopGoesOn DEF OrgFails, NextOrg
<1>3. CASE FetchOrgData
  <2>1. SftpTypeOK'
    BY <1>0, <1>3 DEF FetchOrgData, SftpTypeOK
  <2> QED
    BY <1>0, <1>3, <2>1 DEF FetchOrgData, SftpInv, RemoteOK, LoopOK
<1>4. CASE StartWriting
  <2>1. turn \in ExportOrg
    BY <1>0, <1>4 DEF StartWriting, SftpTypeOK, LoopOK, ExportOrg
  <2> QED
    BY <1>0, <1>4, <2>1 DEF StartWriting, SftpInv, SftpTypeOK, RemoteOK, LoopOK
<1>5. CASE WriteOrgExportFiles
  BY <1>0, <1>5 DEF WriteOrgExportFiles, SftpInv, SftpTypeOK, RemoteOK, LoopOK
<1>6. CASE Put
  BY <1>6, PutKeeps
<1>7. CASE Uploaded
  <2>1. Whole(remote[turn]) /\ turn \notin exported
    BY <1>0, <1>7 DEF Uploaded, Whole, LoopOK, SftpTypeOK
  <2>2. local' \subseteq local /\ local \subseteq local' \union {turn}
    BY <1>7 DEF Uploaded
  <2>3. SftpTypeOK'
    BY <1>0, <1>7, <2>2 DEF Uploaded, SftpTypeOK
  <2>4. RemoteOK'
    BY <1>0, <1>7, <2>1, <2>2 DEF Uploaded, RemoteOK
  <2>5. LoopOK'
    BY <1>0, <1>7, <2>1, <2>2 DEF Uploaded, LoopOK
  <2> QED
    BY <2>3, <2>4, <2>5 DEF SftpInv
<1>8. CASE Audit
  <2>1. failed' = failed /\ NextOrg(failed')
    BY <1>8 DEF Audit, NextOrg
  <2> QED
    BY <1>8, <2>1, LoopGoesOn DEF Audit
<1>9. CASE SftpDies
  BY <1>0, <1>9 DEF SftpDies, SftpInv, SftpTypeOK, RemoteOK, LoopOK
<1>10. CASE UNCHANGED sftpVars
  BY <1>0, <1>10 DEF sftpVars, SftpInv, SftpTypeOK, RemoteOK, LoopOK
<1> QED
  BY <1>1, <1>2, <1>3, <1>4, <1>5, <1>6, <1>7, <1>8, <1>9, <1>10 DEF SftpNext

(* No checksum is on the server without the file it is of, and no audit    *)
(* row and no exit code of 0 without an export that can be had             *)
(* (sftpExport.ts), for any number of organisations, whichever puts break  *)
(* off: files are put in one order, and the row is written last.           *)
THEOREM SftpCorrect == SftpSpec => [](SftpTypeOK /\ ExportIsUsable)
<1>1. SftpInv => SftpTypeOK /\ ExportIsUsable
  <2> SUFFICES ASSUME SftpInv
               PROVE  ChecksumFollowsFile /\ ExportIsSomewhere
    BY DEF SftpInv, ExportIsUsable
  <2>0. SftpTypeOK /\ RemoteOK /\ LoopOK
    BY DEF SftpInv
  <2>1. ChecksumFollowsFile
    BY <2>0 DEF RemoteOK, PutInOrder, ChecksumFollowsFile
  <2>2. \A o \in exported : Delivered(o) \/ (~uploads /\ o \in local)
    BY <2>0 DEF LoopOK, Whole, Delivered
  <2>3. ASSUME NEW o \in ExportOrg, \E f \in FileName : remote[o][f] # "none"
        PROVE  o \in local \/ Delivered(o)
    BY <2>0, <2>3 DEF RemoteOK, Whole, Untouched, Delivered
  <2>4. exitCode = "0" => exported = ExportOrg
    <3>1. ASSUME exitCode = "0"
          PROVE  1..(turn - 1) = ExportOrg /\ failed = {}
      BY <2>0, <3>1, ExportOrgsAssumption DEF LoopOK, ExportOrg
    <3> QED
      BY <2>0, <3>1 DEF LoopOK, SftpTypeOK
  <2> QED
    BY <2>1, <2>2, <2>3, <2>4 DEF ExportIsSomewhere
<1> QED
  BY <1>1, SftpInitInv, SftpStepInv, PTL DEF SftpSpec

-----------------------------------------------------------------------------
(* Migrations.                                                             *)

(* What the ledger says was applied is there; and but for what was made by *)
(* hand and not yet recorded, what is there is in the ledger.              *)
LedgerOK ==
    /\ \A f \in ledger \intersect File : Makes(f) \subseteq present
    /\ "reconcile" \in ledger /\ "canon" \in present => "canon" \in ledger
    /\ "next" \in present => "next" \in ledger
    /\ history # "before the renaming" /\ {"one", "two"} \intersect present # {} =>
          "consolidated" \in ledger

(* A run knows of no file the ledger does not have, has left none behind   *)
(* that the ledger does not have, and, once past the consolidated schema,  *)
(* never comes to a legacy file.                                           *)
RunOK(run, names) ==
    run.pc # "off" =>
        /\ run.applied \subseteq Effective(names)
        /\ \/ run.consolidated
           \/ run.at = 1 /\ run.pc # "refresh" /\ "consolidated" \notin run.applied
        /\ \A k \in 1..4 : k < run.at => InOrder[k] \in names
        /\ run.pc \in {"apply", "refresh"} => run.at \in 1..4
        /\ run.pc = "refresh" => InOrder[run.at] \in names
        /\ run.pc = "complete" => run.at = 7

(* What a run of the runner has under way.                                 *)
Runs == [pc : {"off", "next", "apply", "refresh", "complete"},
         at : 1..(Len(InOrder) + 1),
         applied : SUBSET (File \union {"one", "two"}),
         consolidated : BOOLEAN]

(* The invariant of the ledger, the database and the runs.                 *)
MigInv == MigTypeOK /\ LedgerOK /\ (\A r \in Runner : RunOK(runner[r], ledger)) /\ AppliedExactlyOnce

(* The files of the directory, in the order of their names.                *)
LEMMA Directory ==
    /\ Len(InOrder) = 6 /\ DOMAIN InOrder = 1..6
    /\ InOrder[1] = "consolidated" /\ InOrder[2] = "reconcile" /\ InOrder[3] = "canon"
    /\ InOrder[4] = "next" /\ InOrder[5] = "legacy_one" /\ InOrder[6] = "legacy_two"
    /\ File = {"consolidated", "reconcile", "canon", "next", "legacy_one", "legacy_two"}
<1>1. /\ Len(InOrder) = 6 /\ DOMAIN InOrder = 1..6
      /\ InOrder[1] = "consolidated" /\ InOrder[2] = "reconcile" /\ InOrder[3] = "canon"
      /\ InOrder[4] = "next" /\ InOrder[5] = "legacy_one" /\ InOrder[6] = "legacy_two"
  BY DEF InOrder
<1>2. 1..6 = {1, 2, 3, 4, 5, 6}
  OBVIOUS
<1>3. File = {InOrder[i] : i \in {1, 2, 3, 4, 5, 6}}
  BY <1>1, <1>2 DEF File
<1>4. File = {"consolidated", "reconcile", "canon", "next", "legacy_one", "legacy_two"}
  BY <1>1, <1>3
<1> QED
  BY <1>1, <1>4

(* What each of them makes.                                                *)
LEMMA WhatIsMade ==
    /\ Makes("consolidated") = {"one", "two"} /\ Makes("reconcile") = {}
    /\ Makes("canon") = {"canon"} /\ Makes("next") = {"next"}
    /\ Makes("legacy_one") = {"one"} /\ Makes("legacy_two") = {"two"}
    /\ UNION {Makes(f) : f \in File} = {"one", "two", "canon", "next"}
<1>1. /\ Makes("consolidated") = {"one", "two"} /\ Makes("reconcile") = {}
      /\ Makes("canon") = {"canon"} /\ Makes("next") = {"next"}
      /\ Makes("legacy_one") = {"one"} /\ Makes("legacy_two") = {"two"}
  BY DEF Makes
<1>2. UNION {Makes(f) : f \in File}
        = UNION {Makes(f) : f \in {"consolidated", "reconcile", "canon", "next",
                                   "legacy_one", "legacy_two"}}
  BY Directory
<1> QED
  BY <1>1, <1>2

(* What a ledger counts as applied are files or what the consolidated      *)
(* schema contains; it is the ledger but for files applied under their old *)
(* names.                                                                  *)
LEMMA EffectiveNames ==
    ASSUME NEW names \in SUBSET (File \union {"one", "two"})
    PROVE  /\ Effective(names) \subseteq File \union {"one", "two"}
           /\ names \subseteq Effective(names)
           /\ \A f \in File \ Legacy : f \in Effective(names) => f \in names
<1>1. \A n \in names : WithPrefix(n) \in names \union Legacy
  BY DEF WithPrefix, Legacy
<1>2. Legacy \subseteq File
  BY Directory DEF Legacy
<1> QED
  BY <1>1, <1>2 DEF Effective

(* A longer ledger counts as more.                                         *)
LEMMA MoreNames ==
    ASSUME NEW S, NEW T, S \subseteq T
    PROVE  Effective(S) \subseteq Effective(T)
  BY DEF Effective

(* Whatever the history of the database, the ledger and what is there      *)
(* agree, and no run is under way.                                         *)
LEMMA MigInitInv == MigInit => MigInv
<1> SUFFICES ASSUME MigInit
             PROVE  MigInv
  OBVIOUS
<1>1. history \in {"empty", "by hand", "before the renaming"} /\ history \in History
  BY HistoryAssumption DEF MigInit, Known
<1>2. \/ history = "by hand" /\ ledger = {"consolidated"} /\ present = {"one", "two", "canon"}
      \/ history = "before the renaming" /\ ledger = {"one", "two"} /\ present = {"one", "two"}
      \/ history = "empty" /\ ledger = {} /\ present = {}
  BY <1>1 DEF MigInit
<1>3. NoRun \in Runs /\ NoRun.pc = "off"
  BY Directory DEF NoRun, Runs
<1>4. MigTypeOK
  <2>1. ledger \subseteq File \union {"one", "two"} /\ present \subseteq UNION {Makes(f) : f \in File}
    BY <1>2, Directory, WhatIsMade
  <2>2. runner \in [Runner -> Runs]
    BY <1>3 DEF MigInit
  <2> QED
    BY <1>1, <2>1, <2>2 DEF MigTypeOK, Runs, MigInit
<1>5. LedgerOK
  <2>1. \A f \in ledger \intersect File : f = "consolidated"
    BY <1>2, Directory
  <2> QED
    BY <1>2, <2>1, WhatIsMade DEF LedgerOK
<1>6. \A r \in Runner : runner[r].pc = "off"
  BY <1>3 DEF MigInit
<1> QED
  BY <1>4, <1>5, <1>6 DEF MigInv, RunOK, AppliedExactlyOnce, MigInit

(* What is true of a run stays true while the ledger grows.                *)
LEMMA LedgerGrows ==
    ASSUME NEW run, NEW few, NEW more, RunOK(run, few), few \subseteq more
    PROVE  RunOK(run, more)
<1>1. Effective(few) \subseteq Effective(more)
  BY MoreNames
<1> QED
  BY <1>1 DEF RunOK

(* A run takes a file only if the ledger it read does not count it, and of *)
(* two that take the same one the primary key of the ledger lets one apply *)
(* it; what it makes, it records in the same transaction.                  *)
LEMMA MigStepInv == MigInv /\ [MigNext]_migVars => MigInv'
<1> SUFFICES ASSUME MigInv, [MigNext]_migVars
             PROVE  MigInv'
  OBVIOUS
<1>0. /\ MigTypeOK /\ LedgerOK /\ AppliedExactlyOnce
      /\ \A r \in Runner : RunOK(runner[r], ledger)
      /\ runner \in [Runner -> Runs]
  BY DEF MigInv, MigTypeOK, Runs
<1>1. ASSUME NEW r \in Runner, NEW run \in Runs, RunOK(run, ledger), run.pc = "complete" => present = UNION {Makes(f) : f \in File},
             runner' = [runner EXCEPT ![r] = run], UNCHANGED <<history, ledger, present, redone>>
      PROVE  MigInv'
  <2>1. /\ runner' \in [Runner -> Runs] /\ runner'[r] = run
        /\ \A q \in Runner \ {r} : runner'[q] = runner[q]
    BY <1>0, <1>1
  <2>2. MigTypeOK'
    BY <1>0, <1>1, <2>1 DEF MigTypeOK, Runs
  <2>3. LedgerOK'
    BY <1>0, <1>1 DEF LedgerOK
  <2>4. \A q \in Runner : RunOK(runner'[q], ledger)
    BY <1>0, <1>1, <2>1
  <2>6. AppliedExactlyOnce'
    BY <1>0, <1>1, <2>1 DEF AppliedExactlyOnce
  <2> QED
    BY <1>1, <2>2, <2>3, <2>4, <2>6 DEF MigInv
<1>2. ledger \in SUBSET (File \union {"one", "two"})
  BY <1>0 DEF MigTypeOK
<1>3. ASSUME NEW r \in Runner, StartMigrate(r)
      PROVE  MigInv'
  <2> DEFINE run == [pc |-> "next", at |-> 1, applied |-> Effective(ledger),
                     consolidated |-> ledger \intersect {"consolidated", "one", "two"} # {}]
  <2>1. run \in Runs
    BY <1>2, EffectiveNames, Directory DEF Runs
  <2>2. "consolidated" \in Effective(ledger) => "consolidated" \in ledger
    BY <1>2, EffectiveNames, Directory DEF Legacy
  <2>3. /\ run.pc = "next" /\ run.at = 1 /\ run.applied = Effective(ledger)
        /\ run.consolidated = (ledger \intersect {"consolidated", "one", "two"} # {})
    OBVIOUS
  <2>4. run.consolidated \/ "consolidated" \notin run.applied
    BY <2>2, <2>3
  <2> HIDE DEF run
  <2>5. RunOK(run, ledger)
    BY <2>3, <2>4 DEF RunOK
  <2> QED
    BY <1>1, <1>3, <2>1, <2>3, <2>5 DEF StartMigrate, run
<1>4. ASSUME NEW r \in Runner, TakeFile(r)
      PROVE  MigInv'
  <2> DEFINE run == runner[r]
  <2>1. /\ run \in Runs /\ RunOK(run, ledger) /\ run.pc = "next" /\ run.at \in 1..7
        /\ run.applied \subseteq Effective(ledger)
    BY <1>0, <1>4, Directory DEF TakeFile, Runs, RunOK
  <2>5. UNCHANGED <<history, ledger, present, redone>>
    BY <1>4 DEF TakeFile
  <2>2. CASE run.at > Len(InOrder)
    <3> DEFINE new == [run EXCEPT !.pc = "complete"]
    <3>1. runner' = [runner EXCEPT ![r] = new]
      BY <1>4, <2>2 DEF TakeFile
    <3>2. new \in Runs /\ RunOK(new, ledger)
      BY <2>1, <2>2, Directory DEF Runs, RunOK
    <3>3. \A k \in 1..4 : InOrder[k] \in ledger \intersect File
      BY <2>1, <2>2, Directory DEF RunOK
    <3>4. {"consolidated", "canon", "next"} \subseteq ledger \intersect File
      BY <3>3, Directory
    <3>5. {"one", "two", "canon", "next"} \subseteq present
      BY <1>0, <3>4, WhatIsMade DEF LedgerOK
    <3>6. present = UNION {Makes(f) : f \in File}
      BY <1>0, <3>5, WhatIsMade DEF MigTypeOK
    <3> HIDE DEF new
    <3> QED
      BY <1>1, <1>4, <3>1, <3>2, <2>5, <3>6
  <2>3. CASE ~(run.at > Len(InOrder)) /\ Skips(run, InOrder[run.at])
    <3> DEFINE new == [run EXCEPT !.at = run.at + 1]
    <3>1. runner' = [runner EXCEPT ![r] = new]
      BY <1>4, <2>3 DEF TakeFile
    <3>2. run.at \in 1..6 /\ new.at = run.at + 1 /\ new \in Runs /\ new.pc = "next"
          /\ new.applied = run.applied /\ new.consolidated = run.consolidated
      BY <2>1, <2>3, Directory DEF Runs
    <3>3. ASSUME run.at \in 1..4
          PROVE  InOrder[run.at] \in ledger /\ (run.at = 1 => run.consolidated)
      <4>1. InOrder[run.at] \in File \ Legacy
        BY <3>3, Directory DEF Legacy
      <4>2. InOrder[run.at] \in run.applied
        BY <2>3, <4>1 DEF Skips
      <4>3. InOrder[run.at] \in ledger
        BY <1>2, <2>1, <4>1, <4>2, EffectiveNames
      <4> QED
        BY <2>1, <4>2, <4>3, Directory DEF RunOK
    <3>4. new.consolidated
      BY <2>1, <3>2, <3>3 DEF RunOK
    <3>5. \A k \in 1..4 : k < new.at => InOrder[k] \in ledger
      BY <2>1, <3>2, <3>3 DEF RunOK
    <3>6. RunOK(new, ledger)
      BY <2>1, <3>2, <3>4, <3>5 DEF RunOK
    <3> HIDE DEF new
    <3> QED
      BY <1>1, <1>4, <3>1, <3>2, <2>5, <3>6
  <2>4. CASE ~(run.at > Len(InOrder)) /\ ~Skips(run, InOrder[run.at])
    <3> DEFINE new == [run EXCEPT !.pc = "apply"]
    <3>1. runner' = [runner EXCEPT ![r] = new]
      BY <1>4, <2>4 DEF TakeFile
    <3>2. run.at \in 1..6
      BY <2>1, <2>4, Directory
    <3>3. run.at \in 1..4
      BY <2>1, <2>4, <3>2, Directory DEF RunOK, Skips, Legacy
    <3>4. new \in Runs /\ RunOK(new, ledger) /\ new.pc = "apply"
      BY <2>1, <3>3 DEF Runs, RunOK
    <3> HIDE DEF new
    <3> QED
      BY <1>1, <1>4, <2>5, <3>1, <3>4
  <2> QED
    BY <2>2, <2>3, <2>4
<1>5. ASSUME NEW r \in Runner, ApplyFile(r)
      PROVE  MigInv'
  <2> DEFINE run == runner[r]
             file == InOrder[run.at]
             new == [run EXCEPT !.pc = "refresh", !.consolidated = @ \/ file = "consolidated"]
  <2>1. /\ run.pc = "apply" /\ file \notin ledger
        /\ ledger' = ledger \union {file} \union Records(file)
        /\ redone' = redone \union (Makes(file) \intersect present)
        /\ present' = present \union Makes(file)
        /\ runner' = [runner EXCEPT ![r] = new]
        /\ history' = history
    BY <1>5 DEF ApplyFile
  <2>2. run \in Runs /\ RunOK(run, ledger) /\ run.at \in 1..4
    BY <1>0, <2>1 DEF RunOK
  <2>3. /\ new \in Runs /\ new.pc = "refresh" /\ new.at = run.at
        /\ new.applied = run.applied
        /\ new.consolidated = (run.consolidated \/ file = "consolidated")
    BY <2>2 DEF Runs
  <2>4. file \in {"consolidated", "reconcile", "canon", "next"}
    BY <2>2, Directory
  <2>5. Records(file) \subseteq File /\ ledger \subseteq ledger'
    BY <2>1, Directory DEF Records
  <2>6. present' \subseteq {"one", "two", "canon", "next"}
    BY <1>0, <2>1, <2>4, WhatIsMade DEF MigTypeOK
  <2>7. /\ file = "canon" => "reconcile" \in ledger
        /\ run.at > 1 => "consolidated" \in ledger
    <3>1. \A k \in 1..4 : k < run.at => InOrder[k] \in ledger
      BY <2>1, <2>2 DEF RunOK
    <3>2. run.at > 1 => InOrder[1] \in ledger
      BY <2>2, <3>1
    <3>3. run.at = 3 => InOrder[2] \in ledger
      BY <2>2, <3>1
    <3>4. file = "canon" => run.at = 3
      BY <2>2, Directory
    <3> QED
      BY <3>2, <3>3, <3>4, Directory
  <2>8. LedgerOK'
    <3>1. ASSUME NEW f \in ledger' \intersect File
          PROVE  Makes(f) \subseteq present'
      <4>1. CASE f \in ledger
        BY <1>0, <2>1, <3>1, <4>1 DEF LedgerOK
      <4>2. CASE f = file
        BY <2>1, <4>2
      <4>3. CASE f \in Records(file)
        BY <2>1, <4>3, WhatIsMade DEF Records
      <4> QED
        BY <2>1, <3>1, <4>1, <4>2, <4>3
    <3>2. "reconcile" \in ledger' /\ "canon" \in present' => "canon" \in ledger'
      BY <1>0, <2>1, <2>4, <2>5, WhatIsMade DEF LedgerOK, Records
    <3>3. "next" \in present' => "next" \in ledger'
      BY <1>0, <2>1, <2>4, <2>5, WhatIsMade DEF LedgerOK
    <3>4. history' # "before the renaming" /\ {"one", "two"} \intersect present' # {} =>
            "consolidated" \in ledger'
      BY <1>0, <2>1, <2>4, <2>5, WhatIsMade DEF LedgerOK
    <3> QED
      BY <3>1, <3>2, <3>3, <3>4 DEF LedgerOK
  <2>9. Makes(file) \intersect present \subseteq
           (IF history = "before the renaming" THEN {"one", "two"} ELSE {})
    BY <1>0, <2>1, <2>4, <2>7, WhatIsMade DEF LedgerOK
  <2>10. /\ runner' \in [Runner -> Runs] /\ runner'[r] = new
         /\ \A q \in Runner \ {r} : runner'[q] = runner[q]
    BY <1>0, <2>1, <2>3
  <2>11. AppliedExactlyOnce'
    <3>1. redone' \subseteq (IF history' = "before the renaming" THEN {"one", "two"} ELSE {})
      BY <1>0, <2>1, <2>9 DEF AppliedExactlyOnce
    <3>2. ASSUME NEW q \in Runner, runner'[q].pc = "complete"
          PROVE  present' = UNION {Makes(f) : f \in File}
      <4>1. q # r /\ runner[q].pc = "complete"
        BY <2>3, <2>10, <3>2
      <4> QED
        BY <1>0, <2>1, <2>6, <4>1, WhatIsMade DEF AppliedExactlyOnce
    <3> QED
      BY <3>1, <3>2 DEF AppliedExactlyOnce
  <2>12. \A q \in Runner : RunOK(runner'[q], ledger')
    <3>1. RunOK(run, ledger')
      BY <2>2, <2>5, LedgerGrows
    <3>2. file \in ledger' /\ (run.at = 1 => file = "consolidated")
      BY <2>1, Directory
    <3>3. RunOK(new, ledger')
      BY <2>1, <2>2, <2>3, <3>1, <3>2 DEF RunOK
    <3> HIDE DEF new
    <3>4. \A q \in Runner \ {r} : RunOK(runner[q], ledger')
      BY <1>0, <2>5, LedgerGrows
    <3> QED
      BY <2>10, <3>3, <3>4
  <2>13. MigTypeOK'
    BY <1>0, <2>1, <2>4, <2>5, <2>6, <2>10, Directory, WhatIsMade DEF MigTypeOK, Runs
  <2> QED
    BY <2>8, <2>11, <2>12, <2>13 DEF MigInv
<1>6. ASSUME NEW r \in Runner, Refresh(r)
      PROVE  MigInv'
  <2> DEFINE run == runner[r]
             new == [run EXCEPT !.pc = "next", !.at = @ + 1, !.applied = @ \union Effective(ledger)]
  <2>1. run.pc = "refresh" /\ runner' = [runner EXCEPT ![r] = new]
        /\ UNCHANGED <<history, ledger, present, redone>>
    BY <1>6 DEF Refresh
  <2>2. run \in Runs /\ RunOK(run, ledger) /\ run.at \in 1..4
    BY <1>0, <2>1 DEF RunOK
  <2>3. run.applied \union Effective(ledger) = Effective(ledger)
    BY <2>1, <2>2 DEF RunOK
  <2>4. /\ new \in Runs /\ new.pc = "next" /\ new.at = run.at + 1
        /\ new.applied = Effective(ledger) /\ new.consolidated = run.consolidated
    <3>1. Effective(ledger) \in SUBSET (File \union {"one", "two"})
      BY <1>2, EffectiveNames
    <3>2. run.at + 1 \in 1..(Len(InOrder) + 1) /\ run.at + 1 \in Nat
      BY <2>2, Directory
    <3> QED
      BY <2>2, <2>3, <3>1, <3>2 DEF Runs
  <2>5. \A k \in 1..4 : k < new.at => InOrder[k] \in ledger
    BY <2>1, <2>2, <2>4 DEF RunOK
  <2>6. RunOK(new, ledger)
    BY <2>1, <2>2, <2>4, <2>5 DEF RunOK
  <2> HIDE DEF new
  <2> QED
    BY <1>1, <2>1, <2>4, <2>6
<1>7. ASSUME NEW r \in Runner, MigrateFails(r)
      PROVE  MigInv'
  <2>1. NoRun \in Runs /\ RunOK(NoRun, ledger) /\ NoRun.pc = "off"
    BY Directory DEF NoRun, Runs, RunOK
  <2> QED
    BY <1>1, <1>7, <2>1 DEF MigrateFails
<1>8. CASE UNCHANGED migVars
  BY <1>0, <1>8 DEF migVars, MigInv, MigTypeOK, LedgerOK, RunOK, AppliedExactlyOnce
<1> QED
  BY <1>3, <1>4, <1>5, <1>6, <1>7, <1>8 DEF MigNext

(* Nothing that is there is made again, by a run of whatever history,      *)
(* beside other runs and however they die, and a run that says it is       *)
(* complete has made everything (migrate.ts); but for the consolidated     *)
(* schema on a database from before the renaming.                          *)
THEOREM MigrationsCorrect == MigSpec => [](MigTypeOK /\ AppliedExactlyOnce)
<1>1. MigInv => MigTypeOK /\ AppliedExactlyOnce
  BY DEF MigInv
<1> QED
  BY <1>1, MigInitInv, MigStepInv, PTL DEF MigSpec

-----------------------------------------------------------------------------
(* RiskMap.                                                                *)

(* A rebuild that has inserted its rows.                                   *)
Full == {"inserted", "ready"}

(* One rebuild, given the committed rows: it deletes rows of its own       *)
(* organisation only; once it has inserted, it holds a row of its own      *)
(* stamp for every stop of the base, and every committed row of that       *)
(* organisation is one it deletes.                                         *)
RebuildOK(q, committed) ==
    /\ q.at # "asleep" => q.org \in RiskOrg /\ q.stamp \in 1..LastRebuild
    /\ q.at = "asleep" => q.gone = {}
    /\ \A row \in q.gone : row.org = q.org
    /\ q.at \notin Full => q.rows = {}
    /\ q.at \in Full =>
          /\ StopsIn(q.rows) = Base(q.org)
          /\ \A x \in q.rows : x.org = q.org /\ x.stamp = q.stamp
          /\ \A x, y \in q.rows : x.stop = y.stop => x = y
          /\ \A x \in committed \ q.gone : x.org # q.org

(* Two rebuilds that have inserted have no stop in common: what the        *)
(* primary key is there for.                                               *)
Apart(p, q) == p.at \in Full /\ q.at \in Full => Base(p.org) \intersect Base(q.org) = {}

(* What holds of the committed rows, of each rebuild, and of two of them.  *)
RiskInv ==
    /\ RiskTypeOK
    /\ \A row \in snapshot : row.stop \in Base(row.org)
    /\ \A r \in Rebuild : RebuildOK(rebuild[r], snapshot)
    /\ \A r, q \in Rebuild : r # q => Apart(rebuild[r], rebuild[q])
    /\ SnapshotIsWhole

(* A rebuild at rest has deleted and inserted nothing.                     *)
LEMMA AtRestAsleep == Asleep \in Rebuilding /\ Asleep.at = "asleep" /\ RebuildOK(Asleep, snapshot)
<1>1. 0 \in 0..LastRebuild
  BY RiskAssumption
<1>2. Asleep \in Rebuilding /\ Asleep.at = "asleep" /\ Asleep.gone = {} /\ Asleep.rows = {}
  BY <1>1 DEF Asleep, Rebuilding
<1> QED
  BY <1>2 DEF RebuildOK, Full

(* A score is a number, so a scored stop is a row of its organisation.     *)
LEMMA ScoredIsRow ==
    ASSUME NEW s \in RiskStop, NEW n \in 1..LastRebuild, signs \in [RiskStop -> Signs]
    PROVE  /\ Scored(s, n) \in RiskRow
           /\ Scored(s, n).stop = s
           /\ Scored(s, n).org = OrgOfStop[s]
           /\ Scored(s, n).stamp = n
<1> DEFINE e == signs[s]
<1>1. e \in [l3 : Reading, trash : Reading, hazardDays : Reading, severity : Reading, issues : Nat]
  BY RiskAssumption
<1>2. /\ e.l3 \in Int /\ e.trash \in Int /\ e.hazardDays \in Int /\ e.severity \in Int
      /\ e.issues \in Int
  BY <1>1 DEF Reading, Missing
<1> HIDE DEF e
<1>3. Coalesce(e.l3, 365) \in Int /\ Coalesce(e.trash, 0) \in Int /\ Coalesce(e.severity, 1) \in Int
  BY <1>2 DEF Coalesce
<1>4. AtMost(Coalesce(e.l3, 365), 365) \in Int
  BY <1>3 DEF AtMost
<1> DEFINE days == AtMost(Coalesce(e.l3, 365), 365)
           target == IF s \in Hotspot THEN 21 ELSE 30
<1>5. AtLeast(days - target, 0) \in Int
  <2>1. target \in Int
    OBVIOUS
  <2> HIDE DEF days, target
  <2>2. days \in Int => days - target \in Int
    BY <2>1
  <2> QED
    BY <1>4, <2>2 DEF AtLeast, days
<1>6. Urgency(s, e) \in Int
  <2>1. Urgency(s, e) = 20 * AtLeast(days - target, 0)
    BY DEF Urgency, L3_DAYS_CAP
  <2> HIDE DEF days, target
  <2> QED
    BY <1>5, <2>1
<1>7. Cleanliness(s, e) \in Int
  <2>1. HotspotWeight(s) \in Int
    BY DEF HotspotWeight, HOTSPOT_BASE_WEIGHT
  <2> QED
    BY <1>3, <1>6, <2>1 DEF Cleanliness
<1>8. Safety(e) \in Int
  <2>1. AtLeast(0, 7 - e.hazardDays) \in Int
    BY <1>2 DEF AtLeast
  <2> DEFINE effect == 300 * Coalesce(e.severity, 1) * AtLeast(0, 7 - e.hazardDays)
  <2>2. effect \in Int
    BY <1>3, <2>1
  <2> HIDE DEF effect
  <2>3. effect \div 7 \in Int
    BY <2>2
  <2> QED
    BY <2>3 DEF Safety, HAZARD_MAX_DAYS_FOR_EFFECT, effect
<1>9. Infrastructure(e) \in Int
  BY <1>2 DEF Infrastructure, AtMost
<1>10. Cleanliness(s, e) + Safety(e) + Infrastructure(e) \in Int
  BY <1>7, <1>8, <1>9
<1>11. OrgOfStop[s] \in RiskOrg
  BY RiskAssumption
<1> QED
  BY <1>10, <1>11 DEF Scored, RiskRow, e

(* There is no map, and every rebuild is at rest.                          *)
LEMMA RiskInitInv == RiskInit => RiskInv
<1> SUFFICES ASSUME RiskInit
             PROVE  RiskInv
  OBVIOUS
<1>1. \A r \in Rebuild : rebuild[r] = Asleep
  BY DEF RiskInit
<1>2. rebuild \in [Rebuild -> Rebuilding]
  BY AtRestAsleep DEF RiskInit
<1>3. RiskTypeOK
  BY <1>2, RiskAssumption DEF RiskInit, RiskTypeOK
<1>4. \A r \in Rebuild : RebuildOK(rebuild[r], snapshot)
  BY <1>1, AtRestAsleep
<1>5. \A r, q \in Rebuild : Apart(rebuild[r], rebuild[q])
  BY <1>1, AtRestAsleep DEF Apart, Full
<1> QED
  BY <1>3, <1>4, <1>5 DEF RiskInv, RiskInit, SnapshotIsWhole

(* One rebuild goes on, and the committed rows stay.                       *)
LEMMA RebuildMoves ==
    ASSUME RiskInv, NEW r \in Rebuild, NEW q \in Rebuilding,
           RebuildOK(q, snapshot),
           \A p \in Rebuild \ {r} : Apart(rebuild[p], q),
           rebuild' = [rebuild EXCEPT ![r] = q],
           count' \in 0..LastRebuild,
           UNCHANGED <<signs, snapshot, scored, built>>
    PROVE  RiskInv'
<1>0. RiskTypeOK /\ rebuild \in [Rebuild -> Rebuilding]
  BY DEF RiskInv, RiskTypeOK
<1>1. /\ rebuild' \in [Rebuild -> Rebuilding] /\ rebuild'[r] = q
      /\ \A p \in Rebuild \ {r} : rebuild'[p] = rebuild[p]
  BY <1>0
<1>2. RiskTypeOK'
  BY <1>0, <1>1 DEF RiskTypeOK
<1>3. \A p \in Rebuild : RebuildOK(rebuild'[p], snapshot')
  BY <1>1 DEF RiskInv
<1>4. ASSUME NEW p1 \in Rebuild, NEW p2 \in Rebuild, p1 # p2
      PROVE  Apart(rebuild'[p1], rebuild'[p2])
  <2>1. CASE p1 = r
    <3>1. Apart(rebuild[p2], q) /\ rebuild'[p2] = rebuild[p2] /\ rebuild'[p1] = q
      BY <1>1, <1>4, <2>1
    <3> QED
      BY <3>1 DEF Apart
  <2>2. CASE p2 = r
    BY <1>1, <1>4, <2>2
  <2>3. CASE p1 # r /\ p2 # r
    BY <1>1, <1>4, <2>3 DEF RiskInv
  <2> QED
    BY <2>1, <2>2, <2>3
<1>5. SnapshotIsWhole'
  BY DEF RiskInv, SnapshotIsWhole
<1> QED
  BY <1>2, <1>3, <1>4, <1>5 DEF RiskInv

(* A rebuild deletes and inserts rows of its own organisation only, waits  *)
(* where another has inserted the same stops, and commits both at once.    *)
LEMMA RiskStepInv == RiskInv /\ [RiskNext]_riskVars => RiskInv'
<1> SUFFICES ASSUME RiskInv, [RiskNext]_riskVars
             PROVE  RiskInv'
  OBVIOUS
<1>0. /\ RiskTypeOK /\ rebuild \in [Rebuild -> Rebuilding] /\ count \in 0..LastRebuild
      /\ \A r \in Rebuild : RebuildOK(rebuild[r], snapshot)
  BY DEF RiskInv, RiskTypeOK
<1>1. ASSUME NEW s \in RiskStop, SignsChange(s)
      PROVE  RiskInv'
  <2>0. PICK e \in Signs :
          LET seen == IF e.l3 = 0 THEN {s} ELSE {}
          IN  /\ signs' = [signs EXCEPT ![s] = e]
              /\ scored' = scored \ seen
              /\ rebuild' = [r \in Rebuild |-> [rebuild[r] EXCEPT !.marks = @ \ seen]]
              /\ UNCHANGED <<snapshot, built, count>>
    BY <1>1 DEF SignsChange
  <2> DEFINE seen == IF e.l3 = 0 THEN {s} ELSE {}
  <2>1. /\ signs' = [signs EXCEPT ![s] = e]
        /\ scored' = scored \ seen
        /\ rebuild' = [r \in Rebuild |-> [rebuild[r] EXCEPT !.marks = @ \ seen]]
        /\ UNCHANGED <<snapshot, built, count>>
    BY <2>0
  <2> HIDE DEF seen
  <2>2. ASSUME NEW r \in Rebuild
        PROVE  /\ rebuild'[r] \in Rebuilding
               /\ rebuild'[r].at = rebuild[r].at /\ rebuild'[r].org = rebuild[r].org
               /\ rebuild'[r].stamp = rebuild[r].stamp /\ rebuild'[r].gone = rebuild[r].gone
               /\ rebuild'[r].rows = rebuild[r].rows
    <3>1. rebuild[r] \in Rebuilding /\ rebuild'[r] = [rebuild[r] EXCEPT !.marks = @ \ seen]
      BY <1>0, <2>1
    <3> QED
      BY <3>1 DEF Rebuilding
  <2>3. RiskTypeOK'
    <3>1. rebuild' \in [Rebuild -> Rebuilding]
      BY <2>1, <2>2
    <3>2. signs' \in [RiskStop -> Signs]
      BY <1>0, <2>1 DEF RiskTypeOK
    <3> QED
      BY <1>0, <2>1, <3>1, <3>2 DEF RiskTypeOK
  <2>4. \A r \in Rebuild : RebuildOK(rebuild'[r], snapshot')
    BY <1>0, <2>1, <2>2 DEF RebuildOK
  <2>5. \A r, q \in Rebuild : r # q => Apart(rebuild'[r], rebuild'[q])
    BY <2>2 DEF RiskInv, Apart
  <2>6. SnapshotIsWhole' /\ \A row \in snapshot' : row.stop \in Base(row.org)
    BY <2>1 DEF RiskInv, SnapshotIsWhole
  <2> QED
    BY <2>3, <2>4, <2>5, <2>6 DEF RiskInv
<1>2. ASSUME NEW r \in Rebuild, NEW o \in RiskOrg, Begin(r, o)
      PROVE  RiskInv'
  <2> DEFINE q == [rebuild[r] EXCEPT !.at = "begun", !.org = o, !.stamp = count + 1]
  <2>1. /\ rebuild' = [rebuild EXCEPT ![r] = q] /\ rebuild[r].at = "asleep"
        /\ count' = count + 1 /\ UNCHANGED <<signs, snapshot, scored, built>>
        /\ count + 1 \in 1..LastRebuild
    <3>1. count + 1 \in 1..LastRebuild
      BY <1>0, <1>2, RiskAssumption DEF Begin
    <3> QED
      BY <1>2, <3>1 DEF Begin, AtStep
  <2>2. rebuild[r] \in Rebuilding /\ count + 1 \in 0..LastRebuild
    BY <1>0, <2>1, RiskAssumption
  <2>3. /\ q \in Rebuilding /\ q.at = "begun" /\ q.org = o /\ q.stamp = count + 1
        /\ q.gone = rebuild[r].gone /\ q.rows = rebuild[r].rows
    BY <2>2 DEF Rebuilding
  <2> HIDE DEF q
  <2>4. RebuildOK(q, snapshot)
    <3>1. RebuildOK(rebuild[r], snapshot)
      BY <1>0
    <3>2. q.rows = {} /\ \A row \in q.gone : row.org = q.org
      BY <2>1, <2>3, <3>1 DEF RebuildOK, Full
    <3> QED
      BY <2>1, <2>3, <3>2 DEF RebuildOK, Full
  <2>5. \A p \in Rebuild \ {r} : Apart(rebuild[p], q)
    BY <2>3 DEF Apart, Full
  <2> QED
    BY <2>1, <2>2, <2>3, <2>4, <2>5, RebuildMoves
<1>3. ASSUME NEW r \in Rebuild, StartDelete(r)
      PROVE  RiskInv'
  <2> DEFINE q == [rebuild[r] EXCEPT !.at = "deleting", !.gone = Visible(r)]
  <2>1. rebuild' = [rebuild EXCEPT ![r] = q] /\ rebuild[r].at = "begun"
        /\ UNCHANGED <<signs, snapshot, scored, built, count>>
    BY <1>3 DEF StartDelete, AtStep
  <2>2. rebuild[r] \in Rebuilding /\ Visible(r) \subseteq RiskRow
    BY <1>0 DEF Visible, RiskTypeOK
  <2>3. /\ q \in Rebuilding /\ q.at = "deleting" /\ q.org = rebuild[r].org /\ q.stamp = rebuild[r].stamp
        /\ q.gone = Visible(r) /\ q.rows = rebuild[r].rows
    BY <2>2 DEF Rebuilding
  <2>4. RebuildOK(q, snapshot)
    BY <1>0, <2>1, <2>3 DEF RebuildOK, Full, Visible
  <2>5. \A p \in Rebuild \ {r} : Apart(rebuild[p], q)
    BY <2>3 DEF Apart, Full
  <2> HIDE DEF q
  <2> QED
    BY <1>0, <2>1, <2>3, <2>4, <2>5, RebuildMoves
<1>4. ASSUME NEW r \in Rebuild, Delete(r)
      PROVE  RiskInv'
  <2> DEFINE q == [rebuild[r] EXCEPT !.at = "deleted", !.gone = rebuild[r].gone \intersect snapshot]
  <2>1. rebuild' = [rebuild EXCEPT ![r] = q] /\ rebuild[r].at = "deleting"
        /\ UNCHANGED <<signs, snapshot, scored, built, count>>
    BY <1>4 DEF Delete, AtStep
  <2>2. rebuild[r] \in Rebuilding
    BY <1>0
  <2>3. /\ q \in Rebuilding /\ q.at = "deleted" /\ q.org = rebuild[r].org /\ q.stamp = rebuild[r].stamp
        /\ q.gone = rebuild[r].gone \intersect snapshot /\ q.rows = rebuild[r].rows
    BY <2>2 DEF Rebuilding
  <2>4. RebuildOK(q, snapshot)
    BY <1>0, <2>1, <2>3 DEF RebuildOK, Full
  <2>5. \A p \in Rebuild \ {r} : Apart(rebuild[p], q)
    BY <2>3 DEF Apart, Full
  <2> HIDE DEF q
  <2> QED
    BY <1>0, <2>1, <2>3, <2>4, <2>5, RebuildMoves
<1>5. ASSUME NEW r \in Rebuild, Insert(r)
      PROVE  RiskInv'
  <2> DEFINE o == rebuild[r].org
             rows == {Scored(s, rebuild[r].stamp) : s \in Base(o)}
             q == [rebuild[r] EXCEPT !.at = "inserted", !.rows = rows]
  <2>1. rebuild' = [rebuild EXCEPT ![r] = q] /\ rebuild[r].at = "deleted"
        /\ UNCHANGED <<signs, snapshot, scored, built, count>>
    BY <1>5 DEF Insert, AtStep
  <2>2. rebuild[r] \in Rebuilding /\ o \in RiskOrg /\ rebuild[r].stamp \in 1..LastRebuild
        /\ \A row \in rebuild[r].gone : row.org = o
    BY <1>0, <2>1 DEF RebuildOK
  <2>3. ASSUME NEW s \in Base(o)
        PROVE  /\ Scored(s, rebuild[r].stamp) \in RiskRow
               /\ Scored(s, rebuild[r].stamp).stop = s
               /\ Scored(s, rebuild[r].stamp).org = o
               /\ Scored(s, rebuild[r].stamp).stamp = rebuild[r].stamp
    <3>1. s \in RiskStop /\ OrgOfStop[s] = o
      BY RiskAssumption DEF Base
    <3>2. signs \in [RiskStop -> Signs]
      BY <1>0 DEF RiskTypeOK
    <3> QED
      BY <2>2, <3>1, <3>2, ScoredIsRow
  <2>4. /\ rows \subseteq RiskRow
        /\ StopsIn(rows) = Base(o)
        /\ \A x \in rows : x.org = o /\ x.stamp = rebuild[r].stamp
        /\ \A x, y \in rows : x.stop = y.stop => x = y
    <3>1. rows \subseteq RiskRow /\ \A x \in rows : x.org = o /\ x.stamp = rebuild[r].stamp
      BY <2>3
    <3>2. StopsIn(rows) = Base(o)
      BY <2>3 DEF StopsIn
    <3>3. \A x, y \in rows : x.stop = y.stop => x = y
      BY <2>3
    <3> QED
      BY <3>1, <3>2, <3>3
  <2> HIDE DEF rows
  <2>5. /\ q \in Rebuilding /\ q.at = "inserted" /\ q.org = o /\ q.stamp = rebuild[r].stamp
        /\ q.gone = rebuild[r].gone /\ q.rows = rows
    BY <2>2, <2>4 DEF Rebuilding
  <2>6. \A x \in snapshot \ rebuild[r].gone : x.org # o
    <3>1. StopsIn(snapshot \ rebuild[r].gone) \intersect Base(o) = {}
      BY <1>5 DEF Insert, Clashes, Taken
    <3> QED
      BY <3>1 DEF StopsIn, RiskInv
  <2>7. RebuildOK(q, snapshot)
    BY <2>2, <2>4, <2>5, <2>6 DEF RebuildOK, Full
  <2>8. ASSUME NEW p \in Rebuild \ {r}
        PROVE  Apart(rebuild[p], q)
    <3>1. StopsIn(rebuild[p].rows) \intersect Base(o) = {}
      BY <1>5 DEF Insert, Clashes, Rest
    <3>2. rebuild[p].at \in Full => StopsIn(rebuild[p].rows) = Base(rebuild[p].org)
      BY <1>0 DEF RebuildOK
    <3> QED
      BY <2>5, <3>1, <3>2 DEF Apart
  <2> HIDE DEF q
  <2> QED
    BY <1>0, <2>1, <2>5, <2>7, <2>8, RebuildMoves
<1>6. ASSUME NEW r \in Rebuild, WriteHistory(r)
      PROVE  RiskInv'
  <2> DEFINE marks == {s \in StopsIn(rebuild[r].rows) : signs[s].l3 = 0}
             q == [rebuild[r] EXCEPT !.at = "ready", !.marks = marks]
  <2>1. rebuild' = [rebuild EXCEPT ![r] = q] /\ rebuild[r].at = "inserted"
        /\ UNCHANGED <<signs, snapshot, scored, built, count>>
    BY <1>6 DEF WriteHistory, AtStep
  <2>2. rebuild[r] \in Rebuilding
    BY <1>0
  <2>3. marks \subseteq RiskStop
    BY <2>2 DEF StopsIn, Rebuilding, RiskRow
  <2> HIDE DEF marks
  <2>4. /\ q \in Rebuilding /\ q.at = "ready" /\ q.org = rebuild[r].org /\ q.stamp = rebuild[r].stamp
        /\ q.gone = rebuild[r].gone /\ q.rows = rebuild[r].rows
    BY <2>2, <2>3 DEF Rebuilding
  <2>5. RebuildOK(q, snapshot)
    BY <1>0, <2>1, <2>4 DEF RebuildOK, Full
  <2>6. \A p \in Rebuild \ {r} : Apart(rebuild[p], q)
    BY <2>1, <2>4 DEF Apart, Full, RiskInv
  <2> HIDE DEF q
  <2> QED
    BY <1>0, <2>1, <2>4, <2>5, <2>6, RebuildMoves
<1>7. ASSUME NEW r \in Rebuild, Commit(r)
      PROVE  RiskInv'
  <2> DEFINE q == rebuild[r]
  <2>1. /\ q.at = "ready" /\ q \in Rebuilding /\ q.org \in RiskOrg
        /\ snapshot' = (snapshot \ q.gone) \union q.rows
        /\ scored' = scored \union q.marks
        /\ built' = built \union {q.org}
        /\ rebuild' = [rebuild EXCEPT ![r] = Asleep]
        /\ UNCHANGED <<signs, count>>
    BY <1>0, <1>7 DEF Commit, AtStep, RebuildOK
  <2>2. /\ StopsIn(q.rows) = Base(q.org)
        /\ \A x \in q.rows : x.org = q.org /\ x.stamp = q.stamp
        /\ \A x, y \in q.rows : x.stop = y.stop => x = y
        /\ \A x \in snapshot \ q.gone : x.org # q.org
        /\ \A x \in q.gone : x.org = q.org
    BY <1>0, <2>1 DEF RebuildOK, Full
  <2>3. /\ rebuild' \in [Rebuild -> Rebuilding] /\ rebuild'[r] = Asleep
        /\ \A p \in Rebuild \ {r} : rebuild'[p] = rebuild[p]
    BY <1>0, <2>1, AtRestAsleep
  <2>4. RiskTypeOK'
    BY <1>0, <2>1, <2>3 DEF RiskTypeOK, Rebuilding
  <2>5. \A row \in snapshot' : row.stop \in Base(row.org)
    BY <2>1, <2>2 DEF RiskInv, StopsIn
  <2>6. ASSUME NEW p \in Rebuild
        PROVE  RebuildOK(rebuild'[p], snapshot')
    <3>1. CASE p = r
      BY <2>3, <3>1, AtRestAsleep DEF RebuildOK, Full
    <3>2. CASE p # r
      <4>1. rebuild'[p] = rebuild[p] /\ RebuildOK(rebuild[p], snapshot) /\ Apart(q, rebuild[p])
        BY <1>0, <2>3, <3>2 DEF RiskInv
      <4>2. ASSUME rebuild[p].at \in Full, NEW x \in snapshot' \ rebuild[p].gone
            PROVE  x.org # rebuild[p].org
        <5>1. CASE x \in snapshot
          BY <4>1, <4>2, <5>1 DEF RebuildOK
        <5>2. CASE x \in q.rows
          BY <2>1, <2>2, <4>1, <4>2, <5>2 DEF Apart, Full, StopsIn
        <5> QED
          BY <2>1, <4>2, <5>1, <5>2
      <4> QED
        BY <4>1, <4>2 DEF RebuildOK
    <3> QED
      BY <3>1, <3>2
  <2>7. ASSUME NEW p1 \in Rebuild, NEW p2 \in Rebuild, p1 # p2
        PROVE  Apart(rebuild'[p1], rebuild'[p2])
    BY <2>3, <2>7, AtRestAsleep DEF RiskInv, Apart, Full
  <2>8. SnapshotIsWhole'
    <3> SUFFICES ASSUME NEW o \in built'
                 PROVE  LET rows == {row \in snapshot' : row.org = o}
                        IN  /\ StopsIn(rows) = Base(o)
                            /\ \A x, y \in rows : /\ x.stop = y.stop => x = y
                                                  /\ x.stamp = y.stamp
      BY DEF SnapshotIsWhole
    <3>1. CASE o = q.org
      <4>1. {row \in snapshot' : row.org = o} = q.rows
        BY <2>1, <2>2, <3>1
      <4> QED
        BY <2>2, <3>1, <4>1
    <3>2. CASE o # q.org
      <4>1. o \in built
        BY <2>1, <3>2
      <4>2. {row \in snapshot' : row.org = o} = {row \in snapshot : row.org = o}
        BY <2>1, <2>2, <3>2
      <4> QED
        BY <4>1, <4>2 DEF RiskInv, SnapshotIsWhole
    <3> QED
      BY <3>1, <3>2
  <2> QED
    BY <2>4, <2>5, <2>6, <2>7, <2>8 DEF RiskInv
<1>8. ASSUME NEW r \in Rebuild, RebuildFails(r)
      PROVE  RiskInv'
  <2>1. \A p \in Rebuild \ {r} : Apart(rebuild[p], Asleep)
    BY AtRestAsleep DEF Apart, Full
  <2> QED
    BY <1>0, <1>8, <2>1, AtRestAsleep, RebuildMoves DEF RebuildFails
<1>9. CASE UNCHANGED riskVars
  BY <1>0, <1>9 DEF riskVars, RiskInv, RiskTypeOK, RebuildOK, SnapshotIsWhole
<1> QED
  BY <1>1, <1>2, <1>3, <1>4, <1>5, <1>6, <1>7, <1>8, <1>9 DEF RiskNext

(* Rebuilds of any organisations, at the same time and failing anywhere,   *)
(* leave of each organisation that has a map a whole one, all of one       *)
(* rebuild (riskMapService.ts:59-68): the delete and the insert are one    *)
(* transaction, and the primary key makes a second rebuild of the same     *)
(* stops wait or fail.                                                     *)
THEOREM RiskMapCorrect == RiskSpec => [](RiskTypeOK /\ SnapshotIsWhole)
<1>1. RiskInv => RiskTypeOK /\ SnapshotIsWhole
  BY DEF RiskInv
<1> QED
  BY <1>1, RiskInitInv, RiskStepInv, PTL DEF RiskSpec
=============================================================================
