----------------------------- MODULE SftpExport -----------------------------
(***************************************************************************)
(* One run of sftpExport.ts: for every organisation in turn it reads the   *)
(* tables, writes a JSON bundle and a tarball with a checksum file each,   *)
(* uploads the four, removes the local copies and writes an audit row.     *)
(* The remote names carry the run's time stamp, so runs do not overwrite   *)
(* each other's files.  Any step may fail; the process may die.            *)
(***************************************************************************)
EXTENDS Naturals, Sequences

CONSTANT ExportOrgs    \* number of organisations; they are taken ORDER BY id

ASSUME ExportOrgsAssumption == ExportOrgs \in Nat \ {0}

VARIABLES uploads,     \* SFTP_ENABLED
          turn,        \* the organisation being exported
          stage,       \* what is done next for it
          bundle,      \* per organisation, the tables whose rows were read
          local,       \* organisations whose staging directory exists
          remote,      \* what the server holds of each organisation's files
          exported,    \* organisations with an export.data_export audit row
          failed,      \* organisations counted in orgFailed
          exitCode     \* of the process, "running" until it ends

sftpVars == <<uploads, turn, stage, bundle, local, remote, exported, failed,
              exitCode>>

ExportOrg == 1..ExportOrgs

(* Read on the audit channel, under the organisation's row-level security; *)
(* the table of organisations has none.                                    *)
AuditTables == {"assignments", "visits", "observations", "evidence"}

(* Read on a plain connection of the application's role, for which the     *)
(* policies show no row unless the session names an organisation.          *)
HiddenTables == {"locations", "stop_effort_history", "stop_condition_history",
                 "eam_bridge_route_log"}

(* In the order writeOrgExportFiles lists them.                            *)
Files == <<"json", "json.sha256", "tar", "tar.sha256">>
FileName == {"json", "json.sha256", "tar", "tar.sha256"}

SftpTypeOK == /\ uploads \in BOOLEAN
              /\ turn \in 1..(ExportOrgs + 1)
              /\ stage \in {"config", "read", "write", "upload", "audit", "over"}
              /\ bundle \in [ExportOrg -> SUBSET (AuditTables \union HiddenTables)]
              /\ local \subseteq ExportOrg
              /\ remote \in [ExportOrg -> [FileName -> {"none", "part", "whole"}]]
              /\ exported \subseteq ExportOrg
              /\ failed \subseteq ExportOrg
              /\ exitCode \in {"running", "0", "1"}

SftpInit == /\ uploads \in BOOLEAN
            /\ turn = 1
            /\ stage = "config"
            /\ bundle = [o \in ExportOrg |-> {}]
            /\ local = {}
            /\ remote = [o \in ExportOrg |-> [f \in FileName |-> "none"]]
            /\ exported = {}
            /\ failed = {}
            /\ exitCode = "running"

(* run: the configuration is only needed, and only checked, for an upload. *)
LoadConfig ==
    /\ stage = "config"
    /\ \/ stage' = "read" /\ UNCHANGED exitCode
       \/ uploads /\ stage' = "over" /\ exitCode' = "1"
    /\ UNCHANGED <<uploads, bundle, turn, local, remote, exported, failed>>

(* The loop goes on with the next organisation, whatever became of this.   *)
NextOrg(lost) ==
    /\ failed' = lost
    /\ turn' = turn + 1
    /\ IF turn < ExportOrgs
       THEN stage' = "read" /\ UNCHANGED exitCode
       ELSE /\ stage' = "over"
            /\ exitCode' = IF lost = {} THEN "0" ELSE "1"

(* A statement, a write, the connection, the host key or the audit insert  *)
(* fails; what is in the staging directory stays.                          *)
OrgFails ==
    /\ stage \in {"read", "write", "upload", "audit"}
    /\ NextOrg(failed \union {turn})
    /\ UNCHANGED <<uploads, bundle, local, remote, exported>>

(* fetchOrgData: the organisation, four tables on the audit channel, the   *)
(* others on a connection that is in no organisation's context.            *)
FetchOrgData ==
    /\ stage = "read"
    /\ stage' = "write"
    /\ bundle' = [bundle EXCEPT ![turn] = AuditTables]
    /\ UNCHANGED <<uploads, turn, local, remote, exported, failed, exitCode>>

(* The directory exists from the first file on.                            *)
StartWriting ==
    /\ stage = "write"
    /\ turn \notin local
    /\ local' = local \union {turn}
    /\ UNCHANGED <<uploads, bundle, turn, stage, remote, exported, failed, exitCode>>

WriteOrgExportFiles ==
    /\ stage = "write"
    /\ turn \in local
    /\ stage' = IF uploads THEN "upload" ELSE "audit"
    /\ UNCHANGED <<uploads, bundle, turn, local, remote, exported, failed, exitCode>>

(* The first file of the list that the server does not hold.               *)
NextFile == Files[CHOOSE i \in DOMAIN Files :
                    /\ remote[turn][Files[i]] # "whole"
                    /\ \A j \in 1..(i - 1) : remote[turn][Files[j]] = "whole"]

(* uploadViasSftp: one put after the other; a put is visible while it      *)
(* writes.                                                                 *)
Put == /\ stage = "upload"
       /\ \E f \in FileName : remote[turn][f] # "whole"
       /\ remote' = [remote EXCEPT ![turn][NextFile] =
                        IF @ = "none" THEN "part" ELSE "whole"]
       /\ UNCHANGED <<uploads, bundle, turn, stage, local, exported, failed, exitCode>>

UploadedFirst ==
    /\ stage = "upload"
    /\ remote[turn]["json"] = "whole"
    /\ stage' = "audit"
    /\ local' = local \ {turn}
    /\ UNCHANGED <<uploads, bundle, turn, remote, exported, failed, exitCode>>

(* After the last put the local copies go; if that fails, nobody minds.    *)
Uploaded ==
    /\ stage = "upload"
    /\ \A f \in FileName : remote[turn][f] = "whole"
    /\ stage' = "audit"
    /\ \/ local' = local \ {turn}
       \/ UNCHANGED local
    /\ UNCHANGED <<uploads, bundle, turn, remote, exported, failed, exitCode>>

Audit == /\ stage = "audit"
         /\ exported' = exported \union {turn}
         /\ NextOrg(failed)
         /\ UNCHANGED <<uploads, bundle, local, remote>>

SftpDies == /\ stage # "over"
            /\ stage' = "over"
            /\ exitCode' = "1"
            /\ UNCHANGED <<uploads, bundle, turn, local, remote, exported, failed>>

SftpNext == \/ LoadConfig \/ OrgFails \/ FetchOrgData \/ StartWriting
            \/ WriteOrgExportFiles \/ Put \/ Uploaded \/ Audit \/ SftpDies

SftpSpec == SftpInit /\ [][SftpNext]_sftpVars

-----------------------------------------------------------------------------
Delivered(o) == \A f \in FileName : remote[o][f] = "whole"

(* Whoever polls the server may take a checksum file as the sign that the  *)
(* file it belongs to is complete, also after a run that was cut off.      *)
ChecksumFollowsFile ==
    \A o \in ExportOrg :
        /\ remote[o]["json.sha256"] # "none" => remote[o]["json"] = "whole"
        /\ remote[o]["tar.sha256"] # "none" => remote[o]["tar"] = "whole"

(* "Leave them on failure for operator inspection": an export is, at every *)
(* moment after it was written, complete on one side; and the audit row,   *)
(* and with it an exit code of 0, is never there for one that is nowhere.  *)
ExportIsSomewhere ==
    /\ \A o \in exported : Delivered(o) \/ (~uploads /\ o \in local)
    /\ \A o \in ExportOrg :
          (\E f \in FileName : remote[o][f] # "none") => o \in local \/ Delivered(o)
    /\ exitCode = "0" => exported = ExportOrg

(* Nobody is told of an export, by a checksum on the server, an audit row, *)
(* or the exit code of the job, that cannot be had.                        *)
ExportIsUsable == ChecksumFollowsFile /\ ExportIsSomewhere
=============================================================================
