----------------------------- MODULE Migrations -----------------------------
(***************************************************************************)
(* migrate.ts: the files of the migrations directory, in the order of      *)
(* their names, each in a transaction of its own with its row in           *)
(* schema_migrations.  Two deployments may run it at once; a run may fail  *)
(* or die anywhere and is started again.                                   *)
(*                                                                         *)
(* Six files stand for the directory: the consolidated schema, the file    *)
(* that records migrations applied by hand, one of those, a later one, and *)
(* two legacy files that the consolidated schema took the place of.        *)
(***************************************************************************)
EXTENDS Naturals, Sequences

CONSTANTS Runner,      \* processes that may run migrations at one time
          History      \* what databases the runner can meet

Known == {"empty", "by hand", "before the renaming"}
ASSUME HistoryAssumption == History \subseteq Known

VARIABLES history,     \* the one it meets
          ledger,      \* file names in schema_migrations
          present,     \* what the database has
          redone,      \* what was made again although it was there
          runner       \* the runs under way

migVars == <<history, ledger, present, redone, runner>>

InOrder == <<"consolidated", "reconcile", "canon", "next", "legacy_one", "legacy_two">>
File == {InOrder[i] : i \in DOMAIN InOrder}
Legacy == {"legacy_one", "legacy_two"}

(* Files used to be recorded without the prefix.                           *)
WithPrefix(name) == CASE name = "one" -> "legacy_one"
                      [] name = "two" -> "legacy_two"
                      [] OTHER -> name

Makes(file) == CASE file = "consolidated" -> {"one", "two"}
                 [] file = "legacy_one" -> {"one"}
                 [] file = "legacy_two" -> {"two"}
                 [] file = "reconcile" -> {}
                 [] OTHER -> {file}

(* 00000001_reconcile_issue038: a migration whose effect is in the catalog *)
(* is recorded as applied.                                                 *)
Records(file) == IF file = "reconcile" /\ "canon" \in present THEN {"canon"} ELSE {}

NoRun == [pc |-> "off", at |-> 1, applied |-> {}, consolidated |-> FALSE]

MigTypeOK ==
    /\ history \in History
    /\ ledger \subseteq File \union {"one", "two"}
    /\ present \subseteq UNION {Makes(f) : f \in File}
    /\ redone \subseteq present
    /\ runner \in [Runner -> [pc : {"off", "next", "apply", "refresh", "complete"},
                              at : 1..(Len(InOrder) + 1),
                              applied : SUBSET (File \union {"one", "two"}),
                              consolidated : BOOLEAN]]

MigInit ==
    /\ history \in History
    /\ ledger = CASE history = "by hand" -> {"consolidated"}
                  [] history = "before the renaming" -> {"one", "two"}
                  [] OTHER -> {}
    /\ present = CASE history = "by hand" -> {"one", "two", "canon"}
                   [] history = "before the renaming" -> {"one", "two"}
                   [] OTHER -> {}
    /\ redone = {}
    /\ runner = [r \in Runner |-> NoRun]

-----------------------------------------------------------------------------
Effective(names) == names \union {WithPrefix(n) : n \in names}

(* The ledger is read once, before the loop.                               *)
StartMigrate(r) ==
    /\ runner[r].pc \in {"off", "complete"}
    /\ runner' = [runner EXCEPT ![r] =
                    [pc |-> "next", at |-> 1, applied |-> Effective(ledger),
                     consolidated |-> ledger \intersect {"consolidated", "one", "two"} # {}]]
    /\ UNCHANGED <<history, ledger, present, redone>>

SkipsRecorded(run, file) == file \in run.applied

Skips(run, file) == \/ file \in run.applied
                    \/ run.consolidated /\ file \in Legacy

TakeFile(r) ==
    LET run == runner[r]
        over == run.at > Len(InOrder)
    IN  /\ run.pc = "next"
        /\ \/ over /\ runner' = [runner EXCEPT ![r].pc = "complete"]
           \/ /\ ~over /\ Skips(run, InOrder[run.at])
              /\ runner' = [runner EXCEPT ![r].at = @ + 1]
           \/ /\ ~over /\ ~Skips(run, InOrder[run.at])
              /\ runner' = [runner EXCEPT ![r].pc = "apply"]
        /\ UNCHANGED <<history, ledger, present, redone>>

(* BEGIN, the file, its ledger row, COMMIT.  The row's primary key makes a *)
(* second run of the same file wait, and then fail.                        *)
ApplyFile(r) ==
    LET file == InOrder[runner[r].at]
    IN  /\ runner[r].pc = "apply"
        /\ file \notin ledger
        /\ ledger' = ledger \union {file} \union Records(file)
        /\ redone' = redone \union (Makes(file) \intersect present)
        /\ present' = present \union Makes(file)
        /\ runner' = [runner EXCEPT ![r].pc = "refresh",
                        ![r].consolidated = @ \/ file = "consolidated"]
        /\ UNCHANGED history

(* "a migration can record OTHER migrations as applied"                    *)
Refresh(r) ==
    /\ runner[r].pc = "refresh"
    /\ runner' = [runner EXCEPT ![r].pc = "next", ![r].at = @ + 1,
                                ![r].applied = @ \union Effective(ledger)]
    /\ UNCHANGED <<history, ledger, present, redone>>

(* ROLLBACK and exit(1), or the process dies.                              *)
MigrateFails(r) ==
    /\ runner[r].pc \in {"next", "apply", "refresh"}
    /\ runner' = [runner EXCEPT ![r] = NoRun]
    /\ UNCHANGED <<history, ledger, present, redone>>

MigNext == \E r \in Runner : \/ StartMigrate(r) \/ TakeFile(r) \/ ApplyFile(r)
                             \/ Refresh(r) \/ MigrateFails(r)

MigSpec == MigInit /\ [][MigNext]_migVars

-----------------------------------------------------------------------------
(* "so we never try to re-run migration content that the DB already has":  *)
(* neither what the consolidated schema contains, nor what was applied by  *)
(* hand and recorded by a file of the same run, nor what another run is    *)
(* just applying, is made again; and a run that says it is complete has    *)
(* made everything.  On a database from before the renaming the            *)
(* consolidated schema itself is run again, which the README describes.    *)
AppliedExactlyOnce ==
    /\ redone \subseteq (IF history = "before the renaming" THEN {"one", "two"} ELSE {})
    /\ \A r \in Runner : runner[r].pc = "complete" =>
          present = UNION {Makes(f) : f \in File}
=============================================================================
