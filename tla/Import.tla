------------------------------ MODULE Import ------------------------------
(***************************************************************************)
(* Import jobs (app/importer.py and the /import routes of app/webapp.py).  *)
(*                                                                         *)
(* A job carries items for three kinds of destination, told apart by how   *)
(* their import is undone: "rule" rows carry the job's id, "record" rows   *)
(* (local records, resolvers, access rules, clients) are remembered by row *)
(* id, "source" rows (blocklists, aliases) by name with the value an       *)
(* update replaced.  "access" items are records that also make the job     *)
(* deploy the access layer.  A migration may set the default access policy.*)
(*                                                                         *)
(* The apply route is a coroutine that blocks the event loop: one apply at *)
(* a time, and no other request starts meanwhile.  Cancel and rollback run *)
(* in a thread and may have read the job before an apply begins.           *)
(***************************************************************************)
EXTENDS Naturals, FiniteSets

CONSTANTS MaxCommits,   \* times the job writes to the tables
          MaxEdits,     \* changes the operator makes by hand
          MaxImportKills

ASSUME ImportAssumption == {MaxCommits, MaxEdits, MaxImportKills} \subseteq Nat

VARIABLES tables,   \* the destination rows
          job,      \* the import_jobs row
          applying, \* the apply in the event loop
          thread,   \* a cancel or rollback request
          commits, edits, importKills,
          found,   \* the tables the job last wrote to, as it found them
          pristine  \* nothing but the job's only commit has touched them since

importVars == <<tables, job, applying, thread, commits, edits, importKills, found, pristine>>

Missing == "none"
Idle == [at |-> "idle"]

\* A row by who made it; "record" rows also have the id that undoing goes by.
\* Ids of deleted rows are given out again (no AUTOINCREMENT).
Migration == {"rule", "record", "source", "access"}

\* What an apply remembers in rollback_json.
NoInfo == [records |-> {}, added |-> FALSE, replaced |-> Missing, policy |-> Missing]

ImportInit ==
    /\ tables = [rule |-> Missing, record |-> Missing, access |-> Missing,
                 source |-> "old", policy |-> "allow"]
    /\ job = [kind |-> "migration", policy |-> Missing, status |-> Missing, info |-> NoInfo]
    /\ applying = Idle
    /\ thread = Idle
    /\ commits = 0
    /\ edits = 0
    /\ importKills = 0
    /\ found = tables
    /\ pristine = FALSE

LoopFree == applying.at = "idle"

\* Bookkeeping for the properties: what the job found, and whether undoing it
\* can be exact.
Committed(exact) ==
    /\ commits' = commits + 1
    /\ found' = tables
    /\ pristine' = (exact /\ commits = 0 /\ thread.at # "rollback")

----------------------------------------------------------------------------
(* Upload, preview, cancel.                                                *)

\* import_upload: create_job, then the first preview, in one request.
Upload(kind, policy) ==
    /\ LoopFree /\ job.status = Missing
    /\ kind = "rows" => policy = Missing
    /\ job' = [job EXCEPT !.status = "previewed", !.kind = kind, !.policy = policy]
    /\ UNCHANGED <<tables, applying, thread, commits, edits, importKills, found, pristine>>

\* preview_job through the remap form: it asks for no status.
Remap ==
    /\ LoopFree /\ job.kind = "rows" /\ job.status # Missing
    /\ job' = [job EXCEPT !.status = "previewed"]
    /\ UNCHANGED <<tables, applying, thread, commits, edits, importKills, found, pristine>>

CancelReads ==
    /\ LoopFree /\ thread.at = "idle"
    /\ job.status \notin {Missing, "applied", "rolled_back"}
    /\ thread' = [at |-> "cancel"]
    /\ UNCHANGED <<tables, job, applying, commits, edits, importKills, found, pristine>>

CancelWrites ==
    /\ thread.at = "cancel"
    /\ thread' = Idle
    /\ job' = [job EXCEPT !.status = "canceled"]
    /\ UNCHANGED <<tables, applying, commits, edits, importKills, found, pristine>>

----------------------------------------------------------------------------
(* Applying a migration.                                                   *)

\* The status is read, the plan built and the backup made; "failed" and
\* "deploy_failed" jobs may be applied again.  A failing backup ends the apply.
ApplyMigration(selected) ==
    /\ LoopFree /\ job.kind = "migration" /\ commits < MaxCommits
    /\ job.status \notin {Missing, "applied", "rolled_back", "canceled"}
    /\ applying' = [at |-> "backup", selected |-> selected]
    /\ UNCHANGED <<tables, job, thread, commits, edits, importKills, found, pristine>>

PreImportBackupFails ==
    /\ applying.at = "backup"
    /\ applying' = Idle
    /\ UNCHANGED <<tables, job, thread, commits, edits, importKills, found, pristine>>

\* add_rule, _apply_local_dns_record, _insert_upstream_resolvers,
\* _apply_client_full_item, _apply_access_rule_item: a row that is there is a
\* duplicate and is left alone.
Inserted(owner) == IF owner = Missing THEN "job" ELSE owner

\* _apply_source_item: a row of that name is updated; the same URL under
\* another name ("other") is a duplicate.
SourceAfter == IF tables.source = "other" THEN "other" ELSE "new"

AppliedTables(selected) ==
    [tables EXCEPT
        !.rule = IF "rule" \in selected THEN Inserted(@) ELSE @,
        !.record = IF "record" \in selected THEN Inserted(@) ELSE @,
        !.access = IF "access" \in selected THEN Inserted(@) ELSE @,
        !.source = IF "source" \in selected THEN SourceAfter ELSE @,
        !.policy = IF job.policy # Missing THEN job.policy ELSE @]

\* Mistake: the value an update replaced is not kept.
RollbackInfo_NoOld(selected) ==
    [records |-> {k \in {"record", "access"} \cap selected : tables[k] = Missing},
     added |-> "source" \in selected /\ tables.source = Missing,
     replaced |-> Missing,
     policy |-> IF job.policy \notin {Missing, tables.policy} THEN tables.policy ELSE Missing]

RollbackInfo(selected) ==
    [records |-> {k \in {"record", "access"} \cap selected : tables[k] = Missing},
     added |-> "source" \in selected /\ tables.source = Missing,
     replaced |-> IF "source" \in selected /\ tables.source \notin {Missing, "other"}
                  THEN tables.source ELSE Missing,
     policy |-> IF job.policy \notin {Missing, tables.policy} THEN tables.policy ELSE Missing]

\* The one transaction of apply_migration_job.
CommitImport ==
    /\ applying.at = "backup"
    /\ tables' = AppliedTables(applying.selected)
    /\ LET info == RollbackInfo(applying.selected)
           touched == info.policy # Missing \/ "access" \in info.records
       IN  applying' = [at |-> IF touched THEN "access" ELSE "record",
                        info |-> info]
    /\ Committed(TRUE)
    /\ UNCHANGED <<job, thread, edits, importKills>>

\* An item raises: the transaction is rolled back and the job marked.
ApplyRaises ==
    /\ applying.at = "backup"
    /\ applying' = Idle
    /\ job' = [job EXCEPT !.status = "failed"]
    /\ UNCHANGED <<tables, thread, commits, edits, importKills, found, pristine>>

\* deploy_access_layer, after the commit, in the web process.
DeployImportedAccess ==
    /\ applying.at = "access"
    /\ \/ /\ applying' = [applying EXCEPT !.at = "record"]
          /\ UNCHANGED job
       \/ /\ applying' = Idle
          /\ job' = [job EXCEPT !.status = "failed"]
    /\ UNCHANGED <<tables, thread, commits, edits, importKills, found, pristine>>

RecordApplied ==
    /\ applying.at = "record"
    /\ job' = [job EXCEPT !.status = "applied", !.info = applying.info]
    /\ applying' = [at |-> "deploy"]
    /\ UNCHANGED <<tables, thread, commits, edits, importKills, found, pristine>>

\* The deploy of the apply route; mark_job_deploy_failed asks for no status.
DeployImport ==
    /\ applying.at = "deploy"
    /\ applying' = Idle
    /\ \/ UNCHANGED job
       \/ /\ job.kind = "migration"
          /\ job' = [job EXCEPT !.status = "deploy_failed"]
    /\ UNCHANGED <<tables, thread, commits, edits, importKills, found, pristine>>

----------------------------------------------------------------------------
(* Applying rows of a spreadsheet, a hosts or a zone file: apply_job.      *)

\* A record of that name is a conflict: skipped, kept beside ("merge": the
\* insert fails on the unique key) or deleted first ("replace").
ApplyRows(policy) ==
    /\ LoopFree /\ job.kind = "rows" /\ commits < MaxCommits
    /\ job.status # Missing
    /\ Committed(policy # "replace")
    /\ tables' = IF tables.record # Missing /\ policy = "replace"
                 THEN [tables EXCEPT !.record = Missing] ELSE tables
    /\ applying' = [at |-> "insert"]
    /\ job' = [job EXCEPT !.status = "previewed"]
    /\ UNCHANGED <<thread, edits, importKills>>

\* add_record in a transaction of its own, which may raise.
InsertRow ==
    /\ applying.at = "insert"
    /\ \/ /\ tables.record = Missing
          /\ tables' = [tables EXCEPT !.record = "job"]
          /\ applying' = [at |-> "rows", records |-> {"record"}]
       \/ /\ UNCHANGED tables
          /\ applying' = [at |-> "rows", records |-> {}]
    /\ UNCHANGED <<job, thread, commits, edits, importKills, found, pristine>>

RecordRows ==
    /\ applying.at = "rows"
    /\ job' = [job EXCEPT !.status = "applied", !.info.records = applying.records]
    /\ applying' = [at |-> "deploy"]
    /\ UNCHANGED <<tables, thread, commits, edits, importKills, found, pristine>>

----------------------------------------------------------------------------
(* Rolling back.                                                           *)

\* rollback_job reads the job; only a migration asks for its status.
RollbackReads ==
    /\ LoopFree /\ thread.at = "idle" /\ job.status # Missing
    /\ job.kind = "migration" => job.status \in {"applied", "deploy_failed"}
    /\ thread' = [at |-> "rollback", info |-> job.info]
    /\ UNCHANGED <<tables, job, applying, commits, edits, importKills, found, pristine>>

\* Rows are deleted by id and by name, whoever owns them by now.
UndoneTables(rows, info) ==
    [rows EXCEPT
        !.rule = IF @ = "job" THEN Missing ELSE @,
        !.record = IF "record" \in info.records THEN Missing ELSE @,
        !.access = IF "access" \in info.records THEN Missing ELSE @,
        !.source = IF info.added THEN Missing
                   ELSE IF info.replaced # Missing /\ @ # Missing THEN info.replaced ELSE @,
        !.policy = IF info.policy # Missing THEN info.policy ELSE @]

RollbackCommits ==
    /\ thread.at = "rollback"
    /\ thread' = Idle
    /\ tables' = UndoneTables(tables, thread.info)
    /\ job' = [job EXCEPT !.status = "rolled_back"]
    /\ UNCHANGED <<applying, commits, edits, importKills, found, pristine>>

----------------------------------------------------------------------------
(* The operator edits the same tables; the web service is stopped.         *)

OperatorEdits ==
    /\ edits < MaxEdits /\ edits' = edits + 1
    /\ \/ \E k \in {"rule", "record"}, o \in {Missing, "operator"} :
             tables' = [tables EXCEPT ![k] = o]
       \/ \E v \in {Missing, "old", "other"} : tables' = [tables EXCEPT !.source = v]
    /\ pristine' = FALSE
    /\ UNCHANGED <<job, applying, thread, commits, importKills, found>>

KillImport ==
    /\ importKills < MaxImportKills /\ importKills' = importKills + 1
    /\ applying' = Idle
    /\ thread' = Idle
    \* rows inserted and not yet recorded are lost to the job
    /\ pristine' = (pristine /\ applying.at # "rows")
    /\ UNCHANGED <<tables, job, commits, edits, found>>

ImportNext ==
    \/ \E k \in {"migration", "rows"}, p \in {Missing, "deny"} : Upload(k, p)
    \/ Remap \/ CancelReads \/ CancelWrites
    \/ \E s \in SUBSET Migration : ApplyMigration(s)
    \/ PreImportBackupFails \/ CommitImport \/ ApplyRaises
    \/ DeployImportedAccess \/ RecordApplied \/ DeployImport
    \/ \E p \in {"skip", "merge", "replace"} : ApplyRows(p)
    \/ InsertRow \/ RecordRows
    \/ RollbackReads \/ RollbackCommits
    \/ OperatorEdits \/ KillImport

ImportSpec == ImportInit /\ [][ImportNext]_importVars

----------------------------------------------------------------------------
(***************************************************************************)
(* _rollback_migration_job removes "exactly what a migration apply         *)
(* created" and restores what it updated, and a rows job deletes what it   *)
(* inserted: a job that wrote once to tables nobody edited since is undone *)
(* to what it found, whatever cancel requests, kills, failing deploys and  *)
(* failed attempts surrounded it.                                          *)
(***************************************************************************)
UndoExact == (job.status = "rolled_back" /\ pristine) => tables = found

(***************************************************************************)
(* The docstring of apply_migration_job: any failure "leaves no partial    *)
(* rows anywhere, and marks the job failed".                               *)
(***************************************************************************)
FailedLeavesNothing == (job.status = "failed" /\ pristine) => tables = found
==============================================================================
