------------------------------- MODULE Restore -------------------------------
(***************************************************************************)
(* restore_backup of app/backup.py and what surrounds it: the request      *)
(* queue, the one-shot systemd unit that runs it, the reaper of abandoned  *)
(* restores, and the other processes that write to the same database.  The *)
(* restore replaces configuration files one by one, merges the archive     *)
(* into a private working copy of the database and renames that copy over  *)
(* the live file while it holds SQLite's exclusive lock.                   *)
(***************************************************************************)
EXTENDS Integers, FiniteSets

CONSTANTS
  Files,        \* configuration files of the archive
  Tables,       \* database tables of the archive
  Writers,      \* processes that write to the tables the restore does not touch
  MaxRequests,  \* bound: restores requested
  MaxWrites,    \* bound: writes committed
  MaxCrashes    \* bound: kills of the restore worker

ASSUME RestoreAssumption ==
  /\ Tables # {} /\ MaxRequests \in Nat /\ MaxWrites \in Nat /\ MaxCrashes \in Nat

VARIABLES
  reqs,       \* status of the rows of backup_requests
  pc,         \* where the worker is; "idle": the unit is inactive
  req,        \* the request it processes
  sel,        \* what this restore restores: files, the database, analytics history
  moved,      \* file_backups: files replaced and what they held before
  files,      \* content of the live files: "own" or "archive"
  loaded,     \* content the daemons were last restarted with
  db,         \* the live database: selected tables, number of other writes, inode
  working,    \* the working copy
  merged,     \* merged_tables
  locked,     \* inode held by _acquire_exclusive_live_lock, -1: none
  promoted,   \* the local variable of restore_backup
  analytics,  \* alderpointdns-analytics is running
  row,        \* latest row of restore_history
  conn,       \* inode each writer's connection is bound to, -1: not connected
  committed,  \* history: writes committed through a connection to the live file
  strays,     \* history: writes committed through a connection to a replaced file
  before,     \* history: files and tables when the worker started
  crashes

vars == <<reqs, pc, req, sel, moved, files, loaded, db, working, merged, locked, promoted,
          analytics, row, conn, committed, strays, before, crashes>>
process == <<req, sel, moved, working, merged, promoted>>
outside == <<reqs, conn, committed, strays, before, crashes>>

Own(S) == [x \in S |-> "own"]
Nothing == [files |-> {}, db |-> FALSE, analytics |-> FALSE]
\* "missed" is history: a file could not be put back.
NoRow == [status |-> "none", promotedAt |-> FALSE, missed |-> FALSE]

Init ==
  /\ reqs = [i \in 1..MaxRequests |-> "none"]
  /\ pc = "idle" /\ req = 0 /\ sel = Nothing /\ moved = <<>>
  /\ files = Own(Files) /\ loaded = files
  /\ db = [sel |-> Own(Tables), other |-> 0, inode |-> 0]
  /\ working = db /\ merged = {} /\ locked = -1 /\ promoted = FALSE
  /\ analytics = TRUE
  /\ row = NoRow
  /\ conn = [w \in Writers |-> -1] /\ committed = 0 /\ strays = 0
  /\ before = [files |-> files, sel |-> db.sel]
  /\ crashes = 0

-----------------------------------------------------------------------------
(* The other writers of the database. *)

\* connect(): the file is opened by its name.
Connect(w) ==
  /\ conn[w] = -1
  /\ conn' = [conn EXCEPT ![w] = db.inode]
  /\ UNCHANGED <<reqs, pc, files, loaded, db, locked, analytics, row, committed, strays, before,
                 crashes>> /\ UNCHANGED process

\* The write waits for the exclusive lock on its file.  A connection opened before
\* the rename and blocked until after it commits to the replaced file.
Commit(w) ==
  /\ conn[w] # -1 /\ conn[w] # locked
  /\ committed + strays < MaxWrites
  /\ IF conn[w] = db.inode
       THEN /\ db' = [db EXCEPT !.other = @ + 1]
            /\ committed' = committed + 1
            /\ UNCHANGED strays
       ELSE /\ strays' = strays + 1
            /\ UNCHANGED <<db, committed>>
  /\ UNCHANGED <<reqs, pc, files, loaded, locked, analytics, row, conn, before, crashes>>
  /\ UNCHANGED process

Disconnect(w) ==
  /\ conn[w] # -1
  /\ conn' = [conn EXCEPT ![w] = -1]
  /\ UNCHANGED <<reqs, pc, files, loaded, db, locked, analytics, row, committed, strays, before,
                 crashes>> /\ UNCHANGED process

-----------------------------------------------------------------------------
(* Requests, the worker's start and the reaper. *)

Pending == {i \in 1..MaxRequests : reqs[i] = "pending"}

\* POST /backup/restore: the row, then systemctl start --no-block, which does nothing
\* while the unit is active.
Request ==
  /\ \E i \in 1..MaxRequests :
       /\ reqs[i] = "none" /\ \A j \in 1..(i - 1) : reqs[j] # "none"
       /\ reqs' = [reqs EXCEPT ![i] = "pending"]
  /\ pc' = IF pc = "idle" THEN "pick" ELSE pc
  /\ UNCHANGED <<files, loaded, db, locked, analytics, row, conn, committed, strays, before, crashes>>
  /\ UNCHANGED process

\* Mutant: only rows with promoted_at are recognised as abandoned.
Reap_PromotedOnly ==
  /\ row.status = "running" /\ row.promotedAt /\ pc \in {"idle", "pick"}
  /\ row' = [row EXCEPT !.status = "interrupted"]
  /\ analytics' = TRUE
  /\ UNCHANGED <<pc, files, loaded, db, locked>>
  /\ UNCHANGED process /\ UNCHANGED outside

\* reap_abandoned_restores finds the worker of a 'running' row dead.  Services are
\* restarted only if promoted_at is set.
Reap ==
  /\ row.status = "running" /\ pc \in {"idle", "pick"}
  /\ row' = [row EXCEPT !.status = "interrupted"]
  /\ analytics' = (analytics \/ row.promotedAt)
  /\ UNCHANGED <<pc, files, loaded, db, locked>>
  /\ UNCHANGED process /\ UNCHANGED outside

\* process_pending_request takes the newest pending request; restore_backup reaps,
\* then inserts its own row.  What the archive offers of what was asked for is chosen.
Pick ==
  /\ pc = "pick" /\ row.status # "running"
  /\ IF Pending = {}
       THEN pc' = "idle" /\ UNCHANGED <<req, sel, moved, merged, promoted, row, before>>
       ELSE /\ req' = CHOOSE i \in Pending : \A j \in Pending : j <= i
            /\ \E f \in SUBSET Files, d \in BOOLEAN, a \in BOOLEAN :
                 /\ a => d
                 /\ sel' = [files |-> f, db |-> d, analytics |-> a]
            /\ moved' = <<>> /\ merged' = {} /\ promoted' = FALSE
            /\ row' = [NoRow EXCEPT !.status = "running"]
            /\ before' = [files |-> files, sel |-> db.sel]
            /\ pc' = "files"
  /\ UNCHANGED <<reqs, files, loaded, db, working, locked, analytics, conn, committed, strays, crashes>>

-----------------------------------------------------------------------------
(* restore_backup. *)

\* Extraction and the pre-restore backup change nothing.  _replace_path: the live file
\* is moved aside, the staged one copied in.
ReplacePath(f) ==
  /\ pc = "files" /\ f \in sel.files \ DOMAIN moved
  /\ moved' = [g \in DOMAIN moved \cup {f} |-> IF g = f THEN files[f] ELSE moved[g]]
  /\ files' = [files EXCEPT ![f] = "archive"]
  /\ UNCHANGED <<pc, req, sel, loaded, db, working, merged, locked, promoted, analytics, row>>
  /\ UNCHANGED outside

\* named-checkconf, dnsdist --check-config, visudo and the runtime-read checks passed:
\* the daemon of every replaced file is restarted.
RestartDaemons ==
  /\ pc = "files" /\ DOMAIN moved = sel.files
  /\ loaded' = [f \in Files |-> IF f \in sel.files THEN files[f] ELSE loaded[f]]
  /\ pc' = IF sel.db THEN "copy" ELSE "services"
  /\ UNCHANGED <<files, db, locked, analytics, row>> /\ UNCHANGED process /\ UNCHANGED outside

\* _create_working_db; the collector is stopped if its tables are restored.
CreateWorkingDb ==
  /\ pc = "copy"
  /\ working' = db
  /\ analytics' = (analytics /\ ~sel.analytics)
  /\ pc' = "merge"
  /\ UNCHANGED <<req, sel, moved, files, loaded, db, merged, locked, promoted, row>>
  /\ UNCHANGED outside

MergeTable(t) ==
  /\ pc = "merge" /\ t \notin merged
  /\ working' = [working EXCEPT !.sel[t] = "archive"]
  /\ merged' = merged \cup {t}
  /\ UNCHANGED <<pc, req, sel, moved, files, loaded, db, locked, promoted, analytics, row>>
  /\ UNCHANGED outside

\* Mutant: a failing table merge is skipped.
QuickCheck_AnyTime ==
  /\ pc = "merge"
  /\ pc' = "lock"
  /\ UNCHANGED <<files, loaded, db, locked, analytics, row>> /\ UNCHANGED process /\ UNCHANGED outside

\* All tables merged, PRAGMA quick_check says ok.
QuickCheck ==
  /\ pc = "merge" /\ merged = Tables
  /\ pc' = "lock"
  /\ UNCHANGED <<files, loaded, db, locked, analytics, row>> /\ UNCHANGED process /\ UNCHANGED outside

\* EXCLUSIVE locking mode needs to be the only connection to the file; the worker has
\* closed its own.
AcquireExclusiveLock ==
  /\ pc = "lock" /\ \A w \in Writers : conn[w] # db.inode
  /\ locked' = db.inode
  /\ pc' = "resync"
  /\ UNCHANGED <<files, loaded, db, analytics, row>> /\ UNCHANGED process /\ UNCHANGED outside

\* Mutant: the tables that were not merged are not copied again.
ResyncLiveState_Skipped ==
  /\ pc = "resync"
  /\ pc' = "swap"
  /\ UNCHANGED <<files, loaded, db, locked, analytics, row>> /\ UNCHANGED process /\ UNCHANGED outside

\* _resync_live_state_into_working.
ResyncLiveState ==
  /\ pc = "resync"
  /\ working' = [working EXCEPT !.other = db.other]
  /\ pc' = "swap"
  /\ UNCHANGED <<req, sel, moved, files, loaded, db, merged, locked, promoted, analytics, row>>
  /\ UNCHANGED outside

\* _promote_working_db: os.replace.
PromoteWorkingDb ==
  /\ pc = "swap"
  /\ db' = [working EXCEPT !.inode = db.inode + 1]
  /\ promoted' = TRUE
  /\ pc' = "unlock"
  /\ UNCHANGED <<req, sel, moved, files, loaded, working, merged, locked, analytics, row>>
  /\ UNCHANGED outside

\* live_lock.close(), connect() again.
ReleaseExclusiveLock ==
  /\ pc = "unlock"
  /\ locked' = -1
  /\ pc' = "stamp"
  /\ UNCHANGED <<files, loaded, db, analytics, row>> /\ UNCHANGED process /\ UNCHANGED outside

\* touch(phase="promoted", promoted=True).
StampPromoted ==
  /\ pc = "stamp"
  /\ row' = [row EXCEPT !.promotedAt = TRUE]
  /\ pc' = "services"
  /\ UNCHANGED <<files, loaded, db, locked, analytics>> /\ UNCHANGED process /\ UNCHANGED outside

RestartServices ==
  /\ pc = "services"
  /\ analytics' = (analytics \/ sel.db)
  /\ pc' = "postcheck"
  /\ UNCHANGED <<files, loaded, db, locked, row>> /\ UNCHANGED process /\ UNCHANGED outside

\* The final UPDATE of the row, then process_pending_request: the request is answered,
\* all others still pending are marked skipped.
Finish(status, missed) ==
  /\ row' = [row EXCEPT !.status = status, !.missed = missed]
  /\ reqs' = [i \in 1..MaxRequests |->
                IF i = req THEN (IF status = "deployed" THEN "done" ELSE "failed")
                ELSE IF reqs[i] = "pending" THEN "skipped" ELSE reqs[i]]
  /\ locked' = -1
  /\ pc' = "idle"
  /\ UNCHANGED <<req, sel, moved, working, merged, promoted, conn, committed, strays, before, crashes>>

\* The upstream resolvers are reconciled and DNS answers.
PostCheck ==
  /\ pc = "postcheck"
  /\ Finish("deployed", FALSE)
  /\ UNCHANGED <<files, loaded, db, analytics>>

\* Mutant: the moved files stay as they are.
RollbackPaths_None(bad) == files

\* _rollback_paths; a file that cannot be moved back is passed over.
RollbackPaths(bad) ==
  [f \in Files |-> IF f \in DOMAIN moved \ bad THEN moved[f] ELSE files[f]]

\* Mutant: the failure path does not know that it stopped the collector.
CollectorPaused_Never == FALSE

\* analytics_collector_paused.
CollectorPaused == sel.analytics /\ pc \in {"merge", "lock", "resync", "swap"}

\* Any step raises before the swap: the files are rolled back and the daemons that were
\* touched restarted.  Nothing of the database is.
FailsBefore ==
  /\ pc \in {"files", "copy", "merge", "lock", "resync", "swap", "services", "postcheck"} /\ ~promoted
  /\ \E bad \in SUBSET DOMAIN moved, status \in {"rolled_back", "rollback_failed"} :
       /\ files' = RollbackPaths(bad)
       /\ Finish(status, bad # {})
  /\ loaded' = [f \in Files |-> IF f \in DOMAIN moved THEN files'[f] ELSE loaded[f]]
  /\ analytics' = (analytics \/ CollectorPaused)
  /\ UNCHANGED db

\* A step raises after the swap: services are restarted, nothing is rolled back.
FailsAfter ==
  /\ pc \in {"stamp", "services", "postcheck"} /\ promoted
  /\ Finish("promoted_recovery_required", FALSE)
  /\ analytics' = TRUE
  /\ UNCHANGED <<files, loaded, db>>

\* The worker is killed; its locks go with it, its request stays pending.
Crash ==
  /\ pc # "idle" /\ crashes < MaxCrashes
  /\ crashes' = crashes + 1
  /\ pc' = "idle" /\ locked' = -1
  /\ UNCHANGED <<reqs, files, loaded, db, analytics, row, conn, committed, strays, before>>
  /\ UNCHANGED process

Work ==
  \/ Pick \/ (\E f \in Files : ReplacePath(f)) \/ RestartDaemons
  \/ CreateWorkingDb \/ (\E t \in Tables : MergeTable(t)) \/ QuickCheck
  \/ AcquireExclusiveLock \/ ResyncLiveState \/ PromoteWorkingDb \/ ReleaseExclusiveLock
  \/ StampPromoted \/ RestartServices \/ PostCheck

Next ==
  \/ \E w \in Writers : Connect(w) \/ Commit(w) \/ Disconnect(w)
  \/ Request \/ Reap \/ Work \/ FailsBefore \/ FailsAfter \/ Crash

Spec == Init /\ [][Next]_vars

\* Every command of a restore returns, the wait for the exclusive lock is bounded, and
\* the restore page is looked at again.
FairSpec == Spec /\ WF_vars(Work \/ FailsBefore \/ FailsAfter) /\ WF_vars(Reap)

-----------------------------------------------------------------------------
(* Properties. *)

\* The live database never holds a part of the archive: its selected tables are all
\* restored or all as they were, whenever the worker fails or is killed.
PromotedWhole == \A t, u \in Tables : db.sel[t] = db.sel[u]

\* _resync_live_state_into_working: what other processes committed to the live file
\* while the restore was merging is still there after the rename.
OtherWritesSurvive == db.other = committed

\* The status of the finished restore tells what it did: 'deployed' to files, daemons
\* and database, 'rolled_back' that nothing is left of it (unless a file could not be
\* moved back), 'promoted_recovery_required' that the restored database is live
\* with the restored files.
RowTellsTruth ==
  /\ row.status = "deployed" =>
       /\ \A f \in sel.files : files[f] = "archive" /\ loaded[f] = "archive"
       /\ sel.db => \A t \in Tables : db.sel[t] = "archive"
  /\ row.status = "rolled_back" /\ ~row.missed =>
       /\ files = before.files /\ db.sel = before.sel
       /\ \A f \in DOMAIN moved : loaded[f] = files[f]
  /\ row.status = "promoted_recovery_required" =>
       /\ \A t \in Tables : db.sel[t] = "archive"
       /\ \A f \in sel.files : files[f] = "archive"

\* "a restore's failure must not silently disable ongoing analytics collection": workers
\* that were not killed leave the collector running, and so does one that was killed
\* after its promotion was recorded, once the reaper has ended its row.
CollectorComesBack ==
  pc = "idle" /\ (crashes = 0 \/ (row.promotedAt /\ row.status # "running")) => analytics

\* No restore is shown as running for ever: it ends, or its death is noticed.
RunningIsNotForever == row.status = "running" ~> row.status # "running"
=============================================================================
