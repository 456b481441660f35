--------------------------- MODULE RestoreProofs ----------------------------
(***************************************************************************)
(* The restore, for any archive, any number of requests, kills and other   *)
(* writers; the upload of archives, for any number of uploads; the list of *)
(* backups, for any retention; and the undoing of an import, for any       *)
(* number of attempts, edits and kills.                                    *)
(***************************************************************************)
EXTENDS Restore, Backups, Uploads, Import, TLAPS

----------------------------------------------------------------------------
(* restore_backup.                                                         *)

AtRest == pc \in {"idle", "pick"}
BeforeSwap == pc \in {"files", "copy", "merge", "lock", "resync", "swap"}
Merging == pc \in {"merge", "lock", "resync", "swap"}
Swapped == pc \in {"unlock", "stamp"}
Ending == pc \in {"services", "postcheck"}

Content == {"own", "archive"}
Statuses == {"none", "running", "deployed", "rolled_back", "rollback_failed",
             "promoted_recovery_required", "interrupted"}

RestoreTypeOK ==
    /\ AtRest \/ BeforeSwap \/ Swapped \/ Ending
    /\ sel \in [files : SUBSET Files, db : BOOLEAN, analytics : BOOLEAN]
    /\ sel.analytics => sel.db
    /\ files \in [Files -> Content] /\ loaded \in [Files -> Content]
    /\ db \in [sel : [Tables -> Content], other : Nat, inode : Nat]
    /\ working \in [sel : [Tables -> Content], other : Nat, inode : Nat]
    /\ merged \subseteq Tables
    /\ promoted \in BOOLEAN /\ analytics \in BOOLEAN
    /\ row \in [status : Statuses, promotedAt : BOOLEAN, missed : BOOLEAN]
    /\ conn \in [Writers -> Nat \union {-1}]
    /\ committed \in Nat /\ strays \in Nat /\ crashes \in Nat
    /\ before \in [files : [Files -> Content], sel : [Tables -> Content]]

Restored == \A t \in Tables : db.sel[t] = "archive"

\* The tables: what is merged is from the archive, everything is merged before
\* the copy can be promoted, and the live file is locked and the copy brought up
\* to date when it replaces it.
TablesInv ==
    /\ Restored \/ \A t \in Tables : db.sel[t] = "own"
    /\ pc \in {"files", "copy"} => merged = {}
    /\ Merging => \A t \in merged : working.sel[t] = "archive"
    /\ pc \in {"lock", "resync", "swap"} => merged = Tables
    /\ db.other = committed
    /\ pc \in {"resync", "swap"} => locked = db.inode
    /\ pc = "swap" => working.other = db.other

\* The worker: a row is running as long as it works; promoted, the selection and
\* the place it has reached go together.
WorkerInv == ~AtRest =>
    /\ row.status = "running"
    /\ BeforeSwap => ~promoted
    /\ Merging \/ pc = "copy" => sel.db
    /\ Swapped => sel.db /\ promoted
    /\ Ending => (promoted <=> sel.db)
    /\ promoted => Restored
    /\ ~promoted => db.sel = before.sel

\* The files: what was moved aside is what was there, everything selected is
\* replaced and loaded once the files are done.
FilesInv == ~AtRest =>
    /\ DOMAIN moved \subseteq sel.files
    /\ \A f \in DOMAIN moved : files[f] = "archive" /\ moved[f] = before.files[f]
    /\ \A f \in Files \ DOMAIN moved : files[f] = before.files[f]
    /\ pc # "files" => DOMAIN moved = sel.files /\ \A f \in sel.files : loaded[f] = "archive"

\* The collector is stopped only between the working copy and the restart, and
\* runs in the end wherever promoted_at was set.
CollectorInv ==
    /\ crashes = 0 /\ ~analytics =>
         sel.analytics /\ (Merging \/ Swapped \/ pc = "services")
    /\ ~AtRest /\ row.promotedAt => promoted /\ Ending
    /\ pc = "postcheck" /\ sel.db => analytics
    /\ AtRest /\ row.promotedAt /\ row.status # "running" => analytics

RestoreInv ==
    RestoreTypeOK /\ TablesInv /\ WorkerInv /\ FilesInv /\ CollectorInv /\ RowTellsTruth

LEMMA RestoreInitInv == Init => RestoreInv
<1> SUFFICES ASSUME Init PROVE RestoreInv
  OBVIOUS
<1>1. RestoreTypeOK
  BY DEF Init, Own, Nothing, NoRow, RestoreTypeOK, AtRest, Content, Statuses
<1>2. TablesInv /\ WorkerInv /\ FilesInv /\ CollectorInv /\ RowTellsTruth
  BY DEF Init, Own, NoRow, TablesInv, WorkerInv, FilesInv, CollectorInv, RowTellsTruth, AtRest,
         Merging
<1> QED
  BY <1>1, <1>2 DEF RestoreInv

LEMMA RestoreNextInv == RestoreInv /\ [Next]_vars => RestoreInv'
<1> SUFFICES ASSUME RestoreInv, [Next]_vars PROVE RestoreInv'
  OBVIOUS
<1> USE DEF RestoreInv, RestoreTypeOK, TablesInv, WorkerInv, FilesInv, CollectorInv, RowTellsTruth,
            AtRest, BeforeSwap, Merging, Swapped, Ending, Restored, process, outside
<1>1. ASSUME NEW w \in Writers, Connect(w) PROVE RestoreInv'
  BY <1>1 DEF Connect
<1>2. ASSUME NEW w \in Writers, Commit(w) PROVE RestoreInv'
  BY <1>2 DEF Commit
<1>3. ASSUME NEW w \in Writers, Disconnect(w) PROVE RestoreInv'
  BY <1>3 DEF Disconnect
<1>4. CASE Request
  BY <1>4 DEF Request
<1>5. CASE Reap
  BY <1>5 DEF Reap, Statuses
<1>6. CASE Pick
  <2>1. CASE Pending = {}
    BY <1>6, <2>1 DEF Pick
  <2>2. CASE Pending # {}
    <3>1. PICK f \in SUBSET Files, d \in BOOLEAN, a \in BOOLEAN :
              (a => d) /\ sel' = [files |-> f, db |-> d, analytics |-> a]
      BY <1>6, <2>2 DEF Pick
    <3>2. /\ pc = "pick" /\ pc' = "files" /\ row.status # "running"
          /\ moved' = <<>> /\ merged' = {} /\ promoted' = FALSE
          /\ row' = [status |-> "running", promotedAt |-> FALSE, missed |-> FALSE]
          /\ before' = [files |-> files, sel |-> db.sel]
          /\ UNCHANGED <<files, loaded, db, working, locked, analytics, conn, committed, strays, crashes>>
      BY <1>6, <2>2 DEF Pick, NoRow
    <3>3. DOMAIN moved' = {}
      BY <3>2
    <3>4. RestoreTypeOK'
      BY <3>1, <3>2 DEF Statuses
    <3>5. TablesInv' /\ CollectorInv' /\ RowTellsTruth'
      BY <3>2
    <3>6. WorkerInv' /\ FilesInv'
      BY <3>2, <3>3
    <3> QED
      BY <3>4, <3>5, <3>6
  <2> QED
    BY <2>1, <2>2
<1>7. ASSUME NEW f \in Files, ReplacePath(f) PROVE RestoreInv'
  BY <1>7 DEF ReplacePath, Content
<1>8. CASE RestartDaemons
  BY <1>8 DEF RestartDaemons
<1>9. CASE CreateWorkingDb
  <2>1. /\ pc = "copy" /\ pc' = "merge" /\ working' = db
        /\ analytics' = (analytics /\ ~sel.analytics)
        /\ UNCHANGED <<sel, moved, files, loaded, db, merged, locked, promoted, row>>
        /\ UNCHANGED outside
    BY <1>9 DEF CreateWorkingDb
  <2>2. analytics' \in BOOLEAN /\ (~analytics' => ~analytics \/ sel.analytics)
    BY <2>1, Zenon
  <2>3. RestoreTypeOK'
    BY <2>1, <2>2
  <2>4. TablesInv' /\ WorkerInv' /\ FilesInv' /\ RowTellsTruth'
    BY <2>1
  <2>5. CollectorInv'
    BY <2>1, <2>2
  <2> QED
    BY <2>3, <2>4, <2>5
<1>10. ASSUME NEW t \in Tables, MergeTable(t) PROVE RestoreInv'
  BY <1>10 DEF MergeTable, Content
<1>11. CASE QuickCheck
  BY <1>11 DEF QuickCheck
<1>12. CASE AcquireExclusiveLock
  BY <1>12 DEF AcquireExclusiveLock
<1>13. CASE ResyncLiveState
  BY <1>13 DEF ResyncLiveState
<1>14. CASE PromoteWorkingDb
  BY <1>14 DEF PromoteWorkingDb
<1>15. CASE ReleaseExclusiveLock
  BY <1>15 DEF ReleaseExclusiveLock
<1>16. CASE StampPromoted
  BY <1>16 DEF StampPromoted
<1>17. CASE RestartServices
  BY <1>17 DEF RestartServices
<1>18. CASE PostCheck
  <2>1. /\ pc = "postcheck" /\ pc' = "idle"
        /\ row' = [row EXCEPT !.status = "deployed", !.missed = FALSE]
        /\ UNCHANGED <<sel, moved, working, merged, promoted, conn, committed, strays, before, crashes>>
        /\ UNCHANGED <<files, loaded, db, analytics>>
    BY <1>18 DEF PostCheck, Finish
  <2>2. row' = [status |-> "deployed", promotedAt |-> row.promotedAt, missed |-> FALSE]
    BY <2>1
  <2>3. RestoreTypeOK' /\ TablesInv' /\ WorkerInv' /\ FilesInv'
    BY <2>1, <2>2 DEF Statuses
  <2>4. CollectorInv'
    BY <2>1, <2>2
  <2>5. RowTellsTruth'
    BY <2>1, <2>2
  <2> QED
    BY <2>3, <2>4, <2>5
<1>19. CASE FailsBefore
  <2>1. PICK bad \in SUBSET DOMAIN moved, s \in {"rolled_back", "rollback_failed"} :
            files' = RollbackPaths(bad) /\ Finish(s, bad # {})
    BY <1>19 DEF FailsBefore
  <2>2. /\ BeforeSwap \/ Ending
        /\ ~promoted /\ pc' = "idle"
        /\ row' = [row EXCEPT !.status = s, !.missed = (bad # {})]
        /\ UNCHANGED <<sel, moved, working, merged, promoted, conn, committed, strays, before, crashes>>
        /\ UNCHANGED db
        /\ loaded' = [f \in Files |-> IF f \in DOMAIN moved THEN files'[f] ELSE loaded[f]]
        /\ analytics' = (analytics \/ CollectorPaused)
    BY <1>19, <2>1 DEF FailsBefore, Finish
  <2>3. row' = [status |-> s, promotedAt |-> row.promotedAt, missed |-> (bad # {})]
    BY <2>2
  <2>4. files' \in [Files -> Content] /\ (bad = {} => files' = before.files)
    BY <2>1, <2>2 DEF RollbackPaths
  <2>5. loaded' \in [Files -> Content] /\ \A f \in DOMAIN moved : loaded'[f] = files'[f]
    BY <2>2, <2>4
  <2>6. analytics' \in BOOLEAN /\ (~analytics' => ~analytics /\ ~CollectorPaused)
    BY <2>2, Zenon
  <2>7. RestoreTypeOK'
    BY <2>2, <2>3, <2>4, <2>5, <2>6 DEF Statuses
  <2>8. TablesInv' /\ WorkerInv' /\ FilesInv'
    BY <2>2
  <2>9. CollectorInv'
    BY <2>2, <2>3, <2>6 DEF CollectorPaused
  <2>10. RowTellsTruth'
    BY <2>2, <2>3, <2>4, <2>5
  <2> QED
    BY <2>7, <2>8, <2>9, <2>10
<1>20. CASE FailsAfter
  <2>1. /\ Swapped \/ Ending
        /\ promoted /\ pc' = "idle" /\ analytics' = TRUE
        /\ row' = [row EXCEPT !.status = "promoted_recovery_required", !.missed = FALSE]
        /\ UNCHANGED <<sel, moved, working, merged, promoted, conn, committed, strays, before, crashes>>
        /\ UNCHANGED <<files, loaded, db>>
    BY <1>20 DEF FailsAfter, Finish
  <2>2. row' = [status |-> "promoted_recovery_required", promotedAt |-> row.promotedAt, missed |-> FALSE]
    BY <2>1
  <2>3. RestoreTypeOK' /\ TablesInv' /\ WorkerInv' /\ FilesInv' /\ CollectorInv'
    BY <2>1, <2>2 DEF Statuses
  <2>4. RowTellsTruth'
    BY <2>1, <2>2
  <2> QED
    BY <2>3, <2>4
<1>21. CASE Crash
  BY <1>21 DEF Crash
<1>22. CASE UNCHANGED vars
  BY <1>22 DEF vars
<1> QED
  BY <1>1, <1>2, <1>3, <1>4, <1>5, <1>6, <1>7, <1>8, <1>9, <1>10, <1>11, <1>12, <1>13, <1>14,
     <1>15, <1>16, <1>17, <1>18, <1>19, <1>20, <1>21, <1>22 DEF Next, Work

\* A database that is live is a whole one: all of the archive's tables or none.
THEOREM RestorePromotesWhole == Spec => []PromotedWhole
<1>1. RestoreInv => PromotedWhole
  BY DEF RestoreInv, TablesInv, Restored, PromotedWhole
<1> QED
  BY <1>1, RestoreInitInv, RestoreNextInv, PTL DEF Spec

\* No write another process committed to the live file is lost by the rename.
THEOREM WritesSurviveRestore == Spec => []OtherWritesSurvive
<1>1. RestoreInv => OtherWritesSurvive
  BY DEF RestoreInv, TablesInv, OtherWritesSurvive
<1> QED
  BY <1>1, RestoreInitInv, RestoreNextInv, PTL DEF Spec

\* The recorded status of a restore is true of files, daemons and database,
\* wherever the restore failed.
THEOREM RestoreReportsTruth == Spec => []RowTellsTruth
<1>1. RestoreInv => RowTellsTruth
  BY DEF RestoreInv
<1> QED
  BY <1>1, RestoreInitInv, RestoreNextInv, PTL DEF Spec

\* The collector a restore stopped runs again, unless the worker was killed before
\* its promotion was recorded.
THEOREM CollectorRestarted == Spec => []CollectorComesBack
<1>1. RestoreInv => CollectorComesBack
  BY DEF RestoreInv, RestoreTypeOK, CollectorInv, AtRest, Merging, Swapped, CollectorComesBack
<1> QED
  BY <1>1, RestoreInitInv, RestoreNextInv, PTL DEF Spec

----------------------------------------------------------------------------
(* Uploads.                                                                *)

UploadPhases == {"new", "stream", "refused", "aborted", "received", "done"}

UploadsTypeOK ==
    /\ upload \in [Uploaders -> [at : UploadPhases, chunks : Nat]]
    /\ DOMAIN imports = 1..MaxUploadSeconds
    /\ uploadSecond \in 1..MaxUploadSeconds

\* What was written is within the limit, and an upload that was received is not
\* empty; a file in place is the whole of an upload that is done.
UploadsInv ==
    /\ UploadsTypeOK
    /\ \A u \in Uploaders : /\ upload[u].chunks <= UploadLimit
                            /\ upload[u].at \in {"received", "done"} => upload[u].chunks >= 1
    /\ \A t \in 1..MaxUploadSeconds : \A u \in imports[t].by :
         u \in Uploaders /\ upload[u].at = "done" /\ imports[t].chunks = upload[u].chunks

LEMMA UploadsInitInv == UploadsInit => UploadsInv
  BY UploadsAssumption DEF UploadsInit, NoFile, UploadsInv, UploadsTypeOK, UploadPhases

LEMMA UploadsNextInv == UploadsInv /\ [UploadsNext]_uploadsVars => UploadsInv'
<1> SUFFICES ASSUME UploadsInv, [UploadsNext]_uploadsVars PROVE UploadsInv'
  OBVIOUS
<1> USE UploadsAssumption DEF UploadsInv, UploadsTypeOK, UploadPhases
<1>1. ASSUME NEW u \in Uploaders, BeginStreamedUpload(u) PROVE UploadsInv'
  BY <1>1 DEF BeginStreamedUpload
<1>2. ASSUME NEW u \in Uploaders, UploadChunk(u) PROVE UploadsInv'
  <2>1. upload[u].at = "stream" /\ UNCHANGED <<imports, uploadSecond>>
    BY <1>2 DEF UploadChunk
  <2>2. CASE upload[u].chunks < UploadLimit /\ upload' = [upload EXCEPT ![u].chunks = @ + 1]
    BY <2>1, <2>2
  <2>3. CASE upload' = [upload EXCEPT ![u].at = "aborted"]
    BY <2>1, <2>3
  <2>4. CASE upload[u].chunks # 0 /\ upload' = [upload EXCEPT ![u].at = "received"]
    BY <2>1, <2>4
  <2> QED
    BY <1>2, <2>2, <2>3, <2>4 DEF UploadChunk
<1>3. ASSUME NEW u \in Uploaders, FinalizeStreamedUpload(u) PROVE UploadsInv'
  BY <1>3 DEF FinalizeStreamedUpload
<1>4. ASSUME NEW u \in Uploaders, AbortStreamedUpload(u) PROVE UploadsInv'
  BY <1>4 DEF AbortStreamedUpload
<1>5. CASE UploadSecondPasses
  BY <1>5 DEF UploadSecondPasses
<1>6. CASE UNCHANGED uploadsVars
  BY <1>6 DEF uploadsVars
<1> QED
  BY <1>1, <1>2, <1>3, <1>4, <1>5, <1>6 DEF UploadsNext

\* An archive offered for restore is the whole of one upload within the limit,
\* however uploads interleave and whichever of them are aborted.
THEOREM UploadsWhole == UploadsSpec => []ImportedIsWhole
<1>1. UploadsInv => ImportedIsWhole
  BY UploadsAssumption DEF UploadsInv, UploadsTypeOK, ImportedIsWhole
<1> QED
  BY <1>1, UploadsInitInv, UploadsNextInv, PTL DEF UploadsSpec

----------------------------------------------------------------------------
(* Backups.                                                                *)

Recording(w) == workers[w].at = "record"

\* Outside the two excluded cases an archive has one row or one worker about to
\* write it, so that pruning a row takes nobody else's file.
OneRowPerArchive ==
    /\ \A r, q \in history : r.path = q.path => r = q
    /\ \A w \in Workers : Recording(w) =>
         /\ workers[w].path \in disk
         /\ \A r \in history : r.path # workers[w].path
         /\ \A v \in Workers : Recording(v) /\ workers[v].path = workers[w].path => v = w

BackupsInv ==
    /\ workers = [w \in Workers |-> workers[w]]
    /\ collided \in BOOLEAN /\ cutPrune \in BOOLEAN
    /\ collided \/ cutPrune \/ OneRowPerArchive
    /\ ListedIsOnDisk

LEMMA BackupsInitInv == BackupsInit => BackupsInv
<1> SUFFICES ASSUME BackupsInit PROVE BackupsInv
  OBVIOUS
<1>1. \A w \in Workers : workers[w].at # "record"
  BY DEF BackupsInit, Resting
<1>2. workers = [w \in Workers |-> workers[w]]
  BY DEF BackupsInit
<1>3. history = {} /\ collided = FALSE /\ cutPrune = FALSE
  BY DEF BackupsInit
<1> QED
  BY <1>1, <1>2, <1>3, Zenon DEF BackupsInv, OneRowPerArchive, Recording, ListedIsOnDisk

\* A worker that moves on to neither writing a row nor forgetting rows, and was
\* not between a file and its row, changes nothing the invariant speaks of.
LEMMA WorkerMovesOn ==
    ASSUME BackupsInv, NEW w \in Workers, NEW next,
           next.at \notin {"record", "forget"}, workers[w].at # "forget",
           workers' = [workers EXCEPT ![w] = next],
           UNCHANGED <<history, disk, collided, cutPrune>>
    PROVE  BackupsInv'
  BY DEF BackupsInv, OneRowPerArchive, Recording, ListedIsOnDisk

LEMMA BackupsNextInv == BackupsInv /\ [BackupsNext]_backupsVars => BackupsInv'
<1> SUFFICES ASSUME BackupsInv, [BackupsNext]_backupsVars PROVE BackupsInv'
  OBVIOUS
<1> USE DEF BackupsInv, OneRowPerArchive, Recording, ListedIsOnDisk
<1>1. ASSUME NEW k \in {"create", "restore"}, NEW e \in BOOLEAN, RequestBackup(k, e) PROVE BackupsInv'
  BY <1>1 DEF RequestBackup
<1>2. CASE StartWorker
  BY <1>2, WorkerMovesOn DEF StartWorker, Workers
<1>3. CASE RouteReturns
  BY <1>3 DEF RouteReturns
<1>4. CASE TimerStarts
  BY <1>4, WorkerMovesOn DEF TimerStarts, Workers
<1>5. CASE RestoreRuns
  BY <1>5, WorkerMovesOn DEF RestoreRuns, Workers
<1>6. ASSUME NEW w \in Workers, PickRequest(w) PROVE BackupsInv'
  BY <1>6, WorkerMovesOn DEF PickRequest, Resting
<1>7. ASSUME NEW w \in Workers, ConsumePassword(w) PROVE BackupsInv'
  BY <1>7, WorkerMovesOn DEF ConsumePassword
<1>8. ASSUME NEW w \in Workers, CreateArchive(w) PROVE BackupsInv'
  BY <1>8 DEF CreateArchive
<1>9. ASSUME NEW w \in Workers, CreateFails(w) PROVE BackupsInv'
  BY <1>9, WorkerMovesOn DEF CreateFails, Resting
<1>10. ASSUME NEW w \in Workers, RecordBackupHistory(w) PROVE BackupsInv'
  <2> DEFINE id == IF history = {} THEN 1 ELSE Max({r.id : r \in history}) + 1
             new == [id |-> id, path |-> workers[w].path]
             next == IF workers[w].row = NoRequest THEN [at |-> "prune"]
                     ELSE [at |-> "finish", row |-> workers[w].row, status |-> "done"]
  <2>1. /\ Recording(w) /\ history' = history \union {new}
        /\ workers' = [workers EXCEPT ![w] = next]
        /\ UNCHANGED <<disk, collided, cutPrune>>
    BY <1>10 DEF RecordBackupHistory
  <2>2. new.path = workers[w].path /\ next.at \in {"prune", "finish"}
    OBVIOUS
  <2> HIDE DEF new, next
  <2> QED
    BY <2>1, <2>2
<1>11. ASSUME NEW w \in Workers, FinishRequest(w) PROVE BackupsInv'
  BY <1>11, WorkerMovesOn DEF FinishRequest, Resting
<1>12. ASSUME NEW w \in Workers, PruneBackups(w) PROVE BackupsInv'
  BY <1>12 DEF PruneBackups
<1>13. ASSUME NEW w \in Workers, ForgetPruned(w) PROVE BackupsInv'
  BY <1>13 DEF ForgetPruned, Resting
<1>14. ASSUME NEW w \in Workers, KillBackupWorker(w) PROVE BackupsInv'
  BY <1>14 DEF KillBackupWorker, Resting
<1>15. ASSUME NEW path \in 1..MaxSeconds, DeleteBackup(path) PROVE BackupsInv'
  BY <1>15 DEF DeleteBackup
<1>16. CASE SecondPasses
  BY <1>16 DEF SecondPasses
<1>17. CASE UNCHANGED backupsVars
  BY <1>17 DEF backupsVars
<1> QED
  BY <1>1, <1>2, <1>3, <1>4, <1>5, <1>6, <1>7, <1>8, <1>9, <1>10, <1>11, <1>12, <1>13, <1>14, <1>15,
     <1>16, <1>17 DEF BackupsNext

\* What the history lists is on disk, for every retention count and any number of
\* scheduled and requested backups, pruned and deleted in any order.
THEOREM ListedRestorable == BackupsSpec => []ListedIsOnDisk
<1>1. BackupsInv => ListedIsOnDisk
  BY DEF BackupsInv
<1> QED
  BY <1>1, BackupsInitInv, BackupsNextInv, PTL DEF BackupsSpec

----------------------------------------------------------------------------
(* Import.                                                                 *)

Rows == [rule : {Missing, "job", "operator"}, record : {Missing, "job", "operator"},
         access : {Missing, "job"}, source : {Missing, "old", "other", "new"},
         policy : {"allow", "deny"}]
Info == [records : SUBSET {"record", "access"}, added : BOOLEAN,
         replaced : {Missing, "old", "other", "new"}, policy : {Missing, "allow", "deny"}]

ImportTypeOK ==
    /\ tables \in Rows /\ found \in Rows
    /\ job \in [kind : {"migration", "rows"}, policy : {Missing, "deny"},
                status : {Missing, "previewed", "canceled", "failed", "applied", "deploy_failed",
                          "rolled_back"},
                info : Info]
    /\ applying.at \in {"idle", "backup", "access", "record", "insert", "rows", "deploy"}
    /\ applying.at \in {"access", "record"} => applying.info \in Info
    /\ applying.at = "rows" => applying.records \subseteq {"record"}
    /\ thread.at = "rollback" => thread.info \in Info
    /\ commits \in Nat /\ pristine \in BOOLEAN

\* Undoing goes back to what the job found.
Exact(info) == UndoneTables(tables, info) = found

\* Before the first commit the tables hold nothing of the job, which remembers
\* nothing; a job that was not uploaded does nothing.
NothingYet ==
    /\ commits = 0 => tables.rule # "job" /\ job.info = NoInfo
    /\ commits = 0 /\ job.kind = "migration" =>
         thread.at # "rollback" /\ job.status \notin {"applied", "deploy_failed", "rolled_back"}
    /\ job.status = Missing => commits = 0 /\ applying.at = "idle" /\ thread.at = "idle"
    /\ applying.at \in {"backup", "access", "record"} => job.kind = "migration"
    /\ applying.at \in {"insert", "rows"} => job.kind = "rows"
    /\ applying.at \in {"access", "record", "insert", "rows", "deploy"} => commits > 0

\* What a rollback would use undoes the only commit exactly: what the apply
\* is about to record, what the job remembers, what a rollback has read.
Undoing == pristine =>
    /\ commits = 1
    /\ applying.at \in {"access", "record", "insert", "rows"} =>
         job.status \notin {"applied", "deploy_failed", "rolled_back"}
    /\ applying.at \in {"access", "record", "insert", "rows", "deploy"} => thread.at # "rollback"
    /\ applying.at \in {"access", "record"} => Exact(applying.info)
    /\ applying.at = "insert" => tables = found /\ job.info = NoInfo /\ Exact(NoInfo)
    /\ applying.at = "rows" =>
         job.info = NoInfo /\ Exact([NoInfo EXCEPT !.records = applying.records])
    /\ applying.at = "deploy" => Exact(job.info)
    /\ applying.at \in {"idle", "backup"} =>
         (job.kind = "rows" \/ job.status \in {"applied", "deploy_failed"} => Exact(job.info))
    /\ thread.at = "rollback" => thread.info = job.info /\ Exact(thread.info)
    /\ job.status = "rolled_back" => tables = found

ImportInv == ImportTypeOK /\ NothingYet /\ Undoing

LEMMA UndoneFields ==
    ASSUME NEW t \in Rows, NEW i \in Info
    PROVE  /\ UndoneTables(t, i) =
                [rule |-> IF t.rule = "job" THEN Missing ELSE t.rule,
                 record |-> IF "record" \in i.records THEN Missing ELSE t.record,
                 access |-> IF "access" \in i.records THEN Missing ELSE t.access,
                 source |-> IF i.added THEN Missing
                            ELSE IF i.replaced # Missing /\ t.source # Missing THEN i.replaced
                            ELSE t.source,
                 policy |-> IF i.policy # Missing THEN i.policy ELSE t.policy]
           /\ UndoneTables(t, i) \in Rows
<1>1. ASSUME NEW u, u = UndoneTables(t, i)
      PROVE  u =
        [rule |-> IF t.rule = "job" THEN Missing ELSE t.rule,
         record |-> IF "record" \in i.records THEN Missing ELSE t.record,
         access |-> IF "access" \in i.records THEN Missing ELSE t.access,
         source |-> IF i.added THEN Missing
                    ELSE IF i.replaced # Missing /\ t.source # Missing THEN i.replaced
                    ELSE t.source,
         policy |-> IF i.policy # Missing THEN i.policy ELSE t.policy]
  BY <1>1 DEF UndoneTables, Rows
<1>2. UndoneTables(t, i) \in Rows
  BY <1>1 DEF Rows, Info, Missing
<1> QED
  BY <1>1, <1>2

\* Undoing twice is undoing once.
LEMMA UndoIdempotent ==
    ASSUME NEW t \in Rows, NEW i \in Info
    PROVE  UndoneTables(UndoneTables(t, i), i) = UndoneTables(t, i)
<1> DEFINE u == UndoneTables(t, i)
<1>1. u \in Rows
  BY UndoneFields
<1>2. /\ u.rule # "job"
      /\ "record" \in i.records => u.record = Missing
      /\ "access" \in i.records => u.access = Missing
      /\ i.added => u.source = Missing
      /\ ~i.added /\ i.replaced # Missing /\ u.source # Missing => u.source = i.replaced
      /\ i.policy # Missing => u.policy = i.policy
  BY UndoneFields DEF Rows, Missing
<1> HIDE DEF u
<1>3. UndoneTables(u, i) = [rule |-> u.rule, record |-> u.record, access |-> u.access,
                            source |-> u.source, policy |-> u.policy]
  BY <1>1, <1>2, UndoneFields
<1>4. u = [rule |-> u.rule, record |-> u.record, access |-> u.access,
           source |-> u.source, policy |-> u.policy]
  BY <1>1 DEF Rows
<1> QED
  BY <1>3, <1>4 DEF u

LEMMA NoInfoOK == NoInfo \in Info /\ [NoInfo EXCEPT !.records = {"record"}] \in Info
  BY DEF NoInfo, Info, Missing

\* With nothing remembered only a rule of the job would go.
LEMMA NothingToUndo ==
    ASSUME NEW t \in Rows, t.rule # "job"
    PROVE  UndoneTables(t, NoInfo) = t
<1>1. UndoneTables(t, NoInfo) = [rule |-> t.rule, record |-> t.record, access |-> t.access,
                                 source |-> t.source, policy |-> t.policy]
  BY NoInfoOK, UndoneFields DEF NoInfo, Missing
<1>2. t = [rule |-> t.rule, record |-> t.record, access |-> t.access,
           source |-> t.source, policy |-> t.policy]
  BY DEF Rows
<1> QED
  BY <1>1, <1>2

LEMMA InsertedIsUndone ==
    ASSUME NEW t \in Rows, t.rule # "job", t.record = Missing
    PROVE  UndoneTables([t EXCEPT !.record = "job"], [NoInfo EXCEPT !.records = {"record"}]) = t
<1> DEFINE i == [NoInfo EXCEPT !.records = {"record"}]
           u == [t EXCEPT !.record = "job"]
<1>1. u \in Rows /\ u = [rule |-> t.rule, record |-> "job", access |-> t.access,
                         source |-> t.source, policy |-> t.policy]
  BY DEF Rows
<1>2. ASSUME NEW j, j = i
      PROVE  j = [records |-> {"record"}, added |-> FALSE, replaced |-> Missing, policy |-> Missing]
  BY <1>2 DEF NoInfo
<1>3. t = [rule |-> t.rule, record |-> Missing, access |-> t.access,
           source |-> t.source, policy |-> t.policy]
  BY DEF Rows
<1>4. i \in Info
  BY NoInfoOK
<1> HIDE DEF i, u
<1>5. "record" \in i.records /\ "access" \notin i.records /\ ~i.added
      /\ i.replaced = Missing /\ i.policy = Missing
  BY <1>2
<1>6. UndoneTables(u, i) = [rule |-> t.rule, record |-> Missing, access |-> t.access,
                            source |-> t.source, policy |-> t.policy]
  BY <1>1, <1>4, <1>5, UndoneFields
<1> QED
  BY <1>3, <1>6 DEF i, u

\* What an apply remembers undoes it, if the tables held no rule of the job before.
LEMMA AppliedIsUndone ==
    ASSUME ImportTypeOK, NEW selected
    PROVE  /\ AppliedTables(selected) \in Rows /\ RollbackInfo(selected) \in Info
           /\ tables.rule # "job" =>
                UndoneTables(AppliedTables(selected), RollbackInfo(selected)) = tables
<1> DEFINE i == RollbackInfo(selected)
           u == AppliedTables(selected)
<1>1. i \in Info
  BY DEF RollbackInfo, Info, ImportTypeOK, Rows, Missing
<1>2. ASSUME NEW v, v = u
      PROVE  v =
          [rule |-> IF "rule" \in selected THEN Inserted(tables.rule) ELSE tables.rule,
           record |-> IF "record" \in selected THEN Inserted(tables.record) ELSE tables.record,
           access |-> IF "access" \in selected THEN Inserted(tables.access) ELSE tables.access,
           source |-> IF "source" \in selected THEN SourceAfter ELSE tables.source,
           policy |-> IF job.policy # Missing THEN job.policy ELSE tables.policy]
  BY <1>2 DEF AppliedTables, ImportTypeOK, Rows
<1>3. u \in Rows
  BY <1>2 DEF Rows, ImportTypeOK, Inserted, SourceAfter, Missing
<1>4. tables = [rule |-> tables.rule, record |-> tables.record, access |-> tables.access,
                source |-> tables.source, policy |-> tables.policy]
  BY DEF Rows, ImportTypeOK
<1> HIDE DEF i, u
<1>5. tables.rule # "job" => (IF u.rule = "job" THEN Missing ELSE u.rule) = tables.rule
  BY <1>2 DEF Inserted, Missing, ImportTypeOK, Rows
<1>6. /\ (IF "record" \in i.records THEN Missing ELSE u.record) = tables.record
      /\ (IF "access" \in i.records THEN Missing ELSE u.access) = tables.access
  BY <1>2 DEF i, RollbackInfo, Inserted, Missing, ImportTypeOK, Rows
<1>7. (IF i.added THEN Missing
       ELSE IF i.replaced # Missing /\ u.source # Missing THEN i.replaced ELSE u.source) = tables.source
  <2>1. /\ i.added = ("source" \in selected /\ tables.source = Missing)
        /\ i.replaced = IF "source" \in selected /\ tables.source \notin {Missing, "other"}
                        THEN tables.source ELSE Missing
    BY DEF i, RollbackInfo
  <2>2. u.source = IF "source" \in selected THEN SourceAfter ELSE tables.source
    BY <1>2
  <2> QED
    BY <2>1, <2>2 DEF SourceAfter, Missing
<1>8. (IF i.policy # Missing THEN i.policy ELSE u.policy) = tables.policy
  BY <1>2 DEF i, RollbackInfo, Missing, ImportTypeOK, Rows
<1> QED
  BY <1>1, <1>3, <1>4, <1>5, <1>6, <1>7, <1>8, UndoneFields DEF i, u

LEMMA ImportInitInv == ImportInit => ImportInv
<1> SUFFICES ASSUME ImportInit PROVE ImportInv
  OBVIOUS
<1>1. tables \in Rows /\ found \in Rows /\ NoInfo \in Info
  BY DEF ImportInit, Rows, Info, NoInfo, Missing
<1> QED
  BY <1>1 DEF ImportInit, ImportInv, ImportTypeOK, NothingYet, Undoing, Missing, Idle

LEMMA ImportNextInv == ImportInv /\ [ImportNext]_importVars => ImportInv'
<1> SUFFICES ASSUME ImportInv, [ImportNext]_importVars PROVE ImportInv'
  OBVIOUS
<1> USE DEF ImportInv, ImportTypeOK, NothingYet, Undoing, LoopFree, Missing
<1>1. ASSUME NEW k \in {"migration", "rows"}, NEW q \in {Missing, "deny"}, Upload(k, q) PROVE ImportInv'
  <2>1. job' = [kind |-> k, policy |-> q, status |-> "previewed", info |-> job.info]
    BY <1>1 DEF Upload
  <2>2. job.status = Missing /\ UNCHANGED <<tables, applying, thread, commits, found, pristine>>
    BY <1>1 DEF Upload
  <2>3. ~pristine
    BY <2>2
  <2> QED
    BY <2>1, <2>2, <2>3
<1>2. CASE Remap
  BY <1>2 DEF Remap, Exact
<1>3. CASE CancelReads
  BY <1>3 DEF CancelReads, Exact
<1>4. CASE CancelWrites
  BY <1>4 DEF CancelWrites, Idle, Exact
<1>5. ASSUME NEW z \in SUBSET Migration, ApplyMigration(z) PROVE ImportInv'
  BY <1>5 DEF ApplyMigration, Exact
<1>6. CASE PreImportBackupFails
  BY <1>6 DEF PreImportBackupFails, Idle, Exact
<1>7. CASE CommitImport
  <2> DEFINE info == RollbackInfo(applying.selected)
             done == AppliedTables(applying.selected)
  <2>1. /\ applying.at = "backup" /\ tables' = done /\ found' = tables /\ commits' = commits + 1
        /\ pristine' = (commits = 0 /\ thread.at # "rollback")
        /\ UNCHANGED <<job, thread>>
    BY <1>7 DEF CommitImport, Committed
  <2>2. \E at \in {"access", "record"} : applying' = [at |-> at, info |-> info]
    BY <1>7 DEF CommitImport
  <2>3. info \in Info /\ done \in Rows
    BY AppliedIsUndone
  <2>4. commits = 0 => UndoneTables(done, info) = tables
    BY AppliedIsUndone
  <2> HIDE DEF info, done
  <2>5. applying'.at \in {"access", "record"} /\ applying'.info = info
    BY <2>2
  <2>6. pristine' \in BOOLEAN /\ (pristine' => commits = 0 /\ thread.at # "rollback")
    BY <2>1
  <2>7. ImportTypeOK' /\ NothingYet'
    BY <2>1, <2>3, <2>5, <2>6
  <2>8. Undoing'
    <3> SUFFICES ASSUME pristine' PROVE Undoing'
      BY DEF Undoing
    <3>1. commits' = 1
      BY <2>1, <2>6
    <3>2. Exact(applying.info)'
      BY <2>1, <2>4, <2>5, <2>6 DEF Exact
    <3>3. job.status # "rolled_back"
      BY <2>1, <2>6
    <3> QED
      BY <2>1, <2>5, <2>6, <3>1, <3>2, <3>3
  <2> QED
    BY <2>7, <2>8
<1>8. CASE ApplyRaises
  BY <1>8 DEF ApplyRaises, Idle, Exact
<1>9. CASE DeployImportedAccess
  <2>1. applying.at = "access" /\ UNCHANGED <<tables, thread, commits, found, pristine>>
    BY <1>9 DEF DeployImportedAccess
  <2>2. CASE applying' = [applying EXCEPT !.at = "record"] /\ UNCHANGED job
    <3>1. applying'.at = "record" /\ applying'.info = applying.info
      BY <2>1, <2>2
    <3> QED
      BY <2>1, <2>2, <3>1 DEF Exact
  <2>3. CASE applying' = Idle /\ job' = [job EXCEPT !.status = "failed"]
    <3>1. job' = [kind |-> job.kind, policy |-> job.policy, status |-> "failed", info |-> job.info]
      BY <2>3
    <3> QED
      BY <2>1, <2>3, <3>1 DEF Idle
  <2> QED
    BY <1>9, <2>2, <2>3 DEF DeployImportedAccess
<1>10. CASE RecordApplied
  <2>1. job' = [kind |-> job.kind, policy |-> job.policy, status |-> "applied", info |-> applying.info]
    BY <1>10 DEF RecordApplied
  <2>2. /\ applying.at = "record" /\ applying' = [at |-> "deploy"]
        /\ UNCHANGED <<tables, thread, commits, found, pristine>>
    BY <1>10 DEF RecordApplied
  <2> QED
    BY <2>1, <2>2 DEF Exact
<1>11. CASE DeployImport
  <2>1. /\ applying.at = "deploy" /\ applying' = Idle
        /\ UNCHANGED <<tables, thread, commits, found, pristine>>
    BY <1>11 DEF DeployImport
  <2>2. CASE UNCHANGED job
    BY <2>1, <2>2 DEF Exact, Idle
  <2>3. CASE job.kind = "migration" /\ job' = [job EXCEPT !.status = "deploy_failed"]
    <3>1. job' = [kind |-> job.kind, policy |-> job.policy, status |-> "deploy_failed", info |-> job.info]
      BY <2>3
    <3> QED
      BY <2>1, <2>3, <3>1 DEF Exact, Idle
  <2> QED
    BY <1>11, <2>2, <2>3 DEF DeployImport
<1>12. ASSUME NEW q \in {"skip", "merge", "replace"}, ApplyRows(q) PROVE ImportInv'
  <2>1. job' = [kind |-> job.kind, policy |-> job.policy, status |-> "previewed", info |-> job.info]
    BY <1>12 DEF ApplyRows
  <2>2. /\ LoopFree /\ job.kind = "rows" /\ applying' = [at |-> "insert"] /\ UNCHANGED thread
        /\ commits' = commits + 1 /\ found' = tables
        /\ pristine' = (q # "replace" /\ commits = 0 /\ thread.at # "rollback")
    BY <1>12 DEF ApplyRows, Committed
  <2>3. tables' \in Rows /\ (q # "replace" => tables' = tables)
    BY <1>12 DEF ApplyRows, Rows
  <2>4. ImportTypeOK' /\ NothingYet'
    BY <2>1, <2>2, <2>3
  <2>5. ASSUME pristine' PROVE tables' = found' /\ job'.info = NoInfo /\ Exact(NoInfo)'
    <3>1. tables' = tables /\ found' = tables /\ job'.info = NoInfo /\ tables.rule # "job"
      BY <2>1, <2>2, <2>3, <2>5
    <3>2. UndoneTables(tables, NoInfo) = tables
      BY <3>1, NothingToUndo
    <3> QED
      BY <3>1, <3>2 DEF Exact
  <2>6. Undoing'
    <3> SUFFICES ASSUME pristine' PROVE Undoing'
      BY DEF Undoing
    <3>1. commits = 0 /\ thread.at # "rollback"
      BY <2>2
    <3>2. commits' = 1 /\ thread'.at # "rollback"
      BY <2>2, <3>1
    <3>3. job'.status = "previewed" /\ applying'.at = "insert"
      BY <2>1, <2>2
    <3> QED
      BY <2>5, <3>2, <3>3
  <2> QED
    BY <2>4, <2>6
<1>13. CASE InsertRow
  <2>1. applying.at = "insert" /\ UNCHANGED <<job, thread, commits, found, pristine>>
    BY <1>13 DEF InsertRow
  <2>2. CASE /\ tables.record = Missing
             /\ tables' = [tables EXCEPT !.record = "job"]
             /\ applying' = [at |-> "rows", records |-> {"record"}]
    <3>1. tables' \in Rows
      BY <2>2 DEF Rows
    <3>2. tables'.rule = tables.rule
      BY <2>2 DEF Rows
    <3>3. ASSUME pristine PROVE Exact([NoInfo EXCEPT !.records = applying.records])'
      <4>1. tables = found /\ tables.rule # "job"
        BY <2>1, <3>3, UndoneFields, NoInfoOK DEF Exact, Rows
      <4> QED
        BY <2>1, <2>2, <4>1, InsertedIsUndone DEF Exact
    <3> QED
      BY <2>1, <2>2, <3>1, <3>2, <3>3
  <2>3. CASE UNCHANGED tables /\ applying' = [at |-> "rows", records |-> {}]
    <3>1. NoInfo = [NoInfo EXCEPT !.records = {}]
      BY DEF NoInfo
    <3> QED
      BY <2>1, <2>3, <3>1 DEF Exact
  <2> QED
    BY <1>13, <2>2, <2>3 DEF InsertRow
<1>14. CASE RecordRows
  <2>1. /\ applying.at = "rows" /\ applying' = [at |-> "deploy"]
        /\ UNCHANGED <<tables, thread, commits, found, pristine>>
    BY <1>14 DEF RecordRows
  <2> DEFINE i == [job.info EXCEPT !.records = applying.records]
  <2>2. job' = [kind |-> job.kind, policy |-> job.policy, status |-> "applied", info |-> i]
    BY <1>14 DEF RecordRows
  <2>3. i \in Info
    BY <2>1 DEF Info
  <2>4. job.info = NoInfo => i = [NoInfo EXCEPT !.records = applying.records]
    OBVIOUS
  <2> HIDE DEF i
  <2> QED
    BY <2>1, <2>2, <2>3, <2>4 DEF Exact
<1>15. CASE RollbackReads
  BY <1>15 DEF RollbackReads, Exact
<1>16. CASE RollbackCommits
  <2>1. /\ thread.at = "rollback" /\ thread' = Idle /\ tables' = UndoneTables(tables, thread.info)
        /\ UNCHANGED <<applying, commits, found, pristine>>
    BY <1>16 DEF RollbackCommits
  <2>2. job' = [kind |-> job.kind, policy |-> job.policy, status |-> "rolled_back", info |-> job.info]
    BY <1>16 DEF RollbackCommits
  <2>3. tables' \in Rows /\ tables'.rule # "job"
    BY <2>1, UndoneFields DEF Rows
  <2>4. pristine => tables' = found /\ Exact(job.info)'
    BY <2>1, <2>2, UndoIdempotent DEF Exact
  <2>5. ImportTypeOK' /\ NothingYet'
    BY <2>1, <2>2, <2>3 DEF Idle
  <2>6. Undoing'
    BY <2>1, <2>2, <2>4 DEF Idle
  <2> QED
    BY <2>5, <2>6
<1>17. CASE OperatorEdits
  <2>1. pristine' = FALSE /\ UNCHANGED <<job, applying, thread, commits, found>>
    BY <1>17 DEF OperatorEdits
  <2>2. CASE \E k \in {"rule", "record"}, o \in {Missing, "operator"} :
                tables' = [tables EXCEPT ![k] = o]
    <3>1. PICK k \in {"rule", "record"}, o \in {Missing, "operator"} :
                tables' = [tables EXCEPT ![k] = o]
      BY <2>2
    <3>2. tables' \in Rows /\ (tables'.rule = tables.rule \/ tables'.rule = o)
      BY <3>1 DEF Rows
    <3> QED
      BY <2>1, <3>2
  <2>3. CASE \E v \in {Missing, "old", "other"} : tables' = [tables EXCEPT !.source = v]
    <3>1. tables' \in Rows /\ tables'.rule = tables.rule
      BY <2>3 DEF Rows
    <3> QED
      BY <2>1, <3>1
  <2> QED
    BY <1>17, <2>2, <2>3 DEF OperatorEdits
<1>18. CASE KillImport
  <2>1. /\ applying' = Idle /\ thread' = Idle /\ pristine' = (pristine /\ applying.at # "rows")
        /\ UNCHANGED <<tables, job, commits, found>>
    BY <1>18 DEF KillImport
  <2>2. pristine' \in BOOLEAN /\ (pristine' => pristine /\ applying.at # "rows")
    BY <2>1
  <2>3. applying.at \in {"idle", "backup", "access", "record", "insert", "rows", "deploy"}
    OBVIOUS
  <2>4. ImportTypeOK' /\ NothingYet'
    BY <2>1, <2>2 DEF Idle
  <2>5. Undoing'
    BY <2>1, <2>2, <2>3 DEF Idle, Exact
  <2> QED
    BY <2>4, <2>5
<1>19. CASE UNCHANGED importVars
  BY <1>19 DEF importVars, Exact
<1> QED
  BY <1>1, <1>2, <1>3, <1>4, <1>5, <1>6, <1>7, <1>8, <1>9, <1>10, <1>11, <1>12, <1>13, <1>14,
     <1>15, <1>16, <1>17, <1>18, <1>19 DEF ImportNext

\* Rolling a job back that wrote once to tables nobody edited since gives back what
\* it found, for any number of attempts, cancellations, kills and failed deploys.
THEOREM UndoIsExact == ImportSpec => []UndoExact
<1>1. ImportInv => UndoExact
  BY DEF ImportInv, Undoing, UndoExact
<1> QED
  BY <1>1, ImportInitInv, ImportNextInv, PTL DEF ImportSpec
=============================================================================
