------------------------------- MODULE Backups -------------------------------
(***************************************************************************)
(* Creating and keeping backups (app/backup.py, the backup commands of     *)
(* app/alderpointdns_compiler.py, the /backup routes of app/webapp.py): *)
(* the web process queues a request, its password in a file; a root        *)
(* command takes the newest request; the backup timer runs the same        *)
(* command.  A restore request is taken by a unit that the route starts    *)
(* without waiting; what it does is module Restore.                        *)
(*                                                                         *)
(* The routes that queue requests block the event loop.  Uploading is      *)
(* module Uploads.                                                         *)
(***************************************************************************)
EXTENDS Naturals, Sequences, FiniteSets, FiniteSetsExt

CONSTANTS MaxBackupRequests, MaxBackups, MaxBackupKills,
          MaxSeconds,      \* file names carry the second
          RetentionCount   \* retention_count

ASSUME BackupsAssumption ==
    /\ {MaxBackupRequests, MaxBackups, MaxBackupKills} \subseteq Nat
    /\ {MaxSeconds, RetentionCount} \subseteq Nat \ {0}

Workers == {"web", "timer", "restore"}
KindOf(w) == IF w = "restore" THEN "restore" ELSE "create"
NoRequest == 0
Resting == [at |-> "idle"]

VARIABLES requests,      \* backup_requests, by id
          passwordFile,  \* the request whose password the file of a kind holds
          route,         \* the request being queued by the web process
          workers,
          history,       \* backup_history: the rows with status 'deployed'
          disk,          \* archives in BACKUP_DIR, by the second in their name
          second, made, backupKills,
          collided,      \* two archives had one name
          cutPrune       \* a prune, delete or create was cut between file and row

backupsVars == <<requests, passwordFile, route, workers, history, disk, second, made,
                 backupKills, collided, cutPrune>>

BackupsInit ==
    /\ requests = <<>>
    /\ passwordFile = [k \in {"create", "restore"} |-> NoRequest]
    /\ route = Resting
    /\ workers = [w \in Workers |-> Resting]
    /\ history = {}
    /\ disk = {}
    /\ second = 1 /\ made = 0 /\ backupKills = 0
    /\ collided = FALSE /\ cutPrune = FALSE

----------------------------------------------------------------------------
(* The web process queues a request.                                       *)

\* request_backup: the row is committed, then the password is written or an
\* older password removed.
RequestBackup(kind, encrypted) ==
    /\ route.at = "idle" /\ Len(requests) < MaxBackupRequests
    /\ requests' = Append(requests, [kind |-> kind, status |-> "pending"])
    /\ route' = [at |-> "password", kind |-> kind, encrypted |-> encrypted]
    /\ UNCHANGED <<passwordFile, workers, history, disk, second, made, backupKills, collided,
                   cutPrune>>

\* Then the create route waits for backup-create; the restore route starts
\* the unit, which is nothing when the unit runs.
StartWorker ==
    /\ route.at = "password"
    /\ passwordFile' = [passwordFile EXCEPT
                           ![route.kind] = IF route.encrypted THEN Len(requests) ELSE NoRequest]
    /\ LET w == IF route.kind = "create" THEN "web" ELSE "restore"
       IN  /\ workers' = IF workers[w].at = "idle" THEN [workers EXCEPT ![w] = [at |-> "pick"]]
                         ELSE workers
           /\ route' = IF w = "web" THEN [at |-> "wait"] ELSE Resting
    /\ UNCHANGED <<requests, history, disk, second, made, backupKills, collided, cutPrune>>

RouteReturns ==
    /\ route.at = "wait" /\ workers["web"].at = "idle"
    /\ route' = Resting
    /\ UNCHANGED <<requests, passwordFile, workers, history, disk, second, made, backupKills,
                   collided, cutPrune>>

\* The timer, which also stands for the backup before an import.
TimerStarts ==
    /\ workers["timer"].at = "idle" /\ made < MaxBackups
    /\ workers' = [workers EXCEPT !["timer"] = [at |-> "pick"]]
    /\ UNCHANGED <<requests, passwordFile, route, history, disk, second, made, backupKills,
                   collided, cutPrune>>

----------------------------------------------------------------------------
(* process_pending_request and backup_create, as root.                     *)

PendingOf(kind) == {i \in DOMAIN requests : requests[i].kind = kind /\ requests[i].status = "pending"}

\* The newest pending row; without one a create falls back to the stored
\* components and a restore ends.
PickRequest(w) ==
    /\ workers[w].at = "pick"
    /\ LET found == PendingOf(KindOf(w))
       IN  workers' = [workers EXCEPT ![w] =
               IF found # {} THEN [at |-> "password", row |-> Max(found)]
               ELSE IF w = "restore" THEN Resting
               ELSE [at |-> "create", row |-> NoRequest]]
    /\ UNCHANGED <<requests, passwordFile, route, history, disk, second, made, backupKills,
                   collided, cutPrune>>

\* _consume_password reads and removes the file.
ConsumePassword(w) ==
    /\ workers[w].at = "password"
    /\ passwordFile' = [passwordFile EXCEPT ![KindOf(w)] = NoRequest]
    /\ workers' = [workers EXCEPT ![w] = [at |-> "create", row |-> workers[w].row]]
    /\ UNCHANGED <<requests, route, history, disk, second, made, backupKills, collided,
                   cutPrune>>

\* create_backup up to os.replace: the archive appears under its final name
\* in one step, over one of the same name.
CreateArchive(w) ==
    /\ workers[w].at = "create" /\ w # "restore" /\ made < MaxBackups
    /\ made' = made + 1
    /\ disk' = disk \cup {second}
    /\ collided' = (collided \/ second \in disk \/ \E r \in history : r.path = second)
    /\ workers' = [workers EXCEPT ![w] = [at |-> "record", row |-> workers[w].row, path |-> second]]
    /\ UNCHANGED <<requests, passwordFile, route, history, second, backupKills, cutPrune>>

\* Copying, tar or openssl fails: a 'failed' row without a path.  A fallback
\* create ends here, a request is finished.
CreateFails(w) ==
    /\ workers[w].at = "create" /\ w # "restore"
    /\ workers' = [workers EXCEPT ![w] =
                      IF workers[w].row = NoRequest THEN Resting
                      ELSE [at |-> "finish", row |-> workers[w].row, status |-> "failed"]]
    /\ UNCHANGED <<requests, passwordFile, route, history, disk, second, made, backupKills,
                   collided, cutPrune>>

\* _record_backup_history; only the fallback prunes.
RecordBackupHistory(w) ==
    /\ workers[w].at = "record"
    /\ history' = history \cup {[id |-> IF history = {} THEN 1 ELSE Max({r.id : r \in history}) + 1,
                                 path |-> workers[w].path]}
    /\ workers' = [workers EXCEPT ![w] =
                      IF workers[w].row = NoRequest THEN [at |-> "prune"]
                      ELSE [at |-> "finish", row |-> workers[w].row, status |-> "done"]]
    /\ UNCHANGED <<requests, passwordFile, route, disk, second, made, backupKills, collided,
                   cutPrune>>

\* restore_backup of the restore unit.
RestoreRuns ==
    /\ workers["restore"].at = "create"
    /\ \E s \in {"done", "failed"} :
          workers' = [workers EXCEPT !["restore"] =
                         [at |-> "finish", row |-> workers["restore"].row, status |-> s]]
    /\ UNCHANGED <<requests, passwordFile, route, history, disk, second, made, backupKills,
                   collided, cutPrune>>

\* The row gets its outcome and every other pending row of the kind is
\* skipped.
FinishRequest(w) ==
    /\ workers[w].at = "finish"
    /\ requests' = [i \in DOMAIN requests |->
                      IF i = workers[w].row THEN [requests[i] EXCEPT !.status = workers[w].status]
                      ELSE IF i \in PendingOf(KindOf(w)) THEN [requests[i] EXCEPT !.status = "skipped"]
                      ELSE requests[i]]
    /\ workers' = [workers EXCEPT ![w] = Resting]
    /\ UNCHANGED <<passwordFile, route, history, disk, second, made, backupKills, collided,
                   cutPrune>>

----------------------------------------------------------------------------
(* Retention and deletion: the files go first, then the rows.              *)

Newer(r) == {q \in history : q.id > r.id}

PruneBackups(w) ==
    /\ workers[w].at = "prune"
    /\ LET doomed == {r \in history : Cardinality(Newer(r)) >= RetentionCount}
       IN  /\ disk' = disk \ {r.path : r \in doomed}
           /\ workers' = [workers EXCEPT ![w] = [at |-> "forget", doomed |-> doomed]]
    /\ UNCHANGED <<requests, passwordFile, route, history, second, made, backupKills, collided,
                   cutPrune>>

\* Mistake: the deletions are not committed.
ForgetPruned_NoCommit(w) ==
    /\ workers[w].at = "forget"
    /\ workers' = [workers EXCEPT ![w] = Resting]
    /\ UNCHANGED <<requests, passwordFile, route, history, disk, second, made, backupKills,
                   collided, cutPrune>>

ForgetPruned(w) ==
    /\ workers[w].at = "forget"
    /\ history' = history \ workers[w].doomed
    /\ workers' = [workers EXCEPT ![w] = Resting]
    /\ UNCHANGED <<requests, passwordFile, route, disk, second, made, backupKills, collided,
                   cutPrune>>

\* delete_backup: the file, then the rows of its path; or not, when the
\* database refuses.
DeleteBackup(path) ==
    /\ path \in disk
    /\ disk' = disk \ {path}
    /\ \/ /\ history' = {r \in history : r.path # path}
          /\ cutPrune' = (cutPrune \/ \E w \in Workers : workers[w].at = "record")
       \/ /\ cutPrune' = TRUE
          /\ UNCHANGED history
    /\ UNCHANGED <<requests, passwordFile, route, workers, second, made, backupKills, collided>>

----------------------------------------------------------------------------
KillBackupWorker(w) ==
    /\ workers[w].at # "idle"
    /\ backupKills < MaxBackupKills /\ backupKills' = backupKills + 1
    /\ cutPrune' = (cutPrune \/ workers[w].at = "forget")
    /\ workers' = [workers EXCEPT ![w] = Resting]
    /\ UNCHANGED <<requests, passwordFile, route, history, disk, second, made, collided>>

SecondPasses ==
    /\ second < MaxSeconds
    /\ second' = second + 1
    /\ UNCHANGED <<requests, passwordFile, route, workers, history, disk, made, backupKills,
                   collided, cutPrune>>

BackupsNext ==
    \/ \E k \in {"create", "restore"}, e \in BOOLEAN : RequestBackup(k, e)
    \/ StartWorker \/ RouteReturns \/ TimerStarts \/ RestoreRuns
    \/ \E w \in Workers : \/ PickRequest(w) \/ ConsumePassword(w) \/ CreateArchive(w)
                          \/ CreateFails(w) \/ RecordBackupHistory(w) \/ FinishRequest(w)
                          \/ PruneBackups(w) \/ ForgetPruned(w) \/ KillBackupWorker(w)
    \/ \E p \in 1..MaxSeconds : DeleteBackup(p)
    \/ SecondPasses

BackupsSpec == BackupsInit /\ [][BackupsNext]_backupsVars

----------------------------------------------------------------------------
(***************************************************************************)
(* What the history lists can be restored: a row's archive is on disk,     *)
(* with a scheduled and a requested backup, pruning and deleting in any    *)
(* interleaving.  Excluded are two archives of one second, of which the    *)
(* second replaces the first or has the name of one that is being pruned,  *)
(* a prune or delete cut between the file and its row, and a delete while  *)
(* a row is being written.                                                 *)
(***************************************************************************)
ListedIsOnDisk ==
    \/ collided \/ cutPrune
    \/ \A r \in history : r.path \in disk
                          \/ \E w \in Workers : workers[w].at = "forget" /\ r \in workers[w].doomed
=============================================================================
