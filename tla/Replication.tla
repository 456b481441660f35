----------------------------- MODULE Replication -----------------------------
(***************************************************************************)
(* Generations of app/replication.py: the primary publishes one after each *)
(* successful deploy, a replica fetches the latest, replaces its own       *)
(* tables, deploys, and records and acknowledges it or restores what it    *)
(* had.  A pass is one call of replica_sync_once, by the poller thread or  *)
(* by a "Sync Now" request.  The content of generation n is the number n;  *)
(* 0 is what the replica was installed with.                               *)
(***************************************************************************)
EXTENDS Naturals

CONSTANTS
  Passes,      \* subset of {"poller", "manual"}; a manual pass is forced
  IncludeEnc,  \* include_encryption_settings of the primary
  Local,       \* a value an administrator of the replica saved
  Reset,       \* encryption settings that were deleted (defaults apply)
  MaxGens,     \* bound: generations published
  MaxCrashes,  \* bound: kills of a pass
  MaxEdits     \* bound: local edits on the replica

ASSUME ReplicationAssumption ==
  /\ Passes \subseteq {"poller", "manual"} /\ IncludeEnc \in BOOLEAN
  /\ MaxGens \in Nat /\ MaxCrashes \in Nat /\ MaxEdits \in Nat
  /\ Local \notin Nat /\ Reset \notin Nat

VARIABLES
  latest,       \* highest generation number on the primary
  acked,        \* last_generation_acked of the replica's row on the primary
  db,           \* the replica's replicated tables, clients and encryption settings
  live,         \* what its BIND and dnsdist were last deployed from
  lastApplied,  \* last_applied_generation (and the generation of last_applied_hash)
  paused,       \* replication_settings.paused
  drift,        \* drift_detected
  pc,           \* where each pass is
  seen,         \* last_applied_generation as the pass read it
  gen,          \* the generation it fetched
  snapshot,     \* _snapshot_replicable_tables
  before,       \* history: the replica's state when the pass began
  result,       \* result of the finished pass
  crashes, edits

vars == <<latest, acked, db, live, lastApplied, paused, drift, pc, seen, gen, snapshot,
          before, result, crashes, edits>>

Start0 == [tables |-> 0, clients |-> 0, enc |-> 0]

Init ==
  /\ latest = 0 /\ acked = 0
  /\ db = Start0 /\ live = Start0
  /\ lastApplied = 0
  /\ paused = FALSE /\ drift = FALSE
  /\ pc = [s \in Passes |-> "idle"]
  /\ seen = [s \in Passes |-> 0] /\ gen = [s \in Passes |-> 0]
  /\ snapshot = [s \in Passes |-> Start0]
  /\ before = [s \in Passes |-> [db |-> db, live |-> live]]
  /\ result = [s \in Passes |-> "none"]
  /\ crashes = 0 /\ edits = 0

End(s, res) ==
  /\ pc' = [pc EXCEPT ![s] = "idle"]
  /\ result' = [result EXCEPT ![s] = res]

\* on_deploy_success and create_generation: the next number, the current tables.
Publish ==
  /\ latest < MaxGens
  /\ latest' = latest + 1
  /\ UNCHANGED <<acked, db, live, lastApplied, paused, drift, pc, seen, gen, snapshot, before,
                 result, crashes, edits>>

\* The replica's administrator saves one of the sections, or pauses replication.
LocalEdit(section) ==
  /\ edits < MaxEdits
  /\ edits' = edits + 1
  /\ db' = [db EXCEPT ![section] = Local]
  /\ UNCHANGED <<latest, acked, live, lastApplied, paused, drift, pc, seen, gen, snapshot, before,
                 result, crashes>>

Pause ==
  /\ paused' = ~paused
  /\ UNCHANGED <<latest, acked, db, live, lastApplied, drift, pc, seen, gen, snapshot, before,
                 result, crashes, edits>>

\* A pass starts: the settings are read once.
Begin(s) ==
  /\ pc[s] = "idle"
  /\ seen' = [seen EXCEPT ![s] = lastApplied]
  /\ before' = [before EXCEPT ![s] = [db |-> db, live |-> live]]
  /\ IF paused /\ s = "poller"
       THEN End(s, "skipped")
       ELSE /\ pc' = [pc EXCEPT ![s] = "fetch"]
            /\ result' = [result EXCEPT ![s] = "none"]
  /\ UNCHANGED <<latest, acked, db, live, lastApplied, paused, drift, gen, snapshot, crashes, edits>>

\* fetch_latest_generation fails: primary down, certificate revoked.
FetchFails(s) ==
  /\ pc[s] = "fetch"
  /\ End(s, "unreachable")
  /\ UNCHANGED <<latest, acked, db, live, lastApplied, paused, drift, seen, gen, snapshot, before,
                 crashes, edits>>

\* The latest generation, unless there is none or it is not newer.
Fetch(s) ==
  /\ pc[s] = "fetch"
  /\ gen' = [gen EXCEPT ![s] = latest]
  /\ IF latest = 0 \/ (s = "poller" /\ latest <= seen[s])
       THEN End(s, IF latest = 0 THEN "no_generation" ELSE "up_to_date")
       ELSE pc' = [pc EXCEPT ![s] = "snapshot"] /\ UNCHANGED result
  /\ UNCHANGED <<latest, acked, db, live, lastApplied, paused, drift, seen, snapshot, before,
                 crashes, edits>>

Snapshot(s) ==
  /\ pc[s] = "snapshot"
  /\ snapshot' = [snapshot EXCEPT ![s] = db]
  /\ pc' = [pc EXCEPT ![s] = "apply"]
  /\ UNCHANGED <<latest, acked, db, live, lastApplied, paused, drift, seen, gen, before, result,
                 crashes, edits>>

\* _apply_sections, one transaction.  The encryption keys are deleted also when the
\* generation has none.
Apply(s) ==
  /\ pc[s] = "apply"
  /\ db' = [tables |-> gen[s], clients |-> gen[s], enc |-> IF IncludeEnc THEN gen[s] ELSE Reset]
  /\ pc' = [pc EXCEPT ![s] = "deploy"]
  /\ UNCHANGED <<latest, acked, live, lastApplied, paused, drift, seen, gen, snapshot, before,
                 result, crashes, edits>>

\* The generation has a newer schema or a wrong hash, or the transaction raises and is
\* rolled back.  (The primary is told; it records no generation for a failure.)
ApplyFails(s) ==
  /\ pc[s] \in {"snapshot", "apply"}
  /\ End(s, "failed")
  /\ UNCHANGED <<latest, acked, db, live, lastApplied, paused, drift, seen, gen, snapshot, before,
                 crashes, edits>>

\* deploy_fn: the compiler deploys what the database holds by then, or rolls back.
DeployOk(s) ==
  /\ pc[s] = "deploy"
  /\ live' = db
  /\ pc' = [pc EXCEPT ![s] = "record"]
  /\ UNCHANGED <<latest, acked, db, lastApplied, paused, drift, seen, gen, snapshot, before, result,
                 crashes, edits>>

DeployFails(s) ==
  /\ pc[s] = "deploy"
  /\ pc' = [pc EXCEPT ![s] = "restore"]
  /\ UNCHANGED <<latest, acked, db, live, lastApplied, paused, drift, seen, gen, snapshot, before,
                 result, crashes, edits>>

\* Mutant: the settings subset is not restored.
RestoredSections_TablesOnly(s) == [db EXCEPT !.tables = snapshot[s].tables]

\* _restore_snapshot: the snapshot has no clients section, so that one stays.
RestoredSections(s) == [db EXCEPT !.tables = snapshot[s].tables, !.enc = snapshot[s].enc]

Restore(s) ==
  /\ pc[s] = "restore"
  /\ db' = RestoredSections(s)
  /\ End(s, "failed")
  /\ UNCHANGED <<latest, acked, live, lastApplied, paused, drift, seen, gen, snapshot, before,
                 crashes, edits>>

\* Mutants: the newest number, or the one the pass started from, is recorded.
Record_Newest(s) ==
  /\ pc[s] = "record"
  /\ lastApplied' = latest
  /\ drift' = FALSE
  /\ pc' = [pc EXCEPT ![s] = "ack"]
  /\ UNCHANGED <<latest, acked, db, live, paused, seen, gen, snapshot, before, result, crashes, edits>>
Record_Seen(s) ==
  /\ pc[s] = "record"
  /\ lastApplied' = seen[s]
  /\ drift' = FALSE
  /\ pc' = [pc EXCEPT ![s] = "ack"]
  /\ UNCHANGED <<latest, acked, db, live, paused, seen, gen, snapshot, before, result, crashes, edits>>

Record(s) ==
  /\ pc[s] = "record"
  /\ lastApplied' = gen[s]
  /\ drift' = FALSE
  /\ pc' = [pc EXCEPT ![s] = "ack"]
  /\ UNCHANGED <<latest, acked, db, live, paused, seen, gen, snapshot, before, result, crashes, edits>>

\* The database stays locked: the catch-all handler ends the pass where it is.
LockedOut(s) ==
  /\ pc[s] \in {"snapshot", "restore", "record"}
  /\ End(s, "error")
  /\ UNCHANGED <<latest, acked, db, live, lastApplied, paused, drift, seen, gen, snapshot, before,
                 crashes, edits>>

\* ack_generation: the answer may never arrive, which is ignored.
Ack(s) ==
  /\ pc[s] = "ack"
  /\ acked' \in {acked, gen[s]}
  /\ End(s, "success")
  /\ UNCHANGED <<latest, db, live, lastApplied, paused, drift, seen, gen, snapshot, before,
                 crashes, edits>>

\* check_drift: the hash is recomputed without the encryption settings.
CheckDrift ==
  /\ drift' = (lastApplied # 0 /\ (IncludeEnc \/ db.tables # lastApplied \/ db.clients # lastApplied))
  /\ UNCHANGED <<latest, acked, db, live, lastApplied, paused, pc, seen, gen, snapshot, before,
                 result, crashes, edits>>

\* The replica's web service, which runs both kinds of pass, is killed.
Crash ==
  /\ crashes < MaxCrashes
  /\ \E s \in Passes : pc[s] # "idle"
  /\ crashes' = crashes + 1
  /\ pc' = [s \in Passes |-> "idle"]
  /\ result' = [s \in Passes |-> "none"]
  /\ UNCHANGED <<latest, acked, db, live, lastApplied, paused, drift, seen, gen, snapshot, before,
                 edits>>

Forward(s) == Fetch(s) \/ Snapshot(s) \/ Apply(s) \/ DeployOk(s) \/ Restore(s) \/ Record(s) \/ Ack(s)

Next ==
  \/ Publish \/ Pause \/ CheckDrift \/ Crash
  \/ \E section \in {"tables", "clients", "enc"} : LocalEdit(section)
  \/ \E s \in Passes : Begin(s) \/ FetchFails(s) \/ ApplyFails(s) \/ DeployFails(s) \/ LockedOut(s)
                       \/ Forward(s)

Spec == Init /\ [][Next]_vars

\* ReplicaPoller._loop starts a pass again and again, and what a pass needs (the
\* primary, the deploy, the database) works again and again if tried often enough.
FairSpec ==
  /\ Spec
  /\ \A s \in Passes \cap {"poller"} :
       /\ WF_vars(Begin(s))
       /\ SF_vars(Fetch(s)) /\ SF_vars(Snapshot(s)) /\ SF_vars(Apply(s))
       /\ SF_vars(DeployOk(s)) /\ SF_vars(Restore(s)) /\ SF_vars(Record(s)) /\ WF_vars(Ack(s))

-----------------------------------------------------------------------------
(* Properties. *)

\* The generation recorded last was completely applied and deployed by the pass that
\* recorded it, also after passes that were killed half way, and the primary never
\* believes the replica to be further than that.  Checked for the poller alone: a pass
\* that fails beside a Sync Now restores its snapshot over what the other applied and
\* then records.
RecordedIsDeployed ==
  /\ acked <= lastApplied
  /\ \A s \in Passes :
     result[s] = "success" /\ edits = 0 /\ (\A q \in Passes : pc[q] = "idle") =>
       /\ db.tables = lastApplied /\ db.clients = lastApplied
       /\ live.tables = lastApplied /\ live.clients = lastApplied

\* A failed pass leaves the replicated tables and settings, on disk and deployed, as
\* they were when it began (the clients section is the subject of another property).
FailedPassRestoresTables ==
  \A s \in Passes : result[s] = "failed" /\ edits = 0 =>
    db.tables = before[s].db.tables /\ db.enc = before[s].db.enc /\ live = before[s].live

\* A replica that is not paused for good catches up with the primary, after any
\* outage, failed deploy or kill, and serves what it recorded unless edited locally.
CatchesUp ==
  <>[]~paused => <>[](lastApplied = latest /\ (edits = 0 => live.tables = latest))

\* docs/progress.md: "A failed sync on the replica rolls back to its prior state rather
\* than applying a partial update".
FailedSyncRollsBack ==
  \A s \in Passes : result[s] = "failed" /\ edits = 0 => db = before[s].db
=============================================================================
