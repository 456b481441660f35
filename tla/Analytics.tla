----------------------------- MODULE Analytics -----------------------------
(***************************************************************************)
(* The analytics collector (app/analytics.py): connections that put query  *)
(* events into a bounded queue, and the writer thread that moves them to   *)
(* the aggregate buckets.  The poll thread is module Counters.             *)
(*                                                                         *)
(* Events are counted, not told apart; the buckets are summed over time.   *)
(* The attributes `dropped` and `writer_consecutive_failures` are shared   *)
(* by the threads without a lock.                                          *)
(***************************************************************************)
EXTENDS Naturals

CONSTANTS QueueSize,    \* maxsize of the queue
          MaxEvents,    \* events dnsdist sends
          WriterMaxConsecutiveFailures,
          MaxClears,    \* times the statistics are cleared
          MaxCollectorStarts

ASSUME AnalyticsAssumption ==
    /\ {QueueSize, MaxEvents, MaxClears, MaxCollectorStarts} \subseteq Nat
    /\ WriterMaxConsecutiveFailures \in Nat \ {0}

VARIABLES offered,    \* events sent so far
          queued,     \* the queue
          dropped,    \* Collector.dropped
          writer,     \* the writer thread: at, its batch, what it saw dropped
          failures,   \* Collector.writer_consecutive_failures
          heartbeat,  \* the heartbeat file: status, stale
          collector,  \* the unit: running, exited, failed
          starts,
          bucket,     \* analytics_aggregate_buckets: queries, telemetry_dropped
          clears

analyticsVars == <<offered, queued, dropped, writer, failures, heartbeat, collector, starts,
                   bucket, clears>>

Gathering == [at |-> "gather", batch |-> 0, saw |-> 0]

AnalyticsInit ==
    /\ offered = 0 /\ queued = 0 /\ dropped = 0
    /\ writer = Gathering
    /\ failures = 0
    /\ heartbeat = [status |-> "unknown", stale |-> FALSE]
    /\ collector = "running"
    /\ starts = 1
    /\ bucket = [queries |-> 0, telemetry |-> 0]
    /\ clears = 0

----------------------------------------------------------------------------
(* Connections: handle_client, enqueue_message.                            *)

\* A frame is decoded and its event queued; a full queue drops it.
EnqueueMessage ==
    /\ collector = "running" /\ offered < MaxEvents
    /\ offered' = offered + 1
    /\ IF queued < QueueSize
       THEN queued' = queued + 1 /\ UNCHANGED dropped
       ELSE dropped' = dropped + 1 /\ UNCHANGED queued
    /\ UNCHANGED <<writer, failures, heartbeat, collector, starts, bucket, clears>>

\* A frame that does not decode, or an event whose settings or policy cannot
\* be read, is one drop and the buffer is discarded.
FrameRaises ==
    /\ collector = "running" /\ offered < MaxEvents
    /\ offered' = offered + 1
    /\ dropped' = dropped + 1
    /\ UNCHANGED <<queued, writer, failures, heartbeat, collector, starts, bucket, clears>>

----------------------------------------------------------------------------
(* The writer thread: writer_loop, _writer_cycle, _write_events.           *)

WriterRuns == collector = "running" /\ writer.at # "gone"

\* A batch is taken from the queue, then the settings are read.
Gather ==
    /\ WriterRuns /\ writer.at = "gather"
    /\ \E n \in 0..queued : /\ queued' = queued - n
                            /\ writer' = [writer EXCEPT !.at = "settings", !.batch = n]
    /\ UNCHANGED <<offered, dropped, failures, heartbeat, collector, starts, bucket, clears>>

\* current_settings is outside the try of _writer_cycle: when it raises the
\* thread ends, and nothing but the age of the heartbeat shows it.
ReadSettings ==
    /\ WriterRuns /\ writer.at = "settings"
    /\ \/ writer' = [writer EXCEPT !.at = "insert", !.saw = 0]
       \/ writer' = [at |-> "gone", batch |-> 0, saw |-> 0]
    /\ UNCHANGED <<offered, queued, dropped, failures, heartbeat, collector, starts, bucket, clears>>

\* insert_events, and telemetry_dropped if something was dropped; a locked
\* database starts the transaction over.
InsertEvents ==
    /\ WriterRuns /\ writer.at = "insert"
    /\ writer' = [writer EXCEPT !.at = IF dropped > 0 THEN "reset" ELSE "commit", !.saw = dropped]
    /\ UNCHANGED <<offered, queued, dropped, failures, heartbeat, collector, starts, bucket, clears>>

\* Mistake: the dropped events are reported and not forgotten.
ResetDropped_Keeps ==
    /\ WriterRuns /\ writer.at = "reset"
    /\ writer' = [writer EXCEPT !.at = "commit"]
    /\ UNCHANGED <<offered, queued, dropped, failures, heartbeat, collector, starts, bucket, clears>>

\* self.dropped = 0, inside the transaction; drops since the insert are lost.
ResetDropped ==
    /\ WriterRuns /\ writer.at = "reset"
    /\ dropped' = 0
    /\ writer' = [writer EXCEPT !.at = "commit"]
    /\ UNCHANGED <<offered, queued, failures, heartbeat, collector, starts, bucket, clears>>

CommitEvents ==
    /\ WriterRuns /\ writer.at = "commit"
    /\ bucket' = [queries |-> bucket.queries + writer.batch,
                  telemetry |-> bucket.telemetry + writer.saw]
    /\ writer' = Gathering
    /\ failures' = 0
    /\ heartbeat' = [status |-> "ok", stale |-> FALSE]
    /\ UNCHANGED <<offered, queued, dropped, collector, starts, clears>>

\* _retry_on_lock: busy or locked, before or at the commit.
RetryOnLock ==
    /\ WriterRuns /\ writer.at \in {"reset", "commit"}
    /\ writer' = [writer EXCEPT !.at = "insert", !.saw = 0]
    /\ UNCHANGED <<offered, queued, dropped, failures, heartbeat, collector, starts, bucket, clears>>

\* Out of retries, or another error: the batch is given up.  After too many
\* of these in a row run() leaves with an exit status systemd restarts on.
CycleFails ==
    /\ WriterRuns /\ writer.at \in {"insert", "commit"}
    /\ failures' = failures + 1
    /\ IF failures + 1 >= WriterMaxConsecutiveFailures
       THEN /\ heartbeat' = [status |-> "dead", stale |-> FALSE]
            /\ collector' = "fatal"
            /\ writer' = [at |-> "gone", batch |-> 0, saw |-> 0]
       ELSE /\ heartbeat' = [status |-> "degraded", stale |-> FALSE]
            /\ writer' = Gathering
            /\ UNCHANGED collector
    /\ UNCHANGED <<offered, queued, dropped, starts, bucket, clears>>

\* writer_health: 60 s without a heartbeat.
HeartbeatAges ==
    /\ heartbeat.status # "unknown" /\ ~heartbeat.stale
    /\ heartbeat' = [heartbeat EXCEPT !.stale = TRUE]
    /\ UNCHANGED <<offered, queued, dropped, writer, failures, collector, starts, bucket, clears>>

\* Mistake: run() returns, which systemd takes for success.
RunExits_Zero ==
    /\ collector = "fatal"
    /\ collector' = "exited"
    /\ UNCHANGED <<offered, queued, dropped, writer, failures, heartbeat, starts, bucket, clears>>

\* run(): sys.exit(1).
RunExits ==
    /\ collector = "fatal"
    /\ collector' = "failed"
    /\ UNCHANGED <<offered, queued, dropped, writer, failures, heartbeat, starts, bucket, clears>>

\* Restart=on-failure: a new process with an empty queue.
CollectorStarts ==
    /\ collector = "failed" /\ starts < MaxCollectorStarts
    /\ starts' = starts + 1
    /\ collector' = "running"
    /\ queued' = 0 /\ dropped' = 0 /\ failures' = 0
    /\ writer' = Gathering
    /\ UNCHANGED <<offered, heartbeat, bucket, clears>>

\* clear_statistics.
ClearBuckets ==
    /\ clears < MaxClears
    /\ clears' = clears + 1
    /\ bucket' = [queries |-> 0, telemetry |-> 0]
    /\ UNCHANGED <<offered, queued, dropped, writer, failures, heartbeat, collector, starts>>

----------------------------------------------------------------------------
AnalyticsNext ==
    \/ EnqueueMessage \/ FrameRaises
    \/ Gather \/ ReadSettings \/ InsertEvents \/ ResetDropped \/ CommitEvents
    \/ RetryOnLock \/ CycleFails \/ HeartbeatAges \/ RunExits \/ CollectorStarts
    \/ ClearBuckets

\* run() looks every second, systemd restarts, time passes.
AnalyticsFairness ==
    /\ WF_analyticsVars(RunExits)
    /\ WF_analyticsVars(CollectorStarts)
    /\ WF_analyticsVars(HeartbeatAges)

AnalyticsSpec == AnalyticsInit /\ [][AnalyticsNext]_analyticsVars /\ AnalyticsFairness

----------------------------------------------------------------------------
(***************************************************************************)
(* A retried transaction, a drop between the insert and the reset, a lost  *)
(* batch or a cleared database makes the numbers too small, never too      *)
(* large: every event sent is in the queue, in the writer's batch, in      *)
(* total_queries or in telemetry_dropped at most once.                     *)
(***************************************************************************)
EventsCountedOnce ==
    queued + writer.batch + dropped + bucket.queries + bucket.telemetry <= offered

(***************************************************************************)
(* "Restart=on-failure in the systemd unit brings the collector back up; a *)
(* plain `return` here would exit 0 and leave it down instead" (run): a    *)
(* writer that gave up runs again, as long as systemd grants the restart,  *)
(* and a writer thread that ended silently shows by a stale heartbeat      *)
(* once it ever wrote one.                                                 *)
(***************************************************************************)
WriterComesBack ==
    /\ (collector = "fatal" /\ starts < MaxCollectorStarts) ~> (collector = "running")
    /\ (writer.at = "gone" /\ heartbeat.status # "unknown")
          ~> (heartbeat.stale \/ heartbeat.status = "dead" \/ writer.at # "gone")
============================================================================
