-------------------------- MODULE CollectorProofs ---------------------------
(***************************************************************************)
(* The two counting properties of the analytics collector, for every size  *)
(* of the queue, every number of events and of queries, and any number of  *)
(* restarts and clearings.                                                 *)
(***************************************************************************)
EXTENDS Analytics, Counters, TLAPS

----------------------------------------------------------------------------
(* The writer thread.                                                      *)

AnalyticsTypeOK ==
    /\ offered \in Nat /\ queued \in Nat /\ dropped \in Nat
    /\ writer \in [at : {"gather", "settings", "insert", "reset", "commit", "gone"},
                   batch : Nat, saw : Nat]
    /\ bucket \in [queries : Nat, telemetry : Nat]

\* What the open transaction adds to telemetry_dropped when it commits.  Once
\* self.dropped is reset these events are held by nothing else.
Reported == IF writer.at = "commit" THEN writer.saw ELSE 0

\* EventsCountedOnce is not inductive: it says nothing of the drops the writer
\* has reported and not committed.  They are part of the sum from the reset on,
\* and before it they are still among `dropped`.
CountedOnce ==
    /\ queued + writer.batch + dropped + bucket.queries + bucket.telemetry + Reported <= offered
    /\ writer.at = "reset" => writer.saw <= dropped

AnalyticsInv == AnalyticsTypeOK /\ CountedOnce

LEMMA AnalyticsInitInv == AnalyticsInit => AnalyticsInv
  BY DEF AnalyticsInit, Gathering, AnalyticsInv, AnalyticsTypeOK, CountedOnce, Reported

\* Taking n events from the queue into the batch does not raise the sum.
LEMMA BatchLeavesQueue ==
    ASSUME NEW q \in Nat, NEW left \in Nat, NEW n \in Nat, NEW b \in Nat, NEW d \in Nat,
           NEW x \in Nat, NEW y \in Nat, NEW o \in Nat,
           left + n = q, q + b + d + x + y + 0 <= o
    PROVE  left + n + d + x + y + 0 <= o
  OBVIOUS

LEMMA AnalyticsNextInv == AnalyticsInv /\ [AnalyticsNext]_analyticsVars => AnalyticsInv'
<1> SUFFICES ASSUME AnalyticsInv, [AnalyticsNext]_analyticsVars PROVE AnalyticsInv'
  OBVIOUS
<1> USE DEF AnalyticsInv, AnalyticsTypeOK, CountedOnce, Reported, WriterRuns
<1>1. CASE EnqueueMessage
  BY <1>1 DEF EnqueueMessage
<1>2. CASE FrameRaises
  BY <1>2 DEF FrameRaises
<1>3. CASE Gather
  <2>1. PICK n \in 0..queued : /\ queued' = queued - n
                              /\ writer' = [writer EXCEPT !.at = "settings", !.batch = n]
    BY <1>3 DEF Gather
  <2>2. writer' = [at |-> "settings", batch |-> n, saw |-> writer.saw]
    BY <2>1
  <2>3. n \in Nat /\ queued' \in Nat /\ queued' + n = queued
    BY <2>1
  <2>4. UNCHANGED <<offered, dropped, bucket>>
    BY <1>3 DEF Gather
  <2>5. AnalyticsTypeOK'
    BY <2>2, <2>3, <2>4
  <2>6. writer.batch \in Nat /\ bucket.queries \in Nat /\ bucket.telemetry \in Nat
    OBVIOUS
  <2>7. writer'.batch = n /\ Reported' = 0 /\ writer'.at # "reset" /\ Reported = 0
    BY <1>3, <2>2 DEF Gather
  <2>8. queued + writer.batch + dropped + bucket.queries + bucket.telemetry + Reported <= offered
    OBVIOUS
  <2> HIDE DEF AnalyticsInv, AnalyticsTypeOK, CountedOnce, Reported, WriterRuns
  <2>9. queued' + n + dropped + bucket.queries + bucket.telemetry + 0 <= offered
    <3>1. offered \in Nat /\ dropped \in Nat /\ queued \in Nat
      BY DEF AnalyticsInv, AnalyticsTypeOK
    <3> QED
      BY <2>3, <2>6, <2>7, <2>8, <3>1, BatchLeavesQueue
  <2> QED
    BY <2>4, <2>5, <2>7, <2>9 DEF AnalyticsInv, CountedOnce
<1>4. CASE ReadSettings
  <2>1. \/ writer' = [at |-> "insert", batch |-> writer.batch, saw |-> 0]
        \/ writer' = [at |-> "gone", batch |-> 0, saw |-> 0]
    BY <1>4 DEF ReadSettings
  <2>2. UNCHANGED <<offered, queued, dropped, bucket>> /\ writer.at = "settings"
    BY <1>4 DEF ReadSettings
  <2> QED
    BY <2>1, <2>2
<1>5. CASE InsertEvents
  <2>1. writer' = [at |-> IF dropped > 0 THEN "reset" ELSE "commit",
                   batch |-> writer.batch, saw |-> dropped]
    BY <1>5 DEF InsertEvents
  <2>2. UNCHANGED <<offered, queued, dropped, bucket>> /\ writer.at = "insert"
    BY <1>5 DEF InsertEvents
  <2> QED
    BY <2>1, <2>2
<1>6. CASE ResetDropped
  BY <1>6 DEF ResetDropped
<1>7. CASE CommitEvents
  BY <1>7 DEF CommitEvents, Gathering
<1>8. CASE RetryOnLock
  <2>1. writer' = [at |-> "insert", batch |-> writer.batch, saw |-> 0]
    BY <1>8 DEF RetryOnLock
  <2>2. UNCHANGED <<offered, queued, dropped, bucket>>
    BY <1>8 DEF RetryOnLock
  <2> QED
    BY <2>1, <2>2
<1>9. CASE CycleFails
  <2>1. \/ writer' = [at |-> "gone", batch |-> 0, saw |-> 0]
        \/ writer' = [at |-> "gather", batch |-> 0, saw |-> 0]
    BY <1>9 DEF CycleFails, Gathering
  <2>2. UNCHANGED <<offered, queued, dropped, bucket>>
    BY <1>9 DEF CycleFails
  <2> QED
    BY <2>1, <2>2
<1>10. CASE HeartbeatAges
  BY <1>10 DEF HeartbeatAges
<1>11. CASE RunExits
  BY <1>11 DEF RunExits
<1>12. CASE CollectorStarts
  BY <1>12 DEF CollectorStarts, Gathering
<1>13. CASE ClearBuckets
  BY <1>13 DEF ClearBuckets
<1>14. CASE UNCHANGED analyticsVars
  BY <1>14 DEF analyticsVars
<1> QED
  BY <1>1, <1>2, <1>3, <1>4, <1>5, <1>6, <1>7, <1>8, <1>9, <1>10, <1>11, <1>12, <1>13, <1>14
     DEF AnalyticsNext

\* No event is in two places, or counted twice by a retried transaction, whatever
\* the queue drops and however often the writer fails or the collector restarts.
THEOREM CountedAtMostOnce == AnalyticsSpec => []EventsCountedOnce
<1>1. AnalyticsInv => EventsCountedOnce
  BY DEF AnalyticsInv, AnalyticsTypeOK, CountedOnce, Reported, EventsCountedOnce
<1> QED
  BY <1>1, AnalyticsInitInv, AnalyticsNextInv, PTL DEF AnalyticsSpec

----------------------------------------------------------------------------
(* The poll thread.                                                        *)

PollerTypeOK ==
    /\ poller.at \in {"wait", "read", "write"}
    /\ poller.at # "wait" => poller.now \in [Server -> Nat]
    /\ poller.at = "write" => poller.old \in [Server -> Nat \union {NotSeen}]

CountersTypeOK ==
    /\ counter \in [Server -> Nat] /\ counted \in [Server -> Nat] /\ grown \in [Server -> Nat]
    /\ state \in [Server -> Nat \union {NotSeen}]
    /\ PollerTypeOK

\* What has been counted leaves room for what the next poll would add: for the
\* one that starts now, and for the one under way together with what a poll
\* after it would find.
RoomLeft(s) ==
    /\ counted[s] + ServerDeltas(counter[s], state[s]) <= grown[s]
    /\ poller.at = "read" => counted[s] + ServerDeltas(poller.now[s], state[s])
                                + ServerDeltas(counter[s], poller.now[s]) <= grown[s]
    /\ poller.at = "write" => counted[s] + ServerDeltas(poller.now[s], poller.old[s])
                                + ServerDeltas(counter[s], poller.now[s]) <= grown[s]

CountersInv == CountersTypeOK /\ \A s \in Server : RoomLeft(s)

LEMMA CountersInitInv == CountersInit => CountersInv
  BY DEF CountersInit, CountersInv, CountersTypeOK, PollerTypeOK, RoomLeft, ServerDeltas, NotSeen

LEMMA CountersNextInv == CountersInv /\ [CountersNext]_countersVars => CountersInv'
<1> SUFFICES ASSUME CountersInv, [CountersNext]_countersVars PROVE CountersInv'
  OBVIOUS
<1> USE DEF CountersInv, CountersTypeOK, PollerTypeOK, RoomLeft, ServerDeltas, NotSeen
<1>1. ASSUME NEW s \in Server, Counts(s) PROVE CountersInv'
  <2>1. CountersTypeOK'
    BY <1>1 DEF Counts
  <2>2. ASSUME NEW r \in Server PROVE RoomLeft(r)'
    <3>1. CASE r = s
      BY <1>1, <3>1 DEF Counts
    <3>2. CASE r # s
      BY <1>1, <3>2 DEF Counts
    <3> QED
      BY <3>1, <3>2
  <2> QED
    BY <2>1, <2>2
<1>2. CASE DnsdistRestarts
  BY <1>2 DEF DnsdistRestarts
<1>3. CASE FetchStats
  BY <1>3 DEF FetchStats
<1>4. CASE ReadCounterState
  BY <1>4 DEF ReadCounterState
<1>5. CASE WriteDeltas
  BY <1>5 DEF WriteDeltas
<1>6. CASE PollEnds
  BY <1>6 DEF PollEnds
<1>7. CASE ClearStatistics
  BY <1>7 DEF ClearStatistics
<1>8. CASE UNCHANGED countersVars
  BY <1>8 DEF countersVars
<1> QED
  BY <1>1, <1>2, <1>3, <1>4, <1>5, <1>6, <1>7, <1>8 DEF CountersNext

\* The increments written for a counter never exceed what it grew by, wherever a
\* restart of dnsdist or a clearing of the statistics falls between two polls.
THEOREM NotOvercounted == CountersSpec => []DeltasNotOvercounted
<1>1. CountersInv => DeltasNotOvercounted
  BY DEF CountersInv, CountersTypeOK, RoomLeft, ServerDeltas, NotSeen, DeltasNotOvercounted
<1> QED
  BY <1>1, CountersInitInv, CountersNextInv, PTL DEF CountersSpec
=============================================================================
