------------------------------ MODULE Counters ------------------------------
(***************************************************************************)
(* The poll thread of the analytics collector (app/analytics.py):          *)
(* collect_dnsdist_aggregate and collect_upstream_resolver_aggregate turn  *)
(* dnsdist's counters, which start over with dnsdist, into increments of   *)
(* the buckets.                                                            *)
(***************************************************************************)
EXTENDS Integers

CONSTANTS MaxCount,         \* queries dnsdist counts
          MaxCounterClears  \* times the statistics are cleared

ASSUME CountersAssumption == {MaxCount, MaxCounterClears} \subseteq Nat

Server == {"frontend", "upstream"}  \* dnsdist's own counters, a resolver's
NotSeen == -1       \* no row in the counter state

VARIABLES counter,    \* dnsdist's counters
          counted,    \* increments written for them, ever
          grown,      \* what they grew by, ever
          state,      \* the counter state tables
          poller,     \* the poll thread
          counterClears

countersVars == <<counter, counted, grown, state, poller, counterClears>>

CountersInit ==
    /\ counter = [s \in Server |-> 0]
    /\ counted = [s \in Server |-> 0]
    /\ grown = [s \in Server |-> 0]
    /\ state = [s \in Server |-> NotSeen]
    /\ poller = [at |-> "wait"]
    /\ counterClears = 0

----------------------------------------------------------------------------
Counts(s) ==
    /\ grown[s] < MaxCount
    /\ counter' = [counter EXCEPT ![s] = @ + 1]
    /\ grown' = [grown EXCEPT ![s] = @ + 1]
    /\ UNCHANGED <<counted, state, poller, counterClears>>

DnsdistRestarts ==
    /\ counter' = [s \in Server |-> 0]
    /\ UNCHANGED <<counted, grown, state, poller, counterClears>>

\* The statistics are fetched, then the state of the last poll is read.
FetchStats ==
    /\ poller.at = "wait"
    /\ poller' = [at |-> "read", now |-> counter]
    /\ UNCHANGED <<counter, counted, grown, state, counterClears>>

ReadCounterState ==
    /\ poller.at = "read"
    /\ poller' = [at |-> "write", now |-> poller.now, old |-> state]
    /\ UNCHANGED <<counter, counted, grown, state, counterClears>>

\* Mistake: a counter seen for the first time counts from zero.
ServerDeltas_FromZero(now, old) ==
    IF now < old THEN 0 ELSE IF old = NotSeen THEN now ELSE now - old

\* A counter seen for the first time, or that went back, adds nothing.
ServerDeltas(now, old) ==
    IF old = NotSeen \/ now < old THEN 0 ELSE now - old

\* Increments and state in one transaction, which may fail.
WriteDeltas ==
    /\ poller.at = "write"
    /\ poller' = [at |-> "wait"]
    /\ \/ /\ counted' = [s \in Server |-> counted[s] + ServerDeltas(poller.now[s], poller.old[s])]
          /\ state' = poller.now
       \/ UNCHANGED <<counted, state>>
    /\ UNCHANGED <<counter, grown, counterClears>>

\* The collector is stopped and started, or a poll raises before it writes.
PollEnds ==
    /\ poller.at # "wait"
    /\ poller' = [at |-> "wait"]
    /\ UNCHANGED <<counter, counted, grown, state, counterClears>>

\* clear_statistics deletes the state with the buckets.
ClearStatistics ==
    /\ counterClears < MaxCounterClears
    /\ counterClears' = counterClears + 1
    /\ state' = [s \in Server |-> NotSeen]
    /\ UNCHANGED <<counter, counted, grown, poller>>

CountersNext ==
    \/ \E s \in Server : Counts(s)
    \/ DnsdistRestarts \/ FetchStats \/ ReadCounterState \/ WriteDeltas \/ PollEnds
    \/ ClearStatistics

CountersSpec == CountersInit /\ [][CountersNext]_countersVars

----------------------------------------------------------------------------
(***************************************************************************)
(* Polls that overlap a restart of dnsdist or a clearing of the statistics *)
(* never report more than the counters really grew.                        *)
(***************************************************************************)
DeltasNotOvercounted == \A s \in Server : counted[s] <= grown[s]
=============================================================================
