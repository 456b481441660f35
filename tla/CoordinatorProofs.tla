-------------------------- MODULE CoordinatorProofs --------------------------
(***************************************************************************)
(* One runner, no lost change and restarts spaced by the interval, for     *)
(* every number of threads and every pacing interval and timeout.          *)
(***************************************************************************)
EXTENDS DeployCoordinator, TLAPS

\* The three invariants together are inductive: a change is never lost because the
\* flags tell exactly whether a leader is there to take the request.
Inv == TypeOK /\ OneRunner /\ NoLostChange

LEMMA InitInv == Init => Inv
<1> SUFFICES ASSUME Init PROVE Inv
  OBVIOUS
<1>1. TypeOK
  <2>1. 0 \in 0..Interval /\ Interval \in 0..Interval /\ 0 \in 0..WaitTimeout
    BY CoordinatorAssumption
  <2> QED
    BY <2>1, Zenon DEF Init, TypeOK
<1>2. Leaders = {}
  BY DEF Init, Leaders
<1>3. OneRunner /\ NoLostChange
  BY <1>2 DEF Init, OneRunner, NoLostChange
<1> QED
  BY <1>1, <1>3 DEF Inv

LEMMA NextInv == Inv /\ [Next]_vars => Inv'
<1> SUFFICES ASSUME Inv, [Next]_vars PROVE Inv'
  OBVIOUS
<1> USE CoordinatorAssumption DEF Inv, TypeOK, OneRunner, NoLostChange, Leaders
<1>1. CASE Tick
  <2>1. cooldown' \in 0..Interval /\ since' \in 0..Interval /\ left' \in [Threads -> 0..WaitTimeout]
    BY <1>1 DEF Tick, Dec
  <2> QED
    BY <1>1, <2>1 DEF Tick
<1>2. ASSUME NEW t \in Threads, Save(t) PROVE Inv'
  BY <1>2 DEF Save
<1>3. ASSUME NEW t \in Threads, Enter(t) PROVE Inv'
  <2>1. CASE inFlight
    BY <1>3, <2>1 DEF Enter
  <2>2. CASE ~inFlight
    BY <1>3, <2>2 DEF Enter
  <2> QED
    BY <2>1, <2>2
<1>4. ASSUME NEW t \in Threads, TimeOut(t) PROVE Inv'
  BY <1>4 DEF TimeOut
<1>5. ASSUME NEW t \in Threads, Return(t) PROVE Inv'
  BY <1>5 DEF Return
<1>6. ASSUME NEW t \in Threads, Pace(t) PROVE Inv'
  BY <1>6 DEF Pace
<1>7. ASSUME NEW t \in Threads, ReadConfig(t) PROVE Inv'
  BY <1>7 DEF ReadConfig
<1>8. ASSUME NEW t \in Threads, Finish(t) PROVE Inv'
  <2>1. TypeOK'
    <3>1. /\ result' \in {"ok", "failed", "raised"} /\ applied' \subseteq Threads
          /\ since' \in 0..Interval /\ cooldown' \in 0..Interval
      BY <1>8 DEF Finish
    <3>2. pc' \in [Threads -> {"idle", "enter", "waiting", "woken", "pace", "run", "finish"}]
      BY <1>8 DEF Finish
    <3>3. inFlight' \in BOOLEAN /\ coalesced' \in BOOLEAN /\ UNCHANGED <<left, snap>>
      BY <1>8 DEF Finish
    <3> QED
      BY <3>1, <3>2, <3>3
  <2>2. OneRunner'
    BY <1>8 DEF Finish
  <2>3. NoLostChange'
    BY <1>8 DEF Finish
  <2> QED
    BY <2>1, <2>2, <2>3
<1>9. CASE UNCHANGED vars
  BY <1>9 DEF vars
<1> QED
  BY <1>1, <1>2, <1>3, <1>4, <1>5, <1>6, <1>7, <1>8, <1>9 DEF Next, Moves

\* At most one thread runs the command, exactly while _in_flight is set.
THEOREM RunnerUnique == Spec => []OneRunner
  BY InitInv, NextInv, PTL DEF Spec, Inv

\* No change handed to run() is forgotten, whatever threads time out or fail.
THEOREM ChangeKept == Spec => []NoLostChange
  BY InitInv, NextInv, PTL DEF Spec, Inv

-----------------------------------------------------------------------------
(* Pacing. *)

\* The cooldown covers what is left of the interval since the last restart, and a
\* pass only runs when the interval is over.
Paced ==
  /\ since + cooldown >= Interval
  /\ \A t \in Threads : pc[t] \in {"run", "finish"} => since = Interval

LEMMA InitPaced == Init => Paced
  BY CoordinatorAssumption DEF Init, Paced

LEMMA NextPaced == Inv /\ Paced /\ [Next]_vars => Paced'
<1> SUFFICES ASSUME Inv, Paced, [Next]_vars PROVE Paced'
  OBVIOUS
<1> USE CoordinatorAssumption DEF Inv, TypeOK, Paced
<1>1. CASE Tick
  BY <1>1 DEF Tick, Dec
<1>2. ASSUME NEW t \in Threads, Finish(t) PROVE Paced'
  <2>1. since = Interval
    BY <1>2 DEF Finish
  <2>2. since' + cooldown' >= Interval
    BY <1>2, <2>1 DEF Finish, ShouldPace
  <2>3. ASSUME NEW u \in Threads PROVE pc'[u] \notin {"run", "finish"}
    <3>1. u # t => u \notin Leaders
      BY <1>2 DEF Finish, OneRunner, Leaders
    <3> QED
      BY <1>2, <3>1 DEF Finish, Leaders
  <2> QED
    BY <2>2, <2>3
<1>3. ASSUME NEW t \in Threads, Save(t) \/ Enter(t) \/ TimeOut(t) \/ Return(t) \/ ReadConfig(t)
      PROVE Paced'
  <2>1. /\ UNCHANGED <<since, cooldown>>
        /\ \A u \in Threads : pc'[u] \in {"run", "finish"} => pc[u] \in {"run", "finish"}
    BY <1>3 DEF Save, Enter, TimeOut, Return, ReadConfig
  <2> QED
    BY <2>1
<1>4. ASSUME NEW t \in Threads, Pace(t) PROVE Paced'
  BY <1>4 DEF Pace
<1>5. CASE UNCHANGED vars
  BY <1>5 DEF vars
<1> QED
  BY <1>1, <1>2, <1>3, <1>4, <1>5 DEF Next, Moves

\* Consecutive dnsdist restarts of one coordinator are at least the interval apart,
\* for any threads, interval and deadline, whether passes fail, raise or succeed.
THEOREM RestartsPaced == Spec => RestartsSpaced
<1>1. Inv /\ Paced /\ [Next]_vars => [since' = 0 /\ since' # since => since = Interval]_vars
  <2> SUFFICES ASSUME Inv, Paced, Next, since' = 0, since' # since PROVE since = Interval
    BY DEF vars
  <2>1. ~Tick
    BY CoordinatorAssumption DEF Tick, Inv, TypeOK
  <2>2. PICK t \in Threads : Finish(t)
    BY <2>1 DEF Next, Moves, Save, Enter, TimeOut, Return, Pace, ReadConfig
  <2> QED
    BY <2>2 DEF Finish, Paced
<1> QED
  BY <1>1, InitInv, NextInv, InitPaced, NextPaced, PTL DEF Spec, RestartsSpaced
=============================================================================
