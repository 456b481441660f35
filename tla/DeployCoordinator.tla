-------------------------- MODULE DeployCoordinator --------------------------
(***************************************************************************)
(* _DeployCoordinator of app/webapp.py: the request threads of the web     *)
(* application share one run of a compiler command.  The first caller      *)
(* leads; the callers that arrive meanwhile ask for one more pass and wait *)
(* on the condition variable.  Each thread saves a change and calls run(), *)
(* again and again.                                                        *)
(***************************************************************************)
EXTENDS Integers, FiniteSets

CONSTANTS
  Threads,      \* request-handling threads
  Interval,     \* min_interval_seconds, in ticks (0: this coordinator does not pace)
  WaitTimeout   \* wait_timeout, in ticks

ASSUME CoordinatorAssumption == Interval \in Nat /\ WaitTimeout \in Nat

VARIABLES
  pc,         \* idle, enter, waiting, woken (its round is over), pace, run, finish
  inFlight,   \* _in_flight
  coalesced,  \* _coalesced
  result,     \* _result and _error of the last round: "ok", "failed", "raised"
  cooldown,   \* ticks until _last_finished is min_interval_seconds ago
  left,       \* ticks until the deadline of a waiting thread
  snap,       \* threads whose newest change the latest pass has read
  applied,    \* threads whose newest change a successful pass has applied
  since       \* history: ticks since the last dnsdist restart, up to Interval

vars == <<pc, inFlight, coalesced, result, cooldown, left, snap, applied, since>>

Leaders == {t \in Threads : pc[t] \in {"pace", "run", "finish"}}
\* Time left after one more tick.
Dec(n) == IF n = 0 THEN 0 ELSE n - 1

Init ==
  /\ pc = [t \in Threads |-> "idle"]
  /\ inFlight = FALSE /\ coalesced = FALSE
  /\ result = "ok"
  /\ cooldown = 0
  /\ left = [t \in Threads |-> 0]
  /\ snap = Threads /\ applied = Threads
  /\ since = Interval

\* A route handler commits a change to the database, then calls run().
Save(t) ==
  /\ pc[t] = "idle"
  /\ pc' = [pc EXCEPT ![t] = "enter"]
  /\ snap' = snap \ {t} /\ applied' = applied \ {t}
  /\ UNCHANGED <<inFlight, coalesced, result, cooldown, left, since>>

\* Mutants: the in-flight flag is not taken; a waiter does not ask for a pass.
Enter_NoFlag(t) ==
  /\ pc[t] = "enter"
  /\ pc' = [pc EXCEPT ![t] = IF inFlight THEN "waiting" ELSE "pace"]
  /\ coalesced' = inFlight
  /\ left' = [left EXCEPT ![t] = WaitTimeout]
  /\ UNCHANGED <<inFlight, result, cooldown, snap, applied, since>>
Enter_NoCoalesce(t) ==
  /\ pc[t] = "enter"
  /\ pc' = [pc EXCEPT ![t] = IF inFlight THEN "waiting" ELSE "pace"]
  /\ inFlight' = TRUE
  /\ left' = [left EXCEPT ![t] = WaitTimeout]
  /\ UNCHANGED <<coalesced, result, cooldown, snap, applied, since>>

\* The first critical section of run().  A waiter's target_round is the number of
\* the round in flight: "waiting" until that round is over, "woken" after it.
Enter(t) ==
  /\ pc[t] = "enter"
  /\ \/ /\ inFlight
        /\ coalesced' = TRUE
        /\ left' = [left EXCEPT ![t] = WaitTimeout]
        /\ pc' = [pc EXCEPT ![t] = "waiting"]
        /\ UNCHANGED inFlight
     \/ /\ ~inFlight
        /\ inFlight' = TRUE
        /\ pc' = [pc EXCEPT ![t] = "pace"]
        /\ UNCHANGED <<coalesced, left>>
  /\ UNCHANGED <<result, cooldown, snap, applied, since>>

\* The deadline passes first: run() raises busy_message.
TimeOut(t) ==
  /\ pc[t] = "waiting" /\ left[t] = 0
  /\ pc' = [pc EXCEPT ![t] = "idle"]
  /\ UNCHANGED <<inFlight, coalesced, result, cooldown, left, snap, applied, since>>

\* A waiter whose round is over returns the result, or raises the error, of the
\* latest round, which may be a later one than it waited for.
Return(t) ==
  /\ pc[t] = "woken"
  /\ pc' = [pc EXCEPT ![t] = "idle"]
  /\ UNCHANGED <<inFlight, coalesced, result, cooldown, left, snap, applied, since>>

\* The restart-rate pacing before every pass.
Pace(t) ==
  /\ pc[t] = "pace" /\ cooldown = 0
  /\ pc' = [pc EXCEPT ![t] = "run"]
  /\ UNCHANGED <<inFlight, coalesced, result, cooldown, left, snap, applied, since>>

\* The command run_once() has spawned reads the saved configuration.
ReadConfig(t) ==
  /\ pc[t] = "run"
  /\ snap' = Threads
  /\ pc' = [pc EXCEPT ![t] = "finish"]
  /\ UNCHANGED <<inFlight, coalesced, result, cooldown, left, applied, since>>

\* Mutant: only a success starts the cooldown.
ShouldPace_SuccessOnly(res, restarted) == res = "ok" /\ restarted

\* _upstream_deploy_used_a_restart, and True for an exception: only a confirmed
\* success without a restart starts no cooldown.
ShouldPace(res, restarted) == res # "ok" \/ restarted

\* run_once() returns or raises, having restarted dnsdist or not; then the second
\* critical section of run().
Finish(t) ==
  /\ pc[t] = "finish"
  /\ \E res \in {"ok", "failed", "raised"}, restarted \in BOOLEAN :
       /\ result' = res
       /\ applied' = IF res = "ok" THEN snap ELSE applied
       /\ since' = IF restarted THEN 0 ELSE since
       /\ cooldown' = IF ShouldPace(res, restarted) THEN Interval ELSE cooldown
  /\ inFlight' = coalesced
  /\ coalesced' = FALSE
  /\ pc' = [u \in Threads |->
              IF u = t THEN (IF coalesced THEN "pace" ELSE "idle")
              ELSE IF pc[u] = "waiting" THEN "woken" ELSE pc[u]]
  /\ UNCHANGED <<left, snap>>

\* time.monotonic() advances.
Tick ==
  /\ cooldown' = Dec(cooldown)
  /\ left' = [t \in Threads |-> IF pc[t] = "waiting" THEN Dec(left[t]) ELSE left[t]]
  /\ since' = IF since < Interval THEN since + 1 ELSE since
  /\ UNCHANGED <<pc, inFlight, coalesced, result, snap, applied>>

Moves(t) == Enter(t) \/ TimeOut(t) \/ Return(t) \/ Pace(t) \/ ReadConfig(t) \/ Finish(t)

Next == Tick \/ \E t \in Threads : Save(t) \/ Moves(t)

Spec == Init /\ [][Next]_vars

\* Time passes and the scheduler runs every thread.  The spawned command may hang
\* (subprocess.run has no timeout) and nobody is obliged to save.
FairSpec ==
  /\ Spec /\ WF_vars(Tick)
  /\ \A t \in Threads : WF_vars(Enter(t) \/ TimeOut(t) \/ Return(t) \/ Pace(t))

-----------------------------------------------------------------------------
(* Properties. *)

\* The type of every variable of the coordinator.
TypeOK ==
  /\ pc \in [Threads -> {"idle", "enter", "waiting", "woken", "pace", "run", "finish"}]
  /\ inFlight \in BOOLEAN /\ coalesced \in BOOLEAN
  /\ result \in {"ok", "failed", "raised"}
  /\ cooldown \in 0..Interval /\ since \in 0..Interval
  /\ left \in [Threads -> 0..WaitTimeout]
  /\ snap \subseteq Threads /\ applied \subseteq Threads

\* At most one thread of this process ever runs the command, exactly while
\* _in_flight is set, and another pass is only asked for while it does.
OneRunner ==
  /\ \A t, u \in Leaders : t = u
  /\ inFlight <=> Leaders # {}
  /\ coalesced => inFlight

\* "your change was saved and will be applied automatically once it finishes": a
\* change whose caller is past the entry of run(), has returned or has timed out
\* has been read by the latest pass, or a pass that will read it is due.
NoLostChange ==
  \A t \in Threads :
    pc[t] # "enter" => \/ t \in snap \/ coalesced
                       \/ \E u \in Leaders : pc[u] \in {"pace", "run"}

\* The pacing note of _upstream_deploy_coordinator: consecutive dnsdist restarts of
\* one coordinator are at least min_interval_seconds apart, even when the pass
\* between them failed or several callers asked for it.
RestartsSpaced == [][since' = 0 /\ since' # since => since = Interval]_vars

\* As long as no command hangs, every saved change is read by a pass, also when its
\* caller has given up waiting.
ChangeReachesAPass ==
  (\A u \in Threads : []<>(pc[u] \notin {"run", "finish"})) =>
    \A t \in Threads : pc[t] = "enter" ~> t \in snap

\* Class docstring: a waiter "waits (bounded) for that pass, which then reflects
\* everyone's latest saved state": a waiter told of success has its change applied.
WaiterSeesItsChange ==
  [][\A t \in Threads : pc[t] = "woken" /\ pc'[t] = "idle" /\ result = "ok" => t \in applied]_vars
=============================================================================
