---------------------------- MODULE NetworkConfig ----------------------------
(***************************************************************************)
(* The change of the server's own address in app/network_config.py: stage, *)
(* arm a watchdog, write the rollback state file, reconfigure the          *)
(* interface, and then a confirmation or the watchdog's rollback.  The     *)
(* routes are coroutines that block the event loop, so one apply or        *)
(* confirm command runs at a time; the watchdogs are transient systemd     *)
(* units that run beside it.  A configuration is a number per family.      *)
(***************************************************************************)
EXTENDS Integers

CONSTANTS
  MaxChanges,       \* bound: changes that pass apply_change's checks
  MaxCommandKills,  \* bound: kills of the apply or confirm command
  MaxReboots        \* bound: restarts of the host

ASSUME NetworkAssumption == MaxChanges \in Nat /\ MaxCommandKills \in Nat /\ MaxReboots \in Nat

VARIABLES
  nm,       \* detect_backend: NetworkManager, whose profile is edited, else files
  file,     \* persistent configuration
  live,     \* configuration of the interface
  state,    \* ROLLBACK_STATE_FILE
  timers,   \* transient timer units that are waiting
  dog,      \* network-rollback-check of each unit
  cmd,      \* the running apply or confirm command
  change,   \* number of changes so far; names the change's watchdog unit
  kept,     \* history: configuration last confirmed, at first the original one
  raced,    \* history: a watchdog met another change than its own or a running command,
            \* or a change was confirmed that was not live
  sick,     \* history: a rollback could not restore a file or reconfigure
  cut,      \* history: a command ended before its change was protected
  commandKills, reboots

networkVars ==
  <<nm, file, live, state, timers, dog, cmd, change, kept, raced, sick, cut, commandKills, reboots>>
networkBounds == <<commandKills, reboots>>

Units == 1..MaxChanges
Original == [v4 |-> 0, v6 |-> 0]
NoState == [unit |-> 0, snapshot |-> Original]
Asleep == [pc |-> "none", snapshot |-> Original]
Idle == [pc |-> "idle", to |-> Original, snapshot |-> Original]

NetworkInit ==
  /\ nm \in BOOLEAN
  /\ file = Original /\ live = Original
  /\ state = NoState /\ timers = {}
  /\ dog = [u \in Units |-> Asleep]
  /\ cmd = Idle /\ change = 0
  /\ kept = Original /\ raced = FALSE /\ sick = FALSE /\ cut = FALSE
  /\ commandKills = 0 /\ reboots = 0

-----------------------------------------------------------------------------
(* perform_rollback, run by the watchdog and by an apply that failed. *)

\* Mutant: files that the change created are left beside the restored ones.
Restored_KeepsStaged(snapshot) == file

\* The files of the snapshot are written back and newly staged ones removed; of a
\* NetworkManager profile only the IPv4 properties are.
Restored(snapshot) == IF nm THEN [file EXCEPT !.v4 = snapshot.v4] ELSE snapshot

\* A file that cannot be written is logged and passed over.
RestoreFiles(snapshot) ==
  \/ file' = Restored(snapshot) /\ UNCHANGED sick
  \/ sick' = TRUE /\ UNCHANGED file

\* The backend's own command; its failure is logged.
Reapply ==
  \/ live' = file /\ UNCHANGED sick
  \/ sick' = TRUE /\ UNCHANGED live

-----------------------------------------------------------------------------
(* apply_change. *)

\* Backend and values are valid, no state file exists; snapshot_current.
Apply ==
  /\ cmd.pc = "idle" /\ state = NoState /\ change < MaxChanges
  /\ change' = change + 1
  /\ \E six \in BOOLEAN :
       cmd' = [pc |-> "stage", snapshot |-> file,
               to |-> [v4 |-> change', v6 |-> IF six THEN change' ELSE file.v6]]
  /\ UNCHANGED <<nm, file, live, state, timers, dog, kept, raced, sick, cut>> /\ UNCHANGED networkBounds

Stage ==
  /\ cmd.pc = "stage"
  /\ file' = cmd.to
  /\ cmd' = [cmd EXCEPT !.pc = "arm"]
  /\ UNCHANGED <<nm, live, state, timers, dog, change, kept, raced, sick, cut>> /\ UNCHANGED networkBounds

\* schedule_rollback_timer: systemd-run --on-active.
ScheduleRollbackTimer ==
  /\ cmd.pc = "arm"
  /\ timers' = timers \cup {change}
  /\ cmd' = [cmd EXCEPT !.pc = "state"]
  /\ UNCHANGED <<nm, file, live, state, dog, change, kept, raced, sick, cut>> /\ UNCHANGED networkBounds

\* Staging, systemd-run or the state file fails outside of the try block: what was
\* staged stays.
EarlyFailure ==
  /\ cmd.pc \in {"stage", "arm", "state"}
  /\ cmd' = Idle
  /\ cut' = TRUE
  /\ UNCHANGED <<nm, file, live, state, timers, dog, change, kept, raced, sick>> /\ UNCHANGED networkBounds

WriteStateFile ==
  /\ cmd.pc = "state"
  /\ state' = [unit |-> change, snapshot |-> cmd.snapshot]
  /\ cmd' = [cmd EXCEPT !.pc = "live"]
  /\ UNCHANGED <<nm, file, live, timers, dog, change, kept, raced, sick, cut>> /\ UNCHANGED networkBounds

\* apply_networkd and its siblings; for NetworkManager the profile is staged once more.
ApplyLive ==
  /\ cmd.pc = "live"
  /\ file' = IF nm THEN cmd.to ELSE file
  /\ live' = file'
  /\ cmd' = Idle
  /\ UNCHANGED <<nm, state, timers, dog, change, kept, raced, sick, cut>> /\ UNCHANGED networkBounds

\* The backend's command fails, having done its work or not.
ApplyFails ==
  /\ cmd.pc = "live"
  /\ live' \in {live, file}
  /\ cmd' = [cmd EXCEPT !.pc = "restore"]
  /\ UNCHANGED <<nm, file, state, timers, dog, change, kept, raced, sick, cut>> /\ UNCHANGED networkBounds

CmdRestoreFiles ==
  /\ cmd.pc = "restore"
  /\ RestoreFiles(cmd.snapshot)
  /\ cmd' = [cmd EXCEPT !.pc = "reapply"]
  /\ UNCHANGED <<nm, live, state, timers, dog, change, kept, raced, cut>> /\ UNCHANGED networkBounds

CmdReapply ==
  /\ cmd.pc = "reapply"
  /\ Reapply
  /\ cmd' = [cmd EXCEPT !.pc = "unlink"]
  /\ UNCHANGED <<nm, file, state, timers, dog, change, kept, raced, cut>> /\ UNCHANGED networkBounds

\* The state file goes; the timer stays armed.
CmdUnlink ==
  /\ cmd.pc = "unlink"
  /\ state' = NoState
  /\ cmd' = Idle
  /\ UNCHANGED <<nm, file, live, timers, dog, change, kept, raced, sick, cut>> /\ UNCHANGED networkBounds

-----------------------------------------------------------------------------
(* confirm_change. *)

Confirm ==
  /\ cmd.pc = "idle" /\ state # NoState
  /\ cmd' = [Idle EXCEPT !.pc = "cancel"]
  /\ UNCHANGED <<nm, file, live, state, timers, dog, change, kept, raced, sick, cut>>
  /\ UNCHANGED networkBounds

\* cancel_rollback_timer: `systemctl stop NAME` is NAME.service.  A rollback of that unit
\* that is under way is stopped; NAME.timer is not.
CancelRollbackTimer ==
  /\ cmd.pc = "cancel"
  /\ IF state # NoState /\ dog[state.unit].pc # "none"
       THEN dog' = [dog EXCEPT ![state.unit] = Asleep] /\ raced' = TRUE
       ELSE UNCHANGED <<dog, raced>>
  /\ cmd' = [cmd EXCEPT !.pc = "forget"]
  /\ UNCHANGED <<nm, file, live, state, timers, change, kept, sick, cut>> /\ UNCHANGED networkBounds

ForgetState ==
  /\ cmd.pc = "forget"
  /\ state' = NoState
  /\ kept' = file
  /\ raced' = (raced \/ live # file)
  /\ cmd' = Idle
  /\ UNCHANGED <<nm, file, live, timers, dog, change, sick, cut>> /\ UNCHANGED networkBounds

-----------------------------------------------------------------------------
(* rollback_check, started by a timer. *)

\* The state file is whatever change is pending now.  A timer waits at least 90 seconds
\* and does not fire between its arming and the writing of the state file.
Fire(u) ==
  /\ u \in timers /\ ~(u = change /\ cmd.pc = "state")
  /\ timers' = timers \ {u}
  /\ IF state = NoState
       THEN UNCHANGED <<dog, raced>>
       ELSE /\ dog' = [dog EXCEPT ![u] = [pc |-> "restore", snapshot |-> state.snapshot]]
            /\ raced' = (raced \/ u # state.unit \/ cmd.pc # "idle")
  /\ UNCHANGED <<nm, file, live, state, cmd, change, kept, sick, cut>> /\ UNCHANGED networkBounds

DogRestoreFiles(u) ==
  /\ dog[u].pc = "restore"
  /\ RestoreFiles(dog[u].snapshot)
  /\ dog' = [dog EXCEPT ![u].pc = "reapply"]
  /\ UNCHANGED <<nm, live, state, timers, cmd, change, kept, raced, cut>> /\ UNCHANGED networkBounds

DogReapply(u) ==
  /\ dog[u].pc = "reapply"
  /\ Reapply
  /\ dog' = [dog EXCEPT ![u].pc = "unlink"]
  /\ UNCHANGED <<nm, file, state, timers, cmd, change, kept, raced, cut>> /\ UNCHANGED networkBounds

\* Mutant: the watchdog leaves the state file.
DogUnlink_Keeps(u) ==
  /\ dog[u].pc = "unlink"
  /\ dog' = [dog EXCEPT ![u] = Asleep]
  /\ UNCHANGED <<nm, file, live, state, timers, cmd, change, kept, raced, sick, cut>>
  /\ UNCHANGED networkBounds

\* Whatever state file is there now is removed.
DogUnlink(u) ==
  /\ dog[u].pc = "unlink"
  /\ state' = NoState
  /\ dog' = [dog EXCEPT ![u] = Asleep]
  /\ raced' = (raced \/ cmd.pc # "idle")
  /\ UNCHANGED <<nm, file, live, timers, cmd, change, kept, sick, cut>> /\ UNCHANGED networkBounds

-----------------------------------------------------------------------------
(* What ends processes from outside. *)

\* The web service is stopped, and the command with it.
KillCommand ==
  /\ cmd.pc # "idle" /\ commandKills < MaxCommandKills
  /\ commandKills' = commandKills + 1
  /\ cut' = (cut \/ state = NoState)
  /\ cmd' = Idle
  /\ UNCHANGED <<nm, file, live, state, timers, dog, change, kept, raced, sick, reboots>>

\* Transient units do not survive; the persistent configuration comes up.
Reboot ==
  /\ reboots < MaxReboots
  /\ reboots' = reboots + 1
  /\ live' = file
  /\ cut' = (cut \/ (cmd.pc # "idle" /\ state = NoState))
  /\ timers' = {} /\ dog' = [u \in Units |-> Asleep] /\ cmd' = Idle
  /\ UNCHANGED <<nm, file, state, change, kept, raced, sick, commandKills>>

Command ==
  \/ Stage \/ ScheduleRollbackTimer \/ EarlyFailure \/ WriteStateFile \/ ApplyLive \/ ApplyFails
  \/ CmdRestoreFiles \/ CmdReapply \/ CmdUnlink \/ CancelRollbackTimer \/ ForgetState

Watchdog(u) == Fire(u) \/ DogRestoreFiles(u) \/ DogReapply(u) \/ DogUnlink(u)

NetworkNext ==
  \/ Apply \/ Confirm \/ Command \/ (\E u \in Units : Watchdog(u)) \/ KillCommand \/ Reboot

NetworkSpec == NetworkInit /\ [][NetworkNext]_networkVars

\* Commands return, timers fire and the units they start run to their end.
NetworkFairSpec ==
  NetworkSpec /\ WF_networkVars(Command) /\ \A u \in Units : WF_networkVars(Watchdog(u))

-----------------------------------------------------------------------------
(* Properties. *)

AtRest == cmd.pc = "idle" /\ \A u \in Units : dog[u].pc = "none"

\* "if nothing confirms before the timer fires, the watchdog restores the old persistent
\* config and live interface state": with no process at work and nothing pending, the
\* files hold the configuration last confirmed and the interface has it, however applies
\* failed and commands were killed after the state file was written.  Of a NetworkManager
\* profile this is so for IPv4 only.  And "killing the web app, closing the browser tab, or
\* losing the connection cannot prevent the rollback": a change that is pending has its
\* own watchdog waiting.
ConfirmedOrGuarded ==
  AtRest /\ ~raced =>
    /\ state = NoState /\ ~sick /\ ~cut =>
         /\ file.v4 = kept.v4 /\ live.v4 = kept.v4
         /\ ~nm => file = kept /\ live = kept
    /\ state # NoState /\ reboots = 0 => state.unit \in timers

\* A pending change is confirmed or rolled back and does not block later changes for ever,
\* unless the host is restarted, which ends the transient timer, or a confirmation stops
\* the rollback under way and is killed itself.
PendingEnds == state # NoState ~> (state = NoState \/ raced \/ reboots > 0)

\* "If you don't confirm within ~120 seconds, the watchdog automatically restores": a change
\* is rolled back by the watchdog that was armed for it, not by the one of an earlier change
\* that was confirmed or had failed.
OwnWatchdog ==
  [][\A u \in Units : dog[u].pc = "none" /\ dog'[u].pc = "restore" => u = state.unit]_networkVars
=============================================================================
