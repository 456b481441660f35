------------------------------ MODULE Schedules ------------------------------
(***************************************************************************)
(* The three systemd timers with a setting: automatic filter updates       *)
(* (app/filter_schedule.py), backups (deploy_backup_schedule) and update   *)
(* checks (deploy_check_schedule); and the bookkeeping of a scheduled      *)
(* filter update.  A route saves the setting and runs a root command that  *)
(* reads it back and applies it; routes run in threads.                    *)
(***************************************************************************)
EXTENDS Naturals

CONSTANTS Timers,       \* of {"filter", "backup", "check"}
          Savers,       \* requests and package scripts
          MaxSaves, MaxRuns, MaxScheduleKills

ASSUME SchedulesAssumption ==
    /\ Timers \subseteq {"filter", "backup", "check"}
    /\ {MaxSaves, MaxRuns, MaxScheduleKills} \subseteq Nat

Settings == [on : BOOLEAN, hours : {12, 24}]
Default == [on |-> TRUE, hours |-> 24]
NoDropIn == 0
NotSaving == [at |-> "idle"]

VARIABLES setting,  \* the stored settings
          dropIn,   \* hours in the timer's drop-in
          armed,    \* the timer is enabled and started
          saver,    \* a save and the command it runs
          unsettled,\* timers with a failed, killed or overlapping save
          saves, runs, scheduleKills,
          record    \* last_attempt, last_result, last_success of the filter update

schedulesVars == <<setting, dropIn, armed, saver, unsettled, saves, runs, scheduleKills, record>>

SchedulesInit ==
    /\ setting = [t \in Timers |-> Default]
    /\ dropIn = [t \in Timers |-> 24]
    /\ armed = [t \in Timers |-> TRUE]
    /\ saver = [s \in Savers |-> NotSaving]
    /\ unsettled = {}
    /\ saves = 0 /\ runs = 0 /\ scheduleKills = 0
    /\ record = [at |-> "idle", attempt |-> 0, result |-> 0, status |-> "none", success |-> 0]

----------------------------------------------------------------------------
(* Saving and applying.                                                    *)

Busy(t) == \E s \in Savers : saver[s].at # "idle" /\ saver[s].timer = t

\* update_settings validates and commits.
UpdateSettings(s, t, v) ==
    /\ saver[s].at = "idle" /\ saves < MaxSaves
    /\ saves' = saves + 1
    /\ setting' = [setting EXCEPT ![t] = v]
    /\ saver' = [saver EXCEPT ![s] = [at |-> "read", timer |-> t]]
    /\ unsettled' = IF Busy(t) THEN unsettled \cup {t} ELSE unsettled \ {t}
    /\ UNCHANGED <<dropIn, armed, runs, scheduleKills, record>>

\* The command of the route, as root.
ReadSetting(s) ==
    /\ saver[s].at = "read"
    /\ saver' = [saver EXCEPT ![s] = [at |-> "write", timer |-> @.timer, value |-> setting[@.timer]]]
    /\ UNCHANGED <<setting, dropIn, armed, unsettled, saves, runs, scheduleKills, record>>

\* The drop-in of a disabled schedule is removed; a disabled backup keeps it.
DropInContent(t, v) == IF v.on \/ t = "backup" THEN v.hours ELSE NoDropIn

\* Mistake: disabling leaves the drop-in behind.
WriteDropIn_Keeps(s) ==
    /\ saver[s].at = "write"
    /\ LET t == saver[s].timer
       IN  dropIn' = IF saver[s].value.on THEN [dropIn EXCEPT ![t] = saver[s].value.hours] ELSE dropIn
    /\ saver' = [saver EXCEPT ![s].at = "systemctl"]
    /\ UNCHANGED <<setting, armed, unsettled, saves, runs, scheduleKills, record>>

WriteDropIn(s) ==
    /\ saver[s].at = "write"
    /\ LET t == saver[s].timer
       IN  dropIn' = [dropIn EXCEPT ![t] = DropInContent(t, saver[s].value)]
    /\ saver' = [saver EXCEPT ![s].at = "systemctl"]
    /\ UNCHANGED <<setting, armed, unsettled, saves, runs, scheduleKills, record>>

\* daemon-reload, then enable --now or disable --now.
Systemctl(s) ==
    /\ saver[s].at = "systemctl"
    /\ armed' = [armed EXCEPT ![saver[s].timer] = saver[s].value.on]
    /\ saver' = [saver EXCEPT ![s] = NotSaving]
    /\ UNCHANGED <<setting, dropIn, unsettled, saves, runs, scheduleKills, record>>

\* sudo, daemon-reload or enable fails: the route shows an error (the backup
\* route not even that).  A failing disable goes unnoticed.
SystemctlFails(s) ==
    /\ saver[s].at \in {"read", "systemctl"}
    /\ unsettled' = unsettled \cup {saver[s].timer}
    /\ saver' = [saver EXCEPT ![s] = NotSaving]
    /\ UNCHANGED <<setting, dropIn, armed, saves, runs, scheduleKills, record>>

KillSaver(s) ==
    /\ saver[s].at # "idle"
    /\ scheduleKills < MaxScheduleKills /\ scheduleKills' = scheduleKills + 1
    /\ unsettled' = unsettled \cup {saver[s].timer}
    /\ saver' = [saver EXCEPT ![s] = NotSaving]
    /\ UNCHANGED <<setting, dropIn, armed, saves, runs, record>>

----------------------------------------------------------------------------
(* filter_update_run, started by the timer.                                *)

RecordAttempt ==
    /\ record.at = "idle" /\ armed["filter"] /\ runs < MaxRuns
    /\ runs' = runs + 1
    /\ record' = [record EXCEPT !.at = "deploy", !.attempt = runs + 1]
    /\ UNCHANGED <<setting, dropIn, armed, saver, unsettled, saves, scheduleKills>>

\* The deploy returns or raises; the result is stored.
RecordResult ==
    /\ record.at = "deploy"
    /\ \/ record' = [record EXCEPT !.at = "success", !.result = record.attempt, !.status = "deployed"]
       \/ record' = [record EXCEPT !.at = "idle", !.result = record.attempt, !.status = "failed"]
    /\ UNCHANGED <<setting, dropIn, armed, saver, unsettled, saves, runs, scheduleKills>>

RecordSuccess ==
    /\ record.at = "success"
    /\ record' = [record EXCEPT !.at = "idle", !.success = record.result]
    /\ UNCHANGED <<setting, dropIn, armed, saver, unsettled, saves, runs, scheduleKills>>

KillFilterUpdate ==
    /\ record.at # "idle"
    /\ scheduleKills < MaxScheduleKills /\ scheduleKills' = scheduleKills + 1
    /\ record' = [record EXCEPT !.at = "idle"]
    /\ UNCHANGED <<setting, dropIn, armed, saver, unsettled, saves, runs>>

----------------------------------------------------------------------------
SchedulesNext ==
    \/ \E s \in Savers : \/ \E t \in Timers, v \in Settings : UpdateSettings(s, t, v)
                         \/ ReadSetting(s) \/ WriteDropIn(s) \/ Systemctl(s)
                         \/ SystemctlFails(s) \/ KillSaver(s)
    \/ RecordAttempt \/ RecordResult \/ RecordSuccess \/ KillFilterUpdate

SchedulesSpec == SchedulesInit /\ [][SchedulesNext]_schedulesVars

----------------------------------------------------------------------------
(***************************************************************************)
(* "check_interval_hours actually controls the cadence" and "disabling     *)
(* automatic checking actually stops scheduled checks" (the docstring of   *)
(* deploy_check_schedule; the filter and backup timers likewise): at rest  *)
(* the timer is what the last save asked for, unless that save failed, was *)
(* killed, or overlapped another one, whose command may then apply the     *)
(* older value it had read.                                                *)
(***************************************************************************)
TimerFollowsSetting ==
    \A t \in Timers \ unsettled :
        Busy(t) \/ /\ armed[t] = setting[t].on
                   /\ dropIn[t] = DropInContent(t, setting[t])
=============================================================================
