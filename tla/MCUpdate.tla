------------------------------ MODULE MCUpdate ------------------------------
(***************************************************************************)
(* An instance for TLC of the parts that look after the host: software     *)
(* updates, the change of its address and the systemd timers.              *)
(* As in MCCoordinator each behaviour runs one of them, chosen at the      *)
(* start, while the others rest in their initial states.                   *)
(***************************************************************************)
EXTENDS SoftwareUpdate, NetworkConfig, Schedules

VARIABLE focus  \* the component this behaviour runs

mcVars == <<vars, networkVars, schedulesVars, focus>>

MCInit ==
  /\ Init /\ NetworkInit /\ SchedulesInit
  /\ focus \in {"update", "network", "schedules"}
  /\ focus # "network" => ~nm

\* Each of them may stop: at its bound, or because nobody asks anything of it.
MCNext ==
  /\ UNCHANGED focus
  /\ \/ focus = "update" /\ Next /\ UNCHANGED <<networkVars, schedulesVars>>
     \/ focus = "network" /\ NetworkNext /\ UNCHANGED <<vars, schedulesVars>>
     \/ focus = "schedules" /\ SchedulesNext /\ UNCHANGED <<vars, networkVars>>

\* The fairness of FairSpec and NetworkFairSpec, for the component that runs.
MCSpec ==
  /\ MCInit /\ [][MCNext]_mcVars
  /\ WF_vars(focus = "update" /\ Run) /\ WF_vars(focus = "update" /\ Status)
  /\ \A j \in 1..MaxJobs : WF_vars(focus = "update" /\ Age(j))
  /\ WF_networkVars(focus = "network" /\ Command)
  /\ \A u \in Units : WF_networkVars(focus = "network" /\ Watchdog(u))
=============================================================================
