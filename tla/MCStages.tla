------------------------------ MODULE MCStages ------------------------------
(***************************************************************************)
(* An instance for TLC of what installs files and restarts services for    *)
(* them, and of what reports on it: the staged pipeline, encrypted DNS,    *)
(* the dnsdist upgrade and the alerts.  As in MCCoordinator each behaviour *)
(* runs one of them, chosen at the start, while the others rest.           *)
(***************************************************************************)
EXTENDS Deploy, Encryption, DnsdistUpgrade, Alerts, TLC

VARIABLE focus  \* the component this behaviour runs

mcVars == <<vars, encryptionVars, upgradeVars, alertsVars, focus>>

\* The processes of Deploy are interchangeable, and nothing else mentions them.
Symmetry == Permutations(Procs)

MCInit ==
  /\ Init /\ EncryptionInit /\ DnsdistUpgradeInit /\ AlertsInit
  /\ focus \in {"deploy", "encryption", "upgrade", "alerts"}
  \* One of the pipeline's initial states is enough where it rests.
  /\ focus # "deploy" => /\ file = NoContent /\ db.policy = Off
                         /\ \A s \in {"zones", "upstream", "cache"} :
                              db[s] = CHOOSE c \in Confs : TRUE

MCNext ==
  /\ UNCHANGED focus
  /\ \/ focus = "deploy" /\ Next /\ UNCHANGED <<encryptionVars, upgradeVars, alertsVars>>
     \/ focus = "encryption" /\ EncryptionNext /\ UNCHANGED <<vars, upgradeVars, alertsVars>>
     \/ focus = "upgrade" /\ UpgradeNext /\ UNCHANGED <<vars, encryptionVars, alertsVars>>
     \/ focus = "alerts" /\ AlertsNext /\ UNCHANGED <<vars, encryptionVars, upgradeVars>>
     \* All but the pipeline stop at their bounds.
     \/ focus # "deploy" /\ UNCHANGED <<vars, encryptionVars, upgradeVars, alertsVars>>

MCSpec == MCInit /\ [][MCNext]_mcVars
=============================================================================
