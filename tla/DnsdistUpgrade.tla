--------------------------- MODULE DnsdistUpgrade ---------------------------
(***************************************************************************)
(* alderpointdns install-enhanced-dnsdist (app/dnsdist_upgrade.py): the    *)
(* opt-in installation of the PowerDNS build of dnsdist.  The command does *)
(* not take the deploy lock, so an encryption deploy may write the         *)
(* configuration it has backed up.                                         *)
(***************************************************************************)
EXTENDS Naturals

CONSTANTS MaxUpgrades,   \* bound on runs of the command
          MaxOtherDeploys   \* bound on deploys that write the configuration meanwhile

ASSUME DnsdistUpgradeAssumption == MaxUpgrades \in Nat /\ MaxOtherDeploys \in Nat

VARIABLES upStep,     \* the step the command is at, or "idle"
          upReport,   \* how the last run ended
          package,    \* the dnsdist on disk: "archive", "enhanced", or "lacking" a feature
          process,    \* the dnsdist that runs
          config,     \* dnsdist.conf, the overrides and the certificates, as a version
          saved,      \* the version backup_state archived
          keyring,    \* the key apt trusts for the repository
          key,        \* the key that was downloaded
          aptSource,  \* the repository is among apt's sources
          overlapped, \* some deploy fell into a run of the command
          upgrades, deploys

upgradeVars == <<upStep, upReport, package, process, config, saved, keyring, key,
                 aptSource, overlapped, upgrades, deploys>>

DnsdistUpgradeInit ==
    /\ upStep = "idle" /\ upReport = "none"
    /\ package = "archive" /\ process = "archive"
    /\ config = 0 /\ saved = 0
    /\ keyring = "none" /\ key = "none" /\ aptSource = FALSE
    /\ overlapped = FALSE /\ upgrades = 0 /\ deploys = 0

\* check_os_supported, detect_architecture; dnsdist --version asks the binary
\* on disk, not the process.
StartUpgrade ==
    /\ upStep = "idle" /\ upgrades < MaxUpgrades
    /\ upgrades' = upgrades + 1
    /\ IF package = "enhanced"
       THEN upReport' = "already_satisfied" /\ UNCHANGED upStep
       ELSE upReport' = "none" /\ upStep' = "resolve"
    /\ UNCHANGED <<package, process, config, saved, keyring, key, aptSource, overlapped, deploys>>

\* resolve_repo_host fails before there is anything to restore.
ResolveRepoHost(ok) ==
    /\ upStep = "resolve"
    /\ upStep' = IF ok THEN "backup" ELSE "idle"
    /\ upReport' = IF ok THEN "none" ELSE "refused"
    /\ UNCHANGED <<package, process, config, saved, keyring, key, aptSource, overlapped,
                   upgrades, deploys>>

BackupState ==
    /\ upStep = "backup"
    /\ saved' = config /\ upStep' = "download"
    /\ UNCHANGED <<upReport, package, process, config, keyring, key, aptSource, overlapped,
                   upgrades, deploys>>

\* What came over the wire: the published key or another.
DownloadSigningKey(k) ==
    /\ upStep = "download"
    /\ key' = k /\ upStep' = "verify"
    /\ UNCHANGED <<upReport, package, process, config, saved, keyring, aptSource, overlapped,
                   upgrades, deploys>>

\* verify_signing_key; then install_keyring.
VerifySigningKey ==
    /\ upStep = "verify" /\ key = "published"
    /\ keyring' = key /\ upStep' = "sources"
    /\ UNCHANGED <<upReport, package, process, config, saved, key, aptSource, overlapped,
                   upgrades, deploys>>

WriteAptSources ==
    /\ upStep = "sources"
    /\ aptSource' = TRUE /\ upStep' = "update"
    /\ UNCHANGED <<upReport, package, process, config, saved, keyring, key, overlapped,
                   upgrades, deploys>>

\* apt_update, apt_policy_candidate, simulate_install: reads only.
AptChecks(here, next) ==
    /\ upStep = here /\ upStep' = next
    /\ UNCHANGED <<upReport, package, process, config, saved, keyring, key, aptSource,
                   overlapped, upgrades, deploys>>

\* apt_install; the package's own scripts may have restarted the service.
AptInstall(p, restarted) ==
    /\ upStep = "install" /\ aptSource
    /\ package' = p /\ process' = IF restarted THEN p ELSE process
    /\ upStep' = "capabilities"
    /\ UNCHANGED <<upReport, config, saved, keyring, key, aptSource, overlapped, upgrades, deploys>>

\* Mistake: the features of the installed build are not looked at.
CheckCapabilities_Skipped ==
    /\ upStep = "capabilities" /\ upStep' = "check"
    /\ UNCHANGED <<upReport, package, process, config, saved, keyring, key, aptSource,
                   overlapped, upgrades, deploys>>

CheckCapabilities ==
    /\ upStep = "capabilities" /\ package = "enhanced" /\ upStep' = "check"
    /\ UNCHANGED <<upReport, package, process, config, saved, keyring, key, aptSource,
                   overlapped, upgrades, deploys>>

RestartAndVerify ==
    /\ upStep = "restart"
    /\ process' = package /\ upStep' = "baseline"
    /\ UNCHANGED <<upReport, package, config, saved, keyring, key, aptSource, overlapped,
                   upgrades, deploys>>

BaselineDnsTest ==
    /\ upStep = "baseline"
    /\ upStep' = "idle" /\ upReport' = "changed"
    /\ UNCHANGED <<package, process, config, saved, keyring, key, aptSource, overlapped,
                   upgrades, deploys>>

\* The steps inside the try whose failure is an UpgradeError: the files come
\* back from the archive; package, source, key and process stay.
Guarded == {"download", "verify", "sources", "update", "candidate", "simulate", "install",
            "capabilities", "check", "restart", "baseline"}

UpgradeRollsBack ==
    /\ upStep \in Guarded
    /\ config' = saved /\ upStep' = "idle" /\ upReport' = "rolled_back"
    /\ package' \in IF upStep = "install" THEN {package, "enhanced"} ELSE {package}
    /\ process' \in IF upStep = "restart" THEN {process, package} ELSE {process}
    /\ UNCHANGED <<saved, keyring, key, aptSource, overlapped, upgrades, deploys>>

\* Anything else that is raised (a timeout of systemctl, an OSError of a
\* write), or a kill: nothing is restored.
UpgradeEscapes ==
    /\ upStep \in Guarded
    /\ upStep' = "idle" /\ upReport' = "escaped"
    /\ UNCHANGED <<package, process, config, saved, keyring, key, aptSource, overlapped,
                   upgrades, deploys>>

\* An encryption deploy writes the configuration and restarts dnsdist.
OtherDeploy ==
    /\ deploys < MaxOtherDeploys
    /\ deploys' = deploys + 1 /\ config' = config + 1
    /\ process' = package /\ overlapped' = (overlapped \/ upStep # "idle")
    /\ UNCHANGED <<upStep, upReport, package, saved, keyring, key, aptSource, upgrades>>

UpgradeNext ==
    \/ StartUpgrade \/ \E ok \in BOOLEAN : ResolveRepoHost(ok)
    \/ BackupState \/ \E k \in {"published", "other"} : DownloadSigningKey(k)
    \/ VerifySigningKey \/ WriteAptSources
    \/ AptChecks("update", "candidate") \/ AptChecks("candidate", "simulate")
    \/ AptChecks("simulate", "install")
    \/ \E p \in {"enhanced", "lacking"}, b \in BOOLEAN : AptInstall(p, b)
    \/ CheckCapabilities \/ AptChecks("check", "restart")
    \/ RestartAndVerify \/ BaselineDnsTest
    \/ UpgradeRollsBack \/ UpgradeEscapes \/ OtherDeploy

DnsdistUpgradeSpec == DnsdistUpgradeInit /\ [][UpgradeNext]_upgradeVars

----------------------------------------------------------------------------
(***************************************************************************)
(* What the command reports is so: "changed" means that the dnsdist that   *)
(* runs has the features, installed from a source signed with the          *)
(* published key; the configuration the other deploys have written is      *)
(* there, except for deploys that fell into a run that was rolled back.    *)
(***************************************************************************)
UpgradeReportIsTrue ==
    /\ keyring # "other"
    /\ upReport = "changed" => process = "enhanced" /\ keyring = "published"
    /\ ~overlapped => config = deploys
=============================================================================
