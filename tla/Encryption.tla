----------------------------- MODULE Encryption -----------------------------
(***************************************************************************)
(* Encrypted DNS (app/encryption.py): certificates, the environment of     *)
(* dnsdist that selects protocols and certificate paths, and               *)
(* deploy_encryption, which runs as root under the deploy lock.            *)
(*                                                                         *)
(* Certificates and keys are numbers; a pair matches when they are equal.  *)
(* "default" are the paths of self-signed and local CA certificates.  The  *)
(* environment override exists from the installation on.                   *)
(***************************************************************************)
EXTENDS Naturals

CONSTANTS Requests,    \* requests of the encryption page
          MaxIssued,   \* certificates made or uploaded
          MaxEncryptionKills

ASSUME EncryptionAssumption == {MaxIssued, MaxEncryptionKills} \subseteq Nat

Nothing == 0
Pair(n) == [cert |-> n, key |-> n]
Matches(p) == p.cert = p.key /\ p.cert # Nothing
NoPair == Pair(Nothing)

VARIABLES certs,      \* certificate and key under the paths of each mode
          pendingPair,\* the upload staged by the web process
          wanted,     \* encryption_settings: cert_mode, the rest, pending_cert_action
          conf,       \* dnsdist.conf, of an earlier release or migrated
          envFile,    \* the environment override of dnsdist.service
          running,    \* what dnsdist was last started with
          request,    \* requests of the page
          deployer,   \* the deploy under the lock
          rowStatus,  \* the newest row of encryption_deployments
          served,     \* running when that deploy began
          unsure,     \* a kill or a stale action: see ServesWhatRowSays
          issued, encryptionKills

encryptionVars == <<certs, pendingPair, wanted, conf, envFile, running, request, deployer,
                    rowStatus, served, unsure, issued, encryptionKills>>

NoDeployer == [at |-> "idle"]
Env(w) == [mode |-> w.mode, protocols |-> w.protocols]

EncryptionInit ==
    /\ certs = [default |-> Pair(1), uploaded |-> NoPair, existing |-> Pair(MaxIssued + 1)]
    /\ pendingPair = NoPair
    /\ wanted = [mode |-> "default", protocols |-> 1, action |-> FALSE]
    /\ conf = "earlier"
    /\ envFile = Env(wanted)
    /\ running = [env |-> envFile, pair |-> Pair(1)]
    /\ request = [q \in Requests |-> "new"]
    /\ deployer = NoDeployer
    /\ rowStatus = "deployed"
    /\ served = running
    /\ unsure = FALSE
    /\ issued = 1 /\ encryptionKills = 0

----------------------------------------------------------------------------
(* The web process: a setting at a time, then the deploy.                  *)

Asks(q, from, to) ==
    /\ request[q] = from
    /\ request' = [request EXCEPT ![q] = to]
    /\ UNCHANGED <<certs, conf, envFile, running, deployer, rowStatus, served, unsure,
                   encryptionKills>>

\* encryption_cert_self_signed, encryption_cert_local_ca.
ChooseGenerated(q) ==
    /\ Asks(q, "new", "action")
    /\ wanted' = [wanted EXCEPT !.mode = "default"]
    /\ UNCHANGED <<pendingPair, issued>>

RequestCertAction(q) ==
    /\ Asks(q, "action", "deploy")
    /\ wanted' = [wanted EXCEPT !.action = TRUE]
    /\ UNCHANGED <<pendingPair, issued>>

\* encryption_cert_existing_path, and the form with protocols and ports.
ChooseSettings(q) ==
    /\ Asks(q, "new", "deploy")
    /\ \/ wanted' = [wanted EXCEPT !.mode = "existing"]
       \/ wanted' = [wanted EXCEPT !.protocols = 3 - @]
    /\ UNCHANGED <<pendingPair, issued>>

\* request_cert_upload writes two files; the route holds the event loop, so
\* there is one upload at a time.
UploadCert(q) ==
    /\ issued < MaxIssued
    /\ \A r \in Requests : request[r] \notin {"key", "mode"}
    /\ Asks(q, "new", "key")
    /\ issued' = issued + 1
    /\ pendingPair' = [pendingPair EXCEPT !.cert = issued + 1]
    /\ UNCHANGED wanted

\* The key may be the wrong one.
UploadKey(q) ==
    /\ Asks(q, "key", "mode")
    /\ \E k \in {1, pendingPair.cert} \ {Nothing} : pendingPair' = [pendingPair EXCEPT !.key = k]
    /\ UNCHANGED <<wanted, issued>>

ChooseUploaded(q) ==
    /\ Asks(q, "mode", "deploy")
    /\ wanted' = [wanted EXCEPT !.mode = "uploaded"]
    /\ UNCHANGED <<pendingPair, issued>>

----------------------------------------------------------------------------
(* deploy_encryption, step by step.                                        *)

DeployerAt(at) == deployer.at = at
WebLeft == UNCHANGED <<wanted, request, served, encryptionKills>>

\* The row, the settings, and a copy of the pair of the chosen mode when the
\* deploy is about to write one.  A pending action always writes the default
\* paths, whatever mode was chosen since it was asked for.
BeginDeploy(q) ==
    /\ DeployerAt("idle") /\ request[q] = "deploy"
    /\ request' = [request EXCEPT ![q] = "done"]
    /\ LET writes == wanted.action \/ wanted.mode = "uploaded"
           old == certs[wanted.mode]
       IN  deployer' = [at |-> IF wanted.action THEN "cert" ELSE "accept",
                        cfg |-> wanted, changed |-> FALSE, env |-> envFile, touched |-> FALSE,
                        backup |-> IF writes /\ old.cert # Nothing /\ old.key # Nothing
                                   THEN old ELSE NoPair]
    /\ rowStatus' = "running"
    /\ served' = running
    /\ unsure' = (unsure \/ (wanted.action /\ wanted.mode # "default"))
    /\ UNCHANGED <<certs, pendingPair, wanted, conf, envFile, running, issued, encryptionKills>>

\* generate_self_signed and issue_from_local_ca: the certificate, the key.
GenerateCert ==
    /\ DeployerAt("cert") /\ issued < MaxIssued
    /\ issued' = issued + 1
    /\ certs' = [certs EXCEPT !.default.cert = issued + 1]
    /\ deployer' = [deployer EXCEPT !.at = "key", !.changed = TRUE]
    /\ UNCHANGED <<pendingPair, conf, envFile, running, rowStatus, unsure>> /\ WebLeft

GenerateKey ==
    /\ DeployerAt("key")
    /\ certs' = [certs EXCEPT !.default.key = certs.default.cert]
    /\ deployer' = [deployer EXCEPT !.at = "reset"]
    /\ UNCHANGED <<pendingPair, conf, envFile, running, rowStatus, unsure, issued>> /\ WebLeft

ResetAction ==
    /\ DeployerAt("reset")
    /\ wanted' = [wanted EXCEPT !.action = FALSE]
    /\ deployer' = [deployer EXCEPT !.at = "accept"]
    /\ UNCHANGED <<certs, pendingPair, conf, envFile, running, rowStatus, unsure, issued, request,
                   served, encryptionKills>>

\* accept_pending_upload: both files are read and must match; certificate,
\* key, then the staged files are removed, also ones written since.
AcceptCert ==
    /\ DeployerAt("accept")
    /\ IF deployer.cfg.mode = "uploaded" /\ pendingPair.cert # Nothing /\ pendingPair.key # Nothing
       THEN /\ Matches(pendingPair)
            /\ deployer' = [deployer EXCEPT !.at = "acceptKey", !.changed = TRUE]
            /\ certs' = [certs EXCEPT !.uploaded.cert = pendingPair.cert]
       ELSE /\ deployer' = [deployer EXCEPT !.at = "conf"]
            /\ UNCHANGED certs
    /\ UNCHANGED <<pendingPair, conf, envFile, running, rowStatus, unsure, issued>> /\ WebLeft

AcceptKey ==
    /\ DeployerAt("acceptKey")
    /\ certs' = [certs EXCEPT !.uploaded.key = certs.uploaded.cert]
    /\ deployer' = [deployer EXCEPT !.at = "unlink"]
    /\ UNCHANGED <<pendingPair, conf, envFile, running, rowStatus, unsure, issued>> /\ WebLeft

UnlinkPending ==
    /\ DeployerAt("unlink")
    /\ pendingPair' = NoPair
    /\ deployer' = [deployer EXCEPT !.at = "conf"]
    /\ UNCHANGED <<certs, conf, envFile, running, rowStatus, unsure, issued>> /\ WebLeft

\* The pair is there and matches; dnsdist.conf is brought up to date, once,
\* and stays so whatever becomes of the deploy.
MigrateConf ==
    /\ DeployerAt("conf") /\ Matches(certs[deployer.cfg.mode])
    /\ conf' = "migrated"
    /\ deployer' = [deployer EXCEPT !.at = "env", !.changed = @ \/ conf # "migrated"]
    /\ UNCHANGED <<certs, pendingPair, envFile, running, rowStatus, unsure, issued>> /\ WebLeft

\* Mistake: a new certificate under an unchanged environment is no change.
CompareEnv_IgnoresCert ==
    /\ DeployerAt("env")
    /\ IF Env(deployer.cfg) = envFile
       THEN /\ rowStatus' = "unchanged"
            /\ deployer' = NoDeployer
            /\ UNCHANGED envFile
       ELSE /\ envFile' = Env(deployer.cfg)
            /\ deployer' = [deployer EXCEPT !.at = "restart", !.touched = TRUE]
            /\ UNCHANGED rowStatus
    /\ UNCHANGED <<certs, pendingPair, conf, running, unsure, issued>> /\ WebLeft

\* The environment is compared, then written (the old one is kept).
CompareEnv ==
    /\ DeployerAt("env")
    /\ IF Env(deployer.cfg) = envFile /\ ~deployer.changed
       THEN /\ rowStatus' = "unchanged"
            /\ deployer' = NoDeployer
            /\ UNCHANGED envFile
       ELSE /\ envFile' = Env(deployer.cfg)
            /\ deployer' = [deployer EXCEPT !.at = "restart", !.touched = TRUE]
            /\ UNCHANGED rowStatus
    /\ UNCHANGED <<certs, pendingPair, conf, running, unsure, issued>> /\ WebLeft

Started == [env |-> envFile, pair |-> certs[envFile.mode]]

\* daemon-reload, --check-config, restart.
RestartDaemon ==
    /\ DeployerAt("restart")
    /\ running' = Started
    /\ deployer' = [deployer EXCEPT !.at = "test"]
    /\ UNCHANGED <<certs, pendingPair, conf, envFile, rowStatus, unsure, issued>> /\ WebLeft

\* _wait_active and test_protocols.
TestProtocols ==
    /\ DeployerAt("test")
    /\ rowStatus' = "deployed"
    /\ deployer' = NoDeployer
    /\ UNCHANGED <<certs, pendingPair, conf, envFile, running, unsure, issued>> /\ WebLeft

\* Any step raises: openssl, a write, a pair that does not match or is not
\* there, dnsdist's own checks, a protocol test.
DeployRaises ==
    /\ deployer.at \in {"cert", "key", "accept", "acceptKey", "conf", "env", "restart", "test"}
    /\ deployer' = [deployer EXCEPT !.at = "undo"]
    /\ UNCHANGED <<certs, pendingPair, conf, envFile, running, rowStatus, unsure, issued>> /\ WebLeft

RestoreCertBackup ==
    /\ DeployerAt("undo")
    /\ certs' = IF deployer.backup = NoPair THEN certs
                ELSE [certs EXCEPT ![deployer.cfg.mode] = deployer.backup]
    /\ deployer' = [deployer EXCEPT !.at = "undoEnv"]
    /\ UNCHANGED <<pendingPair, conf, envFile, running, rowStatus, unsure, issued>> /\ WebLeft

\* The old environment and a restart, when this deploy had replaced it.  A
\* restart that does not become active is reported.
RestoreEnvBackup ==
    /\ DeployerAt("undoEnv")
    /\ deployer' = NoDeployer
    /\ IF deployer.touched
       THEN /\ envFile' = deployer.env
            /\ running' = [env |-> deployer.env, pair |-> certs[deployer.env.mode]]
            /\ rowStatus' \in {"rolled_back", "rollback_failed"}
       ELSE /\ rowStatus' = IF deployer.backup # NoPair THEN "rolled_back" ELSE "failed"
            /\ UNCHANGED <<envFile, running>>
    /\ UNCHANGED <<certs, pendingPair, conf, unsure, issued>> /\ WebLeft

\* The deploy is killed; what it had written stays.
KillEncryptionDeploy ==
    /\ ~DeployerAt("idle")
    /\ encryptionKills < MaxEncryptionKills /\ encryptionKills' = encryptionKills + 1
    /\ deployer' = NoDeployer
    /\ unsure' = (unsure \/ deployer.changed \/ deployer.touched)
    /\ UNCHANGED <<certs, pendingPair, wanted, conf, envFile, running, request, rowStatus, served,
                   issued>>

----------------------------------------------------------------------------
EncryptionNext ==
    \/ \E q \in Requests : \/ ChooseGenerated(q) \/ RequestCertAction(q) \/ ChooseSettings(q)
                           \/ UploadCert(q) \/ UploadKey(q) \/ ChooseUploaded(q)
                           \/ BeginDeploy(q)
    \/ GenerateCert \/ GenerateKey \/ ResetAction \/ AcceptCert \/ AcceptKey
    \/ UnlinkPending \/ MigrateConf \/ CompareEnv \/ RestartDaemon \/ TestProtocols
    \/ DeployRaises \/ RestoreCertBackup \/ RestoreEnvBackup \/ KillEncryptionDeploy

EncryptionSpec == EncryptionInit /\ [][EncryptionNext]_encryptionVars

----------------------------------------------------------------------------
(***************************************************************************)
(* A deploy that ended well runs dnsdist with the environment and the pair *)
(* on disk, and so does one that found nothing to do; one that failed      *)
(* leaves dnsdist with what it ran before, and with that on disk, so that  *)
(* the next restart serves it too.  Excluded (unsure) are a deploy killed  *)
(* after it wrote something, after which the next one reports 'unchanged'  *)
(* although dnsdist was never restarted, and a certificate action left     *)
(* over from another mode, which overwrites a pair that is not backed up.  *)
(***************************************************************************)
ServesWhatRowSays ==
    (DeployerAt("idle") /\ ~unsure) =>
        /\ rowStatus \in {"deployed", "unchanged"} => running = Started
        /\ rowStatus \in {"rolled_back", "failed"} => running = served /\ running = Started
=============================================================================
