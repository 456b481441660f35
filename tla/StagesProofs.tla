---------------------------- MODULE StagesProofs ----------------------------
(***************************************************************************)
(* Proofs about encrypted DNS, the dnsdist upgrade, the alerts and the     *)
(* compiled filter policy.                                                 *)
(***************************************************************************)
EXTENDS Encryption, DnsdistUpgrade, Alerts, FilterPolicy, FiniteSetTheorems,
        WellFoundedInduction, TLAPS

(* Encrypted DNS.                                                          *)

Modes == {"default", "uploaded", "existing"}
PairOf == [cert : Nat, key : Nat]
EnvOf == [mode : Modes, protocols : {1, 2}]
WantedOf == [mode : Modes, protocols : {1, 2}, action : BOOLEAN]
Stages == {"cert", "key", "reset", "accept", "acceptKey", "unlink", "conf", "env", "restart", "test",
           "undo", "undoEnv"}
DeployerOf == [at : Stages, cfg : WantedOf, changed : BOOLEAN, env : EnvOf, touched : BOOLEAN,
               backup : PairOf]

EncryptionTypeOK ==
    /\ certs \in [default : PairOf, uploaded : PairOf, existing : PairOf]
    /\ pendingPair \in PairOf /\ issued \in Nat
    /\ wanted \in WantedOf /\ envFile \in EnvOf
    /\ unsure \in BOOLEAN
    /\ DeployerAt("idle") \/ deployer \in DeployerOf

\* The deploy may write the pair of its own mode.
Writes == deployer.cfg.action \/ deployer.cfg.mode = "uploaded"

\* With no deploy under way dnsdist runs what is on disk, a pair that matches.
AtRestInv ==
    DeployerAt("idle") =>
        /\ running = Started /\ Matches(certs[envFile.mode])
        /\ rowStatus \in {"rolled_back", "failed"} => running = served

\* A deploy knows what dnsdist ran when it began, and leaves the pair of that alone
\* unless it is the pair of its own mode, of which it then has a copy.
KeepsServed ==
    ~DeployerAt("idle") =>
        /\ served.env = deployer.env /\ served = [env |-> served.env, pair |-> served.pair]
        /\ served.pair \in PairOf /\ Matches(served.pair)
        /\ deployer.cfg.action => deployer.cfg.mode = "default"
        /\ deployer.at \in {"key", "reset", "acceptKey", "unlink"} => deployer.changed
        /\ deployer.at \in {"cert", "key", "reset"} => deployer.cfg.action
        /\ deployer.at \in {"acceptKey", "unlink"} => deployer.cfg.mode = "uploaded"
        /\ (deployer.cfg.mode = deployer.env.mode /\ deployer.changed /\ Writes /\ deployer.at # "undoEnv")
             \/ certs[deployer.env.mode] = served.pair
        /\ deployer.cfg.mode = deployer.env.mode /\ Writes => deployer.backup = served.pair
        /\ ~Writes => deployer.backup = NoPair

\* How far it got.
Reached ==
    ~DeployerAt("idle") =>
        /\ ~deployer.touched => envFile = deployer.env /\ running = served
        /\ deployer.touched => deployer.at \in {"restart", "test", "undo", "undoEnv"}
        /\ deployer.at \in {"env", "restart", "test"} => Matches(certs[deployer.cfg.mode])
        /\ deployer.at \in {"restart", "test"} => deployer.touched /\ envFile = Env(deployer.cfg)
        /\ deployer.at = "test" => running = Started

EncryptionInv == EncryptionTypeOK /\ (~unsure => AtRestInv /\ KeepsServed /\ Reached)

\* The deploy steps that change nothing but the deploy's place.
DeployerMoved(to, changed, touched) ==
    /\ deployer' \in DeployerOf
    /\ deployer'.at = to /\ deployer'.changed = changed /\ deployer'.touched = touched
    /\ deployer'.cfg = deployer.cfg /\ deployer'.env = deployer.env
    /\ deployer'.backup = deployer.backup

LEMMA EncryptionInitInv == EncryptionInit => EncryptionInv
<1> SUFFICES ASSUME EncryptionInit PROVE EncryptionInv
  OBVIOUS
<1>1. EncryptionTypeOK
  <2>1. Pair(1) \in PairOf /\ Pair(MaxIssued + 1) \in PairOf /\ NoPair \in PairOf
    BY EncryptionAssumption DEF Pair, NoPair, Nothing, PairOf
  <2>2. envFile \in EnvOf /\ wanted \in WantedOf
    BY DEF EncryptionInit, Env, EnvOf, WantedOf, Modes
  <2>3. unsure \in BOOLEAN
    BY Zenon DEF EncryptionInit
  <2> QED
    BY <2>1, <2>2, <2>3 DEF EncryptionInit, EncryptionTypeOK, DeployerAt, NoDeployer
<1>2. running = Started /\ Matches(certs[envFile.mode])
  BY DEF EncryptionInit, Started, Matches, Pair, Nothing, Env
<1>3. DeployerAt("idle")
  BY DEF EncryptionInit, DeployerAt, NoDeployer
<1> QED
  BY <1>1, <1>2, <1>3 DEF EncryptionInit, EncryptionInv, AtRestInv, KeepsServed, Reached

\* A request of the page changes the settings and the upload, of which a deploy
\* under way has its own copy.
LEMMA WebStep ==
    ASSUME EncryptionInv, pendingPair' \in PairOf, issued' \in Nat, wanted' \in WantedOf,
           UNCHANGED <<certs, envFile, running, deployer, rowStatus, served, unsure>>
    PROVE  EncryptionInv'
  BY DEF EncryptionInv, EncryptionTypeOK, AtRestInv, KeepsServed, Reached, Writes, Started,
     DeployerAt

\* A deploy under way goes on without touching a pair, the environment or dnsdist.
LEMMA DeployGoesOn ==
    ASSUME EncryptionInv, ~DeployerAt("idle"), NEW to \in Stages, NEW changed \in BOOLEAN,
           DeployerMoved(to, changed, deployer.touched),
           deployer.changed => changed,
           pendingPair' \in PairOf, issued' \in Nat, wanted' \in WantedOf,
           UNCHANGED <<certs, envFile, running, served, unsure>>,
           to \notin {"cert", "key", "reset", "acceptKey", "unlink", "restart", "test", "undoEnv"},
           deployer.at \notin {"restart", "test", "undo", "undoEnv"} \/ to = "undo",
           to = "env" => Matches(certs[deployer.cfg.mode])
    PROVE  EncryptionInv'
<1>1. EncryptionTypeOK'
  BY DEF EncryptionInv, EncryptionTypeOK, DeployerMoved, DeployerAt
<1>2. ASSUME ~unsure PROVE AtRestInv' /\ KeepsServed' /\ Reached'
  <2>1. ~DeployerAt("idle")'
    BY DEF DeployerMoved, DeployerAt, Stages
  <2>2. KeepsServed'
    BY <1>2 DEF EncryptionInv, KeepsServed, DeployerMoved, Writes
  <2>3. Reached'
    BY <1>2 DEF EncryptionInv, Reached, DeployerMoved
  <2> QED
    BY <2>1, <2>2, <2>3 DEF AtRestInv
<1> QED
  BY <1>1, <1>2 DEF EncryptionInv

LEMMA EncryptionNextInv == EncryptionInv /\ [EncryptionNext]_encryptionVars => EncryptionInv'
<1> SUFFICES ASSUME EncryptionInv, [EncryptionNext]_encryptionVars PROVE EncryptionInv'
  OBVIOUS
<1>0. EncryptionTypeOK /\ (~DeployerAt("idle") => deployer \in DeployerOf)
  BY DEF EncryptionInv, EncryptionTypeOK
<1>1. ASSUME NEW q \in Requests,
             ChooseGenerated(q) \/ RequestCertAction(q) \/ ChooseSettings(q)
             \/ UploadCert(q) \/ UploadKey(q) \/ ChooseUploaded(q)
      PROVE  EncryptionInv'
  <2>1. UNCHANGED <<certs, envFile, running, deployer, rowStatus, served, unsure>>
    BY <1>1 DEF ChooseGenerated, RequestCertAction, ChooseSettings, UploadCert, UploadKey,
       ChooseUploaded, Asks
  <2>2. wanted' \in WantedOf
    <3>1. wanted \in WantedOf
      BY <1>0 DEF EncryptionTypeOK
    <3>2. \/ \E m \in Modes : wanted' = [wanted EXCEPT !.mode = m]
          \/ wanted' = [wanted EXCEPT !.action = TRUE]
          \/ wanted' = [wanted EXCEPT !.protocols = 3 - wanted.protocols]
          \/ wanted' = wanted
      BY <1>1 DEF ChooseGenerated, RequestCertAction, ChooseSettings, UploadCert, UploadKey,
         ChooseUploaded, Modes
    <3>3. wanted.protocols \in {1, 2} /\ 3 - wanted.protocols \in {1, 2}
      BY <3>1 DEF WantedOf
    <3> QED
      BY <3>1, <3>2, <3>3 DEF WantedOf
  <2>3. issued' \in Nat
    BY <1>0, <1>1 DEF ChooseGenerated, RequestCertAction, ChooseSettings, UploadCert, UploadKey,
       ChooseUploaded, EncryptionTypeOK
  <2>4. pendingPair' \in PairOf
    <3>1. CASE UploadCert(q)
      BY <1>0, <3>1 DEF UploadCert, EncryptionTypeOK, PairOf
    <3>2. CASE UploadKey(q)
      BY <1>0, <3>2 DEF UploadKey, EncryptionTypeOK, PairOf, Nothing
    <3>3. CASE ~UploadCert(q) /\ ~UploadKey(q)
      BY <1>0, <1>1, <3>3 DEF ChooseGenerated, RequestCertAction, ChooseSettings, ChooseUploaded,
         EncryptionTypeOK
    <3> QED
      BY <3>1, <3>2, <3>3
  <2> QED
    BY <2>1, <2>2, <2>3, <2>4, WebStep
<1>2. ASSUME NEW q \in Requests, BeginDeploy(q) PROVE EncryptionInv'
  <2> DEFINE old == certs[wanted.mode]
             writes == wanted.action \/ wanted.mode = "uploaded"
             copy == IF writes /\ old.cert # Nothing /\ old.key # Nothing THEN old ELSE NoPair
             first == IF wanted.action THEN "cert" ELSE "accept"
  <2>1. /\ DeployerAt("idle") /\ served' = running
        /\ deployer' = [at |-> first, cfg |-> wanted, changed |-> FALSE, env |-> envFile,
                        touched |-> FALSE, backup |-> copy]
        /\ unsure' = (unsure \/ (wanted.action /\ wanted.mode # "default"))
        /\ UNCHANGED <<certs, pendingPair, wanted, envFile, running, issued>>
    BY <1>2 DEF BeginDeploy
  <2>2. old \in PairOf
    BY <1>0 DEF EncryptionTypeOK, WantedOf, Modes
  <2>3. copy \in PairOf /\ (~writes => copy = NoPair)
    BY <2>2 DEF NoPair, Pair, Nothing, PairOf
  <2>4. Matches(old) /\ writes => copy = old
    BY <2>2 DEF Matches
  <2>5. first \in Stages /\ (first = "cert" => wanted.action) /\ first \in {"cert", "accept"}
    BY DEF Stages
  <2> HIDE DEF copy, first
  <2>6. deployer' \in DeployerOf
    BY <1>0, <2>1, <2>3, <2>5 DEF DeployerOf, EncryptionTypeOK
  <2>7. unsure' \in BOOLEAN /\ (~unsure' => ~unsure /\ (wanted.action => wanted.mode = "default"))
    BY <1>0, <2>1 DEF EncryptionTypeOK
  <2>8. EncryptionTypeOK'
    BY <1>0, <2>1, <2>6, <2>7 DEF EncryptionTypeOK
  <2>9. ASSUME ~unsure' PROVE AtRestInv' /\ KeepsServed' /\ Reached'
    <3>1. /\ running = [env |-> envFile, pair |-> certs[envFile.mode]] /\ Matches(certs[envFile.mode])
          /\ wanted.action => wanted.mode = "default"
      BY <2>1, <2>7, <2>9 DEF EncryptionInv, AtRestInv, Started
    <3>2. certs[envFile.mode] \in PairOf
      BY <1>0 DEF EncryptionTypeOK, EnvOf, Modes
    <3>3. /\ deployer'.at = first /\ deployer'.cfg = wanted /\ ~deployer'.changed /\ deployer'.env = envFile
          /\ ~deployer'.touched /\ deployer'.backup = copy
      BY <2>1
    <3>4. ~DeployerAt("idle")' /\ (Writes' <=> writes)
      BY <2>5, <3>3 DEF DeployerAt, Writes
    <3>5. KeepsServed'
      BY <2>1, <2>3, <2>4, <2>5, <3>1, <3>2, <3>3, <3>4 DEF KeepsServed
    <3>6. Reached'
      BY <2>1, <2>5, <3>3 DEF Reached
    <3> QED
      BY <3>4, <3>5, <3>6 DEF AtRestInv
  <2> QED
    BY <2>8, <2>9 DEF EncryptionInv
<1>3. CASE GenerateCert
  <2>1. /\ deployer.at = "cert" /\ issued' = issued + 1
        /\ certs' = [certs EXCEPT !.default.cert = issued + 1]
        /\ deployer' = [deployer EXCEPT !.at = "key", !.changed = TRUE]
        /\ UNCHANGED <<pendingPair, envFile, running, unsure, wanted, served>>
    BY <1>3 DEF GenerateCert, DeployerAt, WebLeft
  <2>2. DeployerMoved("key", TRUE, deployer.touched)
    BY <1>0, <2>1 DEF DeployerOf, DeployerMoved, DeployerAt, Stages
  <2>3. /\ certs' \in [default : PairOf, uploaded : PairOf, existing : PairOf]
        /\ \A m \in Modes : m # "default" => certs'[m] = certs[m]
    BY <1>0, <2>1 DEF EncryptionTypeOK, PairOf, Modes
  <2> QED
    BY <1>0, <2>1, <2>2, <2>3 DEF EncryptionInv, EncryptionTypeOK, AtRestInv, KeepsServed, Reached,
       DeployerMoved, DeployerAt, Writes, DeployerOf, EnvOf
<1>4. CASE GenerateKey
  <2>1. /\ deployer.at = "key" /\ certs' = [certs EXCEPT !.default.key = certs.default.cert]
        /\ deployer' = [deployer EXCEPT !.at = "reset"]
        /\ UNCHANGED <<pendingPair, envFile, running, unsure, wanted, served, issued>>
    BY <1>4 DEF GenerateKey, DeployerAt, WebLeft
  <2>2. DeployerMoved("reset", deployer.changed, deployer.touched)
    BY <1>0, <2>1 DEF DeployerOf, DeployerMoved, DeployerAt, Stages
  <2>3. /\ certs' \in [default : PairOf, uploaded : PairOf, existing : PairOf]
        /\ \A m \in Modes : m # "default" => certs'[m] = certs[m]
    BY <1>0, <2>1 DEF EncryptionTypeOK, PairOf, Modes
  <2> QED
    BY <1>0, <2>1, <2>2, <2>3 DEF EncryptionInv, EncryptionTypeOK, AtRestInv, KeepsServed, Reached,
       DeployerMoved, DeployerAt, Writes, DeployerOf, EnvOf
<1>5. CASE ResetAction
  <2>1. /\ deployer.at = "reset" /\ wanted' = [wanted EXCEPT !.action = FALSE]
        /\ deployer' = [deployer EXCEPT !.at = "accept"]
        /\ UNCHANGED <<certs, pendingPair, envFile, running, unsure, served, issued>>
    BY <1>5 DEF ResetAction, DeployerAt
  <2>2. DeployerMoved("accept", deployer.changed, deployer.touched)
    BY <1>0, <2>1 DEF DeployerOf, DeployerMoved, DeployerAt, Stages
  <2>3. wanted' \in WantedOf
    BY <1>0, <2>1 DEF EncryptionTypeOK, WantedOf
  <2> QED
    BY <1>0, <2>1, <2>2, <2>3, DeployGoesOn DEF EncryptionTypeOK, DeployerAt, DeployerOf, Stages
<1>6. CASE AcceptCert
  <2>1. /\ deployer.at = "accept" /\ ~DeployerAt("idle")
        /\ UNCHANGED <<pendingPair, envFile, running, unsure, wanted, served, issued>>
    BY <1>6 DEF AcceptCert, DeployerAt, WebLeft
  <2>2. CASE /\ deployer.cfg.mode = "uploaded"
             /\ deployer' = [deployer EXCEPT !.at = "acceptKey", !.changed = TRUE]
             /\ certs' = [certs EXCEPT !.uploaded.cert = pendingPair.cert]
    <3>1. DeployerMoved("acceptKey", TRUE, deployer.touched)
      BY <1>0, <2>1, <2>2 DEF DeployerOf, DeployerMoved, Stages
    <3>2. /\ certs' \in [default : PairOf, uploaded : PairOf, existing : PairOf]
          /\ \A m \in Modes : m # "uploaded" => certs'[m] = certs[m]
      BY <1>0, <2>2 DEF EncryptionTypeOK, PairOf, Modes
    <3> QED
      BY <1>0, <2>1, <2>2, <3>1, <3>2 DEF EncryptionInv, EncryptionTypeOK, AtRestInv, KeepsServed,
         Reached, DeployerMoved, DeployerAt, Writes, DeployerOf, EnvOf
  <2>3. CASE deployer' = [deployer EXCEPT !.at = "conf"] /\ UNCHANGED certs
    <3>1. DeployerMoved("conf", deployer.changed, deployer.touched)
      BY <1>0, <2>1, <2>3 DEF DeployerOf, DeployerMoved, Stages
    <3> QED
      BY <1>0, <2>1, <2>3, <3>1, DeployGoesOn DEF EncryptionTypeOK, DeployerOf, Stages
  <2> QED
    BY <1>6, <2>2, <2>3 DEF AcceptCert
<1>7. CASE AcceptKey
  <2>1. /\ deployer.at = "acceptKey" /\ certs' = [certs EXCEPT !.uploaded.key = certs.uploaded.cert]
        /\ deployer' = [deployer EXCEPT !.at = "unlink"]
        /\ UNCHANGED <<pendingPair, envFile, running, unsure, wanted, served, issued>>
    BY <1>7 DEF AcceptKey, DeployerAt, WebLeft
  <2>2. DeployerMoved("unlink", deployer.changed, deployer.touched)
    BY <1>0, <2>1 DEF DeployerOf, DeployerMoved, DeployerAt, Stages
  <2>3. /\ certs' \in [default : PairOf, uploaded : PairOf, existing : PairOf]
        /\ \A m \in Modes : m # "uploaded" => certs'[m] = certs[m]
    BY <1>0, <2>1 DEF EncryptionTypeOK, PairOf, Modes
  <2> QED
    BY <1>0, <2>1, <2>2, <2>3 DEF EncryptionInv, EncryptionTypeOK, AtRestInv, KeepsServed, Reached,
       DeployerMoved, DeployerAt, Writes, DeployerOf, EnvOf
<1>8. CASE UnlinkPending
  <2>1. /\ deployer.at = "unlink" /\ pendingPair' = NoPair
        /\ deployer' = [deployer EXCEPT !.at = "conf"]
        /\ UNCHANGED <<certs, envFile, running, unsure, wanted, served, issued>>
    BY <1>8 DEF UnlinkPending, DeployerAt, WebLeft
  <2>2. DeployerMoved("conf", deployer.changed, deployer.touched)
    BY <1>0, <2>1 DEF DeployerOf, DeployerMoved, DeployerAt, Stages
  <2>3. NoPair \in PairOf
    BY DEF NoPair, Pair, Nothing, PairOf
  <2> QED
    BY <1>0, <2>1, <2>2, <2>3, DeployGoesOn DEF EncryptionTypeOK, DeployerAt, DeployerOf, Stages
<1>9. CASE MigrateConf
  <2> DEFINE now == deployer.changed \/ conf # "migrated"
  <2>1. /\ deployer.at = "conf" /\ Matches(certs[deployer.cfg.mode])
        /\ deployer' = [deployer EXCEPT !.at = "env", !.changed = now]
        /\ UNCHANGED <<certs, pendingPair, envFile, running, unsure, wanted, served, issued>>
    BY <1>9 DEF MigrateConf, DeployerAt, WebLeft
  <2>2. now \in BOOLEAN /\ (deployer.changed => now)
    OBVIOUS
  <2> HIDE DEF now
  <2>3. DeployerMoved("env", now, deployer.touched)
    BY <1>0, <2>1, <2>2 DEF DeployerOf, DeployerMoved, DeployerAt, Stages
  <2> QED
    BY <1>0, <2>1, <2>2, <2>3, DeployGoesOn DEF EncryptionTypeOK, DeployerAt, Stages
<1>10. CASE CompareEnv
  <2>1. /\ deployer.at = "env" /\ ~DeployerAt("idle") /\ deployer \in DeployerOf
        /\ UNCHANGED <<certs, pendingPair, running, unsure, wanted, served, issued>>
    BY <1>0, <1>10 DEF CompareEnv, DeployerAt, WebLeft
  <2>2. CASE /\ Env(deployer.cfg) = envFile /\ ~deployer.changed
             /\ rowStatus' = "unchanged" /\ deployer' = NoDeployer /\ UNCHANGED envFile
    <3>1. DeployerAt("idle")'
      BY <2>2 DEF DeployerAt, NoDeployer
    <3>2. EncryptionTypeOK'
      BY <1>0, <2>1, <2>2, <3>1 DEF EncryptionTypeOK
    <3>3. ASSUME ~unsure PROVE running = Started /\ Matches(certs[envFile.mode])
      <4>1. ~deployer.touched
        BY <2>1, <3>3 DEF EncryptionInv, Reached, DeployerOf
      <4> QED
        BY <2>1, <2>2, <3>3, <4>1 DEF EncryptionInv, Reached, KeepsServed, Started
    <3> QED
      BY <2>1, <2>2, <3>1, <3>2, <3>3 DEF EncryptionInv, AtRestInv, KeepsServed, Reached, Started
  <2>3. CASE /\ envFile' = Env(deployer.cfg)
             /\ deployer' = [deployer EXCEPT !.at = "restart", !.touched = TRUE]
             /\ UNCHANGED rowStatus
    <3>1. DeployerMoved("restart", deployer.changed, TRUE)
      BY <2>1, <2>3 DEF DeployerOf, DeployerMoved, Stages
    <3>2. envFile' \in EnvOf
      BY <2>1, <2>3 DEF Env, EnvOf, DeployerOf, WantedOf
    <3> QED
      BY <1>0, <2>1, <2>3, <3>1, <3>2 DEF EncryptionInv, EncryptionTypeOK, AtRestInv, KeepsServed,
         Reached, DeployerMoved, DeployerAt, Writes
  <2> QED
    BY <1>10, <2>2, <2>3 DEF CompareEnv
<1>11. CASE RestartDaemon
  <2>1. /\ deployer.at = "restart" /\ running' = Started
        /\ deployer' = [deployer EXCEPT !.at = "test"]
        /\ UNCHANGED <<certs, pendingPair, envFile, unsure, wanted, served, issued>>
    BY <1>11 DEF RestartDaemon, DeployerAt, WebLeft
  <2>2. DeployerMoved("test", deployer.changed, deployer.touched)
    BY <1>0, <2>1 DEF DeployerOf, DeployerMoved, DeployerAt, Stages
  <2>3. running' = Started'
    BY <2>1 DEF Started
  <2> QED
    BY <1>0, <2>1, <2>2, <2>3 DEF EncryptionInv, EncryptionTypeOK, AtRestInv, KeepsServed, Reached,
       DeployerMoved, DeployerAt, Writes
<1>12. CASE TestProtocols
  <2>1. /\ deployer.at = "test" /\ ~DeployerAt("idle")
        /\ deployer' = NoDeployer /\ rowStatus' = "deployed"
        /\ UNCHANGED <<certs, pendingPair, envFile, running, unsure, wanted, served, issued>>
    BY <1>12 DEF TestProtocols, DeployerAt, WebLeft
  <2>2. DeployerAt("idle")'
    BY <2>1 DEF DeployerAt, NoDeployer
  <2>3. ~unsure => running = Started /\ Matches(certs[envFile.mode])
    BY <2>1 DEF EncryptionInv, Reached, Env
  <2> QED
    BY <1>0, <2>1, <2>2, <2>3 DEF EncryptionInv, EncryptionTypeOK, AtRestInv, KeepsServed, Reached,
       Started
<1>13. CASE DeployRaises
  <2>1. /\ ~DeployerAt("idle") /\ deployer' = [deployer EXCEPT !.at = "undo"]
        /\ UNCHANGED <<certs, pendingPair, envFile, running, unsure, wanted, served, issued>>
    BY <1>13 DEF DeployRaises, DeployerAt, WebLeft
  <2>2. DeployerMoved("undo", deployer.changed, deployer.touched)
    BY <1>0, <2>1 DEF DeployerOf, DeployerMoved, Stages
  <2> QED
    BY <1>0, <2>1, <2>2, DeployGoesOn DEF EncryptionTypeOK, DeployerOf, Stages
<1>14. CASE RestoreCertBackup
  <2>1. /\ deployer.at = "undo" /\ ~DeployerAt("idle") /\ deployer \in DeployerOf
        /\ certs' = IF deployer.backup = NoPair THEN certs
                    ELSE [certs EXCEPT ![deployer.cfg.mode] = deployer.backup]
        /\ deployer' = [deployer EXCEPT !.at = "undoEnv"]
        /\ UNCHANGED <<pendingPair, envFile, running, unsure, wanted, served, issued>>
    BY <1>0, <1>14 DEF RestoreCertBackup, DeployerAt, WebLeft
  <2>2. DeployerMoved("undoEnv", deployer.changed, deployer.touched)
    BY <2>1 DEF DeployerOf, DeployerMoved, Stages
  <2>3. deployer.cfg.mode \in Modes /\ deployer.env.mode \in Modes /\ deployer.backup \in PairOf
    BY <2>1 DEF DeployerOf, WantedOf, EnvOf
  <2>4. /\ certs' \in [default : PairOf, uploaded : PairOf, existing : PairOf]
        /\ \A m \in Modes : m # deployer.cfg.mode => certs'[m] = certs[m]
        /\ deployer.backup # NoPair => certs'[deployer.cfg.mode] = deployer.backup
        /\ deployer.backup = NoPair => certs' = certs
    BY <1>0, <2>1, <2>3 DEF EncryptionTypeOK, Modes
  <2>5. ASSUME ~unsure PROVE certs'[deployer.env.mode] = served.pair
    <3>1. served.pair # NoPair
      BY <2>1, <2>5 DEF EncryptionInv, KeepsServed, Matches, NoPair, Pair, Nothing
    <3>2. CASE deployer.cfg.mode # deployer.env.mode \/ ~Writes
      BY <2>1, <2>3, <2>4, <2>5, <3>2 DEF EncryptionInv, KeepsServed
    <3>3. CASE deployer.cfg.mode = deployer.env.mode /\ Writes
      BY <2>1, <2>4, <2>5, <3>1, <3>3 DEF EncryptionInv, KeepsServed
    <3> QED
      BY <3>2, <3>3
  <2>6. EncryptionTypeOK'
    BY <1>0, <2>1, <2>2, <2>4 DEF EncryptionTypeOK, DeployerMoved
  <2>7. ASSUME ~unsure PROVE AtRestInv' /\ KeepsServed' /\ Reached'
    <3>1. ~DeployerAt("idle")'
      BY <2>2 DEF DeployerMoved, DeployerAt
    <3>2. KeepsServed'
      BY <2>1, <2>2, <2>5, <2>7 DEF EncryptionInv, KeepsServed, DeployerMoved, Writes
    <3>3. Reached'
      BY <2>1, <2>2, <2>7 DEF EncryptionInv, Reached, DeployerMoved
    <3> QED
      BY <3>1, <3>2, <3>3 DEF AtRestInv
  <2> QED
    BY <2>1, <2>6, <2>7 DEF EncryptionInv
<1>15. CASE RestoreEnvBackup
  <2>1. /\ deployer.at = "undoEnv" /\ ~DeployerAt("idle") /\ deployer \in DeployerOf
        /\ deployer' = NoDeployer /\ DeployerAt("idle")'
        /\ UNCHANGED <<certs, pendingPair, unsure, wanted, served, issued>>
    BY <1>0, <1>15 DEF RestoreEnvBackup, DeployerAt, WebLeft, NoDeployer
  <2>2. ~unsure => /\ certs[deployer.env.mode] = served.pair /\ Matches(served.pair)
                   /\ served = [env |-> deployer.env, pair |-> certs[deployer.env.mode]]
    BY <2>1 DEF EncryptionInv, KeepsServed
  <2>3. CASE /\ deployer.touched /\ envFile' = deployer.env
             /\ running' = [env |-> deployer.env, pair |-> certs[deployer.env.mode]]
    <3>1. EncryptionTypeOK'
      BY <1>0, <2>1, <2>3 DEF EncryptionTypeOK, DeployerOf
    <3>2. ~unsure => running' = Started' /\ running' = served' /\ Matches(certs'[envFile'.mode])
      BY <2>1, <2>2, <2>3 DEF Started
    <3> QED
      BY <2>1, <3>1, <3>2 DEF EncryptionInv, AtRestInv, KeepsServed, Reached
  <2>4. CASE ~deployer.touched /\ UNCHANGED <<envFile, running>>
    <3>1. EncryptionTypeOK'
      BY <1>0, <2>1, <2>4 DEF EncryptionTypeOK
    <3>2. ~unsure => running' = Started' /\ running' = served' /\ Matches(certs'[envFile'.mode])
      BY <2>1, <2>2, <2>4 DEF Started, EncryptionInv, Reached
    <3> QED
      BY <2>1, <3>1, <3>2 DEF EncryptionInv, AtRestInv, KeepsServed, Reached
  <2> QED
    BY <1>15, <2>1, <2>3, <2>4 DEF RestoreEnvBackup
<1>16. CASE KillEncryptionDeploy
  <2>1. /\ ~DeployerAt("idle") /\ deployer \in DeployerOf /\ deployer' = NoDeployer
        /\ unsure' = (unsure \/ deployer.changed \/ deployer.touched)
        /\ UNCHANGED <<certs, pendingPair, wanted, envFile, running, served, issued>>
    BY <1>0, <1>16 DEF KillEncryptionDeploy
  <2>2. DeployerAt("idle")'
    BY <2>1 DEF DeployerAt, NoDeployer
  <2>3. unsure' \in BOOLEAN /\ (~unsure' => ~unsure /\ ~deployer.changed /\ ~deployer.touched)
    BY <1>0, <2>1 DEF EncryptionTypeOK, DeployerOf
  <2>4. EncryptionTypeOK'
    BY <1>0, <2>1, <2>2, <2>3 DEF EncryptionTypeOK
  <2>5. ~unsure' => /\ running' = Started' /\ running' = served' /\ Matches(certs'[envFile'.mode])
    BY <2>1, <2>3 DEF Started, EncryptionInv, KeepsServed, Reached
  <2> QED
    BY <2>2, <2>4, <2>5 DEF EncryptionInv, AtRestInv, KeepsServed, Reached
<1>17. CASE UNCHANGED encryptionVars
  BY <1>17, <1>0, WebStep DEF encryptionVars, EncryptionTypeOK
<1> QED
  BY <1>1, <1>2, <1>3, <1>4, <1>5, <1>6, <1>7, <1>8, <1>9, <1>10, <1>11, <1>12, <1>13, <1>14, <1>15,
     <1>16, <1>17 DEF EncryptionNext

\* A deploy that ended well runs dnsdist with what is on disk and one that failed
\* leaves it with what it ran before, for any number of requests, certificates and
\* kills that came before a deploy had written anything.
THEOREM EncryptionServes == EncryptionSpec => []ServesWhatRowSays
<1>1. EncryptionInv => ServesWhatRowSays
  BY DEF EncryptionInv, AtRestInv, ServesWhatRowSays
<1> QED
  BY <1>1, EncryptionInitInv, EncryptionNextInv, PTL DEF EncryptionSpec

----------------------------------------------------------------------------
(* The dnsdist upgrade.                                                    *)

AfterVerify == {"sources", "update", "candidate", "simulate", "install", "capabilities", "check",
                "restart", "baseline"}

\* The command only passes a step that did its part, a deploy outside of a run is
\* in what the run saves, and a report belongs to a run that is over.
UpgradeInv ==
    /\ keyring \in {"none", "published"}
    /\ config \in Nat /\ saved \in Nat /\ deploys \in Nat /\ overlapped \in BOOLEAN
    /\ upStep \in AfterVerify => keyring = "published"
    /\ upStep \in {"check", "restart", "baseline"} => package = "enhanced"
    /\ upStep = "baseline" => process = "enhanced"
    /\ upReport = "changed" => /\ upStep = "idle" /\ package = "enhanced"
                               /\ process = "enhanced" /\ keyring = "published"
    /\ ~overlapped => config = deploys /\ (upStep \in Guarded => saved = config)

LEMMA UpgradeInitInv == DnsdistUpgradeInit => UpgradeInv
<1> SUFFICES ASSUME DnsdistUpgradeInit PROVE UpgradeInv
  OBVIOUS
<1>1. overlapped \in BOOLEAN
  BY Zenon DEF DnsdistUpgradeInit
<1> QED
  BY <1>1 DEF DnsdistUpgradeInit, UpgradeInv, AfterVerify, Guarded

LEMMA UpgradeNextInv == UpgradeInv /\ [UpgradeNext]_upgradeVars => UpgradeInv'
<1> SUFFICES ASSUME UpgradeInv, [UpgradeNext]_upgradeVars PROVE UpgradeInv'
  OBVIOUS
<1> USE DEF UpgradeInv, AfterVerify, Guarded
<1>1. CASE StartUpgrade
  BY <1>1 DEF StartUpgrade
<1>2. ASSUME NEW ok \in BOOLEAN, ResolveRepoHost(ok) PROVE UpgradeInv'
  BY <1>2 DEF ResolveRepoHost
<1>3. CASE BackupState
  BY <1>3 DEF BackupState
<1>4. ASSUME NEW k \in {"published", "other"}, DownloadSigningKey(k) PROVE UpgradeInv'
  BY <1>4 DEF DownloadSigningKey
<1>5. CASE VerifySigningKey
  BY <1>5 DEF VerifySigningKey
<1>6. CASE WriteAptSources
  BY <1>6 DEF WriteAptSources
<1>7. CASE AptChecks("update", "candidate") \/ AptChecks("candidate", "simulate")
           \/ AptChecks("simulate", "install") \/ AptChecks("check", "restart")
  BY <1>7 DEF AptChecks
<1>8. ASSUME NEW p \in {"enhanced", "lacking"}, NEW b \in BOOLEAN, AptInstall(p, b) PROVE UpgradeInv'
  BY <1>8 DEF AptInstall
<1>9. CASE CheckCapabilities
  BY <1>9 DEF CheckCapabilities
<1>10. CASE RestartAndVerify
  BY <1>10 DEF RestartAndVerify
<1>11. CASE BaselineDnsTest
  BY <1>11 DEF BaselineDnsTest
<1>12. CASE UpgradeRollsBack
  <2>1. /\ upStep \in Guarded /\ config' = saved /\ upStep' = "idle" /\ upReport' = "rolled_back"
        /\ UNCHANGED <<saved, keyring, overlapped, deploys>>
    BY <1>12 DEF UpgradeRollsBack
  <2> QED
    BY <2>1
<1>13. CASE UpgradeEscapes
  BY <1>13 DEF UpgradeEscapes
<1>14. CASE OtherDeploy
  <2>1. /\ deploys' = deploys + 1 /\ config' = config + 1 /\ process' = package
        /\ overlapped' = (overlapped \/ upStep # "idle")
        /\ UNCHANGED <<upStep, upReport, package, saved, keyring>>
    BY <1>14 DEF OtherDeploy
  <2>2. overlapped' \in BOOLEAN /\ (~overlapped' => ~overlapped /\ upStep = "idle")
    BY <2>1
  <2> QED
    BY <2>1, <2>2
<1>15. CASE UNCHANGED upgradeVars
  BY <1>15 DEF upgradeVars
<1> QED
  BY <1>1, <1>2, <1>3, <1>4, <1>5, <1>6, <1>7, <1>8, <1>9, <1>10, <1>11, <1>12, <1>13, <1>14, <1>15
     DEF UpgradeNext

\* What install-enhanced-dnsdist reports is so, for any number of runs, failures
\* at any step and deploys beside it.
THEOREM UpgradeTellsTruth == DnsdistUpgradeSpec => []UpgradeReportIsTrue
<1>1. UpgradeInv => UpgradeReportIsTrue
  BY DEF UpgradeInv, UpgradeReportIsTrue
<1> QED
  BY <1>1, UpgradeInitInv, UpgradeNextInv, PTL DEF DnsdistUpgradeSpec

----------------------------------------------------------------------------
(* The alerts.                                                             *)

AlarmStates == {NoneYet, "bad", "ok"}

\* Where the checker stands; an alarm is under way while it dispatches or stores.
AlertsTypeOK ==
    /\ checkState \in [Alarms -> AlarmStates] /\ told \in [Alarms -> AlarmStates]
    /\ checker.at \in {"idle", "check", "dispatch", "store"}
    /\ checker.at \in {"dispatch", "store"} =>
         /\ checker = [at |-> checker.at, next |-> checker.next, new |-> checker.new]
         /\ Checks[checker.next] \in Alarms /\ checker.new \in {"bad", "ok"}

\* What is about to be stored is what was told.
StoresWhatWasTold ==
    checker.at = "store" /\ Checks[checker.next] \notin excused =>
        told[Checks[checker.next]] = checker.new

AlertsInv == AlertsTypeOK /\ StoresWhatWasTold /\ AlertNotLost

LEMMA CheckerMovesOn == CheckDone.at \in {"idle", "check"} /\ IdleChecker.at = "idle"
  BY DEF CheckDone, IdleChecker

LEMMA AlertsInitInv == AlertsInit => AlertsInv
  BY CheckerMovesOn DEF AlertsInit, AlertsInv, AlertsTypeOK, StoresWhatWasTold, AlertNotLost,
     AlarmStates

\* The checker goes on without storing; a message that was out is excused.
LEMMA CheckIsCut ==
    ASSUME AlertsInv, Cut, checker'.at \in {"idle", "check"}, UNCHANGED <<checkState, told>>
    PROVE  AlertsInv'
<1>1. AlertsTypeOK' /\ StoresWhatWasTold'
  BY DEF AlertsInv, AlertsTypeOK, StoresWhatWasTold
<1>2. AlertNotLost'
  BY DEF AlertsInv, AlertNotLost, Cut
<1> QED
  BY <1>1, <1>2 DEF AlertsInv

LEMMA AlertsNextInv == AlertsInv /\ [AlertsNext]_alertsVars => AlertsInv'
<1> SUFFICES ASSUME AlertsInv, [AlertsNext]_alertsVars PROVE AlertsInv'
  OBVIOUS
<1> USE DEF AlertsInv
<1>1. CASE StartChecks
  BY <1>1 DEF StartChecks, AlertsTypeOK, StoresWhatWasTold, AlertNotLost
<1>2. ASSUME NEW a \in Alarms, FireEdge(a) PROVE AlertsInv'
  <2>1. /\ checker.at = "check" /\ a = Checks[checker.next] /\ UNCHANGED <<told, excused>>
    BY <1>2 DEF FireEdge
  <2>2. NewState(a) \in {"bad", "ok"}
    BY DEF NewState
  <2>3. CASE /\ checker' = [at |-> "dispatch", next |-> checker.next, new |-> NewState(a)]
             /\ UNCHANGED checkState
    <3>1. AlertsTypeOK'
      BY <2>1, <2>2, <2>3 DEF AlertsTypeOK
    <3>2. StoresWhatWasTold' /\ AlertNotLost'
      BY <2>1, <2>3 DEF StoresWhatWasTold, AlertNotLost
    <3> QED
      BY <3>1, <3>2
  <2>4. CASE /\ checker' = CheckDone /\ ~(Evaluated(a) /\ Edge(a))
             /\ checkState' = IF Evaluated(a) THEN [checkState EXCEPT ![a] = NewState(a)] ELSE checkState
    <3>1. /\ checkState' \in [Alarms -> AlarmStates]
          /\ \A b \in Alarms : (checkState'[b] = "bad") = (checkState[b] = "bad")
      BY <2>2, <2>4 DEF AlertsTypeOK, AlarmStates, Edge
    <3>2. AlertsTypeOK' /\ StoresWhatWasTold'
      BY <2>1, <2>4, <3>1, CheckerMovesOn DEF AlertsTypeOK, StoresWhatWasTold
    <3>3. AlertNotLost'
      BY <2>1, <2>4, <3>1 DEF AlertNotLost
    <3> QED
      BY <3>2, <3>3
  <2> QED
    BY <1>2, <2>3, <2>4 DEF FireEdge
<1>3. CASE CheckerDispatches
  <2> DEFINE a == Checks[checker.next]
  <2>1. /\ checker.at = "dispatch" /\ Dispatch(a, checker.new) /\ UNCHANGED checkState
        /\ checker' = [checker EXCEPT !.at = "store"]
    BY <1>3 DEF CheckerDispatches
  <2>2. a \in Alarms /\ checker.new \in {"bad", "ok"}
    BY <2>1 DEF AlertsTypeOK
  <2>3. checker' = [at |-> "store", next |-> checker.next, new |-> checker.new]
    <3>1. checker = [at |-> "dispatch", next |-> checker.next, new |-> checker.new]
      BY <2>1 DEF AlertsTypeOK
    <3> QED
      BY <2>1, <3>1
  <2> HIDE DEF a
  <2>4. /\ told' \in [Alarms -> AlarmStates]
        /\ \A b \in Alarms : b # a => told'[b] = told[b] /\ (b \in excused' <=> b \in excused)
        /\ a \notin excused' => told'[a] = checker.new
    BY <2>1, <2>2 DEF Dispatch, AlertsTypeOK, AlarmStates
  <2>5. AlertsTypeOK'
    BY <2>1, <2>2, <2>3, <2>4 DEF AlertsTypeOK, a
  <2>6. StoresWhatWasTold'
    BY <2>3, <2>4 DEF StoresWhatWasTold, a
  <2>7. AlertNotLost'
    BY <2>1, <2>3, <2>4 DEF AlertNotLost, a
  <2> QED
    BY <2>5, <2>6, <2>7
<1>4. CASE SetCheckState
  <2> DEFINE a == Checks[checker.next]
  <2>1. /\ checker.at = "store" /\ checkState' = [checkState EXCEPT ![a] = checker.new]
        /\ checker' = CheckDone /\ UNCHANGED <<told, excused>>
    BY <1>4 DEF SetCheckState
  <2>2. a \in Alarms /\ checker.new \in {"bad", "ok"}
    BY <2>1 DEF AlertsTypeOK
  <2>3. a \notin excused => told[a] = checker.new
    BY <2>1 DEF StoresWhatWasTold
  <2>4. \A b \in Alarms \ excused : b # a => (checkState[b] = "bad") = (told[b] = "bad")
    BY <2>1 DEF AlertNotLost
  <2> HIDE DEF a
  <2>5. AlertsTypeOK' /\ StoresWhatWasTold'
    BY <2>1, <2>2, CheckerMovesOn DEF AlertsTypeOK, AlarmStates, StoresWhatWasTold
  <2>6. AlertNotLost'
    BY <2>1, <2>2, <2>3, <2>4 DEF AlertNotLost, AlertsTypeOK
  <2> QED
    BY <2>5, <2>6
<1>5. CASE CheckRepeatedRestarts
  <2>1. checker.at = "check" /\ checker' = CheckDone /\ UNCHANGED <<checkState, told, excused>>
    BY <1>5 DEF CheckRepeatedRestarts
  <2> QED
    BY <2>1, CheckerMovesOn, CheckIsCut DEF Cut
<1>6. CASE CheckRaises \/ CheckerKilled
  <2>1. Cut /\ checker' \in {CheckDone, IdleChecker} /\ UNCHANGED <<checkState, told>>
    BY <1>6 DEF CheckRaises, CheckerKilled
  <2> QED
    BY <2>1, CheckerMovesOn, CheckIsCut
<1>7. ASSUME NEW n \in {"bad", "ok"}, CollectorNotifies(n) PROVE AlertsInv'
  <2>1. /\ told' = [told EXCEPT !["writer"] = n] /\ excused' = excused \cup {"writer"}
        /\ UNCHANGED <<checkState, checker>>
    BY <1>7 DEF CollectorNotifies
  <2> QED
    BY <2>1 DEF AlertsTypeOK, AlarmStates, StoresWhatWasTold, AlertNotLost
<1>8. CASE WorldChanges \/ CooldownEnds \/ ChangeSubscriptions \/ ProviderCleared \/ UNCHANGED alertsVars
  <2>1. UNCHANGED <<checkState, checker, told, excused>>
    BY <1>8 DEF WorldChanges, CooldownEnds, ChangeSubscriptions, ProviderCleared, alertsVars
  <2> QED
    BY <2>1 DEF AlertsTypeOK, StoresWhatWasTold, AlertNotLost
<1> QED
  BY <1>1, <1>2, <1>3, <1>4, <1>5, <1>6, <1>7, <1>8 DEF AlertsNext

\* The stored state of an alarm is what was last told of it, unless that message was
\* not asked for, not delivered, suppressed or not recorded, for any resolvers and
\* any number of changes, raising checks and kills.
THEOREM AlertsNotLost == AlertsSpec => []AlertNotLost
<1>1. AlertsInv => AlertNotLost
  BY DEF AlertsInv
<1> QED
  BY <1>1, AlertsInitInv, AlertsNextInv, PTL DEF AlertsSpec

----------------------------------------------------------------------------
(* The check of the allow rules.                                           *)

\* A rewrite of a name takes the exact owner from its allow, so what is left of
\* the allow is its wildcard, which no rewrite owns.
LEMMA AllowUnderRewrite ==
    ASSUME NEW n, Allow(n) # {}
    PROVE  \/ Rewrite(n) = {}
           \/ "subdomains" \in Allow(n) /\ "subdomains" \notin Rewrite(n)
<1> SUFFICES ASSUME Rewrite(n) # {} PROVE "subdomains" \in Allow(n) /\ "subdomains" \notin Rewrite(n)
  OBVIOUS
<1>1. Allow(n) = Without(Covers(Enabled("allow", n)), Rewrite(n))
  BY DEF Allow
<1>2. Covers(Enabled("allow", n)) \subseteq {"exact", "subdomains"}
  BY DEF Covers
<1> QED
  BY <1>1, <1>2 DEF Without

LEMMA AllowIsRepresented == ASSUME NEW n, Allow(n) # {} PROVE AllowRepresented(n)
<1>1. CASE Rewrite(n) = {}
  <2>1. RenderRpz(Exact(n)) = "passthru"
    BY <1>1 DEF RenderRpz, Exact, Owns
  <2>2. "subdomains" \in Allow(n) => RenderRpz(Wild(n)) = "passthru"
    BY <1>1 DEF RenderRpz, Wild, Owns
  <2> QED
    BY <2>1, <2>2 DEF AllowRepresented
<1>2. CASE "subdomains" \in Allow(n) /\ "subdomains" \notin Rewrite(n)
  <2>1. RenderRpz(Wild(n)) = "passthru"
    BY <1>2 DEF RenderRpz, Wild, Owns
  <2> QED
    BY <2>1 DEF AllowRepresented
<1> QED
  BY <1>1, <1>2, AllowUnderRewrite

\* validate_allow_domains never refuses a deploy, whatever names, rules, lists
\* and priorities there are: no inductive invariant is needed, it is a fact of
\* what the rules compile to.
THEOREM AllowCheckNeverRefuses == PolicySpec => []AllowCheckAccepts
<1>1. AllowCheckAccepts
  <2> SUFFICES ASSUME NEW n \in Names, Allow(n) # {} \/ n \in Listed("allows")
               PROVE  n \notin Subtracted /\ AllowRepresented(n)
    BY DEF AllowCheckAccepts
  <2>1. n \notin Subtracted
    BY DEF Subtracted, ActiveBlocks
  <2>2. AllowRepresented(n)
    <3>1. CASE Allow(n) # {}
      BY <3>1, AllowIsRepresented
    <3>2. CASE Allow(n) = {}
      BY <3>2 DEF AllowRepresented
    <3> QED
      BY <3>1, <3>2
  <2> QED
    BY <2>1, <2>2
<1> QED
  BY <1>1, PTL

----------------------------------------------------------------------------
(* Test a domain.                                                          *)

\* The rows of the table: keys, priorities and whether a rule is enabled.
RuleRow == [priority : {Normal, Important}, enabled : BOOLEAN]
PolicyTypeOK == DOMAIN rules \subseteq Key /\ rules \in [DOMAIN rules -> RuleRow]

LEMMA PolicyInitType == PolicyInit => PolicyTypeOK
  BY DEF PolicyInit, PolicyTypeOK

LEMMA PolicyNextType == PolicyTypeOK /\ [PolicyNext]_policyVars => PolicyTypeOK'
<1> SUFFICES ASSUME PolicyTypeOK, [PolicyNext]_policyVars PROVE PolicyTypeOK'
  OBVIOUS
<1> USE DEF PolicyTypeOK, RuleRow
<1>1. ASSUME NEW k \in Key, NEW p \in {Normal, Important}, AddRule(k, p) PROVE PolicyTypeOK'
  BY <1>1 DEF AddRule
<1>2. ASSUME NEW k \in DOMAIN rules, SetEnabled(k) PROVE PolicyTypeOK'
  BY <1>2 DEF SetEnabled
<1>3. ASSUME NEW k \in DOMAIN rules, DeleteRule(k) PROVE PolicyTypeOK'
  BY <1>3 DEF DeleteRule
<1>4. ASSUME NEW k \in DOMAIN rules, NEW p \in {Normal, Important}, UpdateRule(k, k, p, TRUE)
      PROVE PolicyTypeOK'
  BY <1>4 DEF UpdateRule
<1>5. CASE UNCHANGED rules
  BY <1>5
<1> QED
  BY <1>1, <1>2, <1>3, <1>4, <1>5 DEF PolicyNext, DownloadSource, policyVars

\* The names that cover q, of which the longest decides.
Chain(q) == {q} \cup Above[q]

\* The more labels, the more names above.
LEMMA AboveIsFewer ==
    ASSUME NEW n \in Names, NEW m \in Above[n]
    PROVE  /\ m \in Names /\ n \notin Above[n]
           /\ Cardinality(Above[n]) \in Nat /\ Cardinality(Above[m]) \in Nat
           /\ Cardinality(Above[m]) < Cardinality(Above[n])
<1>1. m \in Names /\ Above[m] \subseteq Above[n] \ {m} /\ n \notin Above[n]
  BY FilterPolicyAssumption
<1>2. IsFiniteSet(Above[n]) /\ Above[m] \in SUBSET Above[n] /\ Above[m] # Above[n]
  BY <1>1, FilterPolicyAssumption
<1>3. IsFiniteSet(Above[m]) /\ Cardinality(Above[m]) <= Cardinality(Above[n])
      /\ Cardinality(Above[m]) # Cardinality(Above[n])
  BY <1>2, FS_Subset
<1>4. Cardinality(Above[n]) \in Nat /\ Cardinality(Above[m]) \in Nat
  BY <1>2, <1>3, FS_CardinalityType
<1> QED
  BY <1>1, <1>3, <1>4

\* Longest of some names of a chain is one of them, and the others are above it.
LEMMA LongestOfChain ==
    ASSUME NEW q \in Names, NEW S \in SUBSET Chain(q), S # {}
    PROVE  /\ Longest(S) \in S
           /\ \A m \in S : m = Longest(S) \/ m \in Above[Longest(S)]
<1> DEFINE d(n) == Cardinality(Above[n])
           short == {d(q) - d(n) : n \in S}
           R == OpToRel(<, Nat)
<1>1. \A n \in Chain(q) : n \in Names /\ d(n) \in Nat /\ d(n) <= d(q)
  <2>1. d(q) \in Nat
    BY FilterPolicyAssumption, FS_CardinalityType
  <2> QED
    BY <2>1, AboveIsFewer DEF Chain
<1>2. \A n \in Chain(q) : \A m \in Above[n] : d(m) < d(n)
  BY <1>1, AboveIsFewer
<1>3. d(q) \in Nat
  BY <1>1 DEF Chain
<1> HIDE DEF d
<1>4. short \subseteq Nat /\ short # {}
  BY <1>1, <1>3
<1>5. \E x \in short : \A y \in short : ~(<<y, x>> \in R)
  <2> HIDE DEF short, R
  <2>1. IsWellFoundedOn(R, Nat)
    BY NatLessThanWellFounded DEF R
  <2> QED
    BY <1>4, <2>1, WFMin
<1>6. PICK x \in short : \A y \in short : ~(y < x)
  BY <1>4, <1>5 DEF OpToRel
<1>7. PICK n \in S : x = d(q) - d(n)
  BY <1>6
<1>8. ASSUME NEW m \in S PROVE d(m) <= d(n)
  <2>1. d(q) - d(m) \in short
    OBVIOUS
  <2>2. ~(d(q) - d(m) < d(q) - d(n))
    BY <1>6, <1>7, <2>1
  <2>3. d(m) \in Nat /\ d(n) \in Nat
    BY <1>1
  <2> QED
    BY <1>3, <2>2, <2>3
<1>9. Longest(S) \in S /\ \A m \in S : d(m) <= d(Longest(S))
  <2>1. Longest(S) = CHOOSE c \in S : \A m \in S : d(m) <= d(c)
    BY DEF Longest, d
  <2> QED
    BY <1>8, <2>1, Zenon
<1>10. ASSUME NEW m \in S PROVE m = Longest(S) \/ m \in Above[Longest(S)]
  <2>1. m = Longest(S) \/ m \in Above[Longest(S)] \/ Longest(S) \in Above[m]
    BY <1>9, FilterPolicyAssumption DEF Chain
  <2>2. Longest(S) \notin Above[m]
    BY <1>1, <1>2, <1>9
  <2> QED
    BY <2>1, <2>2
<1> QED
  BY <1>9, <1>10

\* The enabled rules of one name that also reach its subdomains.
Reaching(type, n) == {k \in Enabled(type, n) : k.subdomains}
RuleTypes == {"rewrite", "allow", "block"}

\* What an entry covers says whether there are rules and whether they reach below.
LEMMA CoversOf ==
    ASSUME PolicyTypeOK, NEW n, NEW type \in RuleTypes
    PROVE  /\ Covers(Enabled(type, n)) \subseteq {"exact", "subdomains"}
           /\ Covers(Enabled(type, n)) = {} <=> Enabled(type, n) = {}
           /\ "subdomains" \in Covers(Enabled(type, n)) <=> Reaching(type, n) # {}
           /\ "exact" \in Covers(Enabled(type, n)) <=> Enabled(type, n) # Reaching(type, n)
<1>1. \A k \in Enabled(type, n) : k.subdomains \in BOOLEAN
  BY DEF PolicyTypeOK, Enabled, Key, RuleTypes
<1> HIDE DEF Enabled
<1> QED
  BY <1>1 DEF Covers, Reaching

\* What is compiled at the wildcard below a name.
LEMMA WildOf ==
    ASSUME PolicyTypeOK, NEW n
    PROVE  /\ "subdomains" \in Rewrite(n) <=> Reaching("rewrite", n) # {}
           /\ "subdomains" \in Allow(n) <=>
                /\ ~Outranked(n) /\ Reaching("allow", n) # {} /\ Reaching("rewrite", n) = {}
           /\ "subdomains" \in Block(n) <=>
                /\ Reaching("block", n) # {} /\ Reaching("rewrite", n) = {}
                /\ Outranked(n) \/ Reaching("allow", n) = {}
<1> DEFINE a == Covers(Enabled("allow", n))
           b == Covers(Enabled("block", n))
           r == Rewrite(n)
<1>1. /\ "subdomains" \in r <=> Reaching("rewrite", n) # {}
      /\ "subdomains" \in a <=> Reaching("allow", n) # {}
      /\ "subdomains" \in b <=> Reaching("block", n) # {}
  BY CoversOf DEF Rewrite, RuleTypes
<1>2. /\ Allow(n) = IF Outranked(n) THEN {} ELSE IF r = {} THEN a ELSE Without(a, r)
      /\ Block(n) = LET rest == IF r = {} THEN b ELSE Without(b, r)
                    IN  IF a = {} \/ Outranked(n) THEN rest ELSE Without(rest, a)
  BY DEF Allow, Block
<1> DEFINE rest == IF r = {} THEN b ELSE Without(b, r)
<1>3. "subdomains" \in Allow(n) <=> ~Outranked(n) /\ "subdomains" \in a /\ "subdomains" \notin r
  <2> HIDE DEF a, b, r
  <2> QED
    BY <1>2 DEF Without
<1>4. "subdomains" \in rest <=> "subdomains" \in b /\ "subdomains" \notin r
  <2> HIDE DEF a, b, r
  <2> QED
    BY DEF Without
<1>5. Block(n) = IF a = {} \/ Outranked(n) THEN rest ELSE Without(rest, a)
  BY <1>2
<1>6. "subdomains" \in Block(n) <=> "subdomains" \in rest /\ (Outranked(n) \/ "subdomains" \notin a)
  <2> HIDE DEF a, b, r, rest
  <2> QED
    BY <1>5 DEF Without
<1> HIDE DEF a, b, r, rest
<1> QED
  BY <1>1, <1>3, <1>4, <1>6 DEF r

\* What is compiled at a name without a rewrite.
LEMMA ExactOf ==
    ASSUME PolicyTypeOK, NEW n, Enabled("rewrite", n) = {}
    PROVE  /\ Rewrite(n) = {}
           /\ Allow(n) = IF Outranked(n) THEN {} ELSE Covers(Enabled("allow", n))
           /\ Enabled("allow", n) = {} \/ Outranked(n) => Block(n) = Covers(Enabled("block", n))
           /\ Outranked(n) => Enabled("allow", n) # {} /\ Enabled("block", n) # {}
<1>1. Rewrite(n) = {}
  BY CoversOf DEF Rewrite, RuleTypes
<1>2. Enabled("allow", n) = {} => Covers(Enabled("allow", n)) = {}
  BY CoversOf DEF RuleTypes
<1> QED
  BY <1>1, <1>2 DEF Allow, Block, Outranked

\* With nothing of its own that reaches below, a name blocks below only as listed.
LEMMA WildStatus ==
    ASSUME PolicyTypeOK, NEW n, \A type \in RuleTypes : Reaching(type, n) = {}
    PROVE  RenderRpz(Wild(n)) = IF n \in Subtracted THEN "block" ELSE "none"
<1>1. "subdomains" \notin Rewrite(n) \cup Allow(n) \cup Block(n)
  BY WildOf DEF RuleTypes
<1> QED
  BY <1>1 DEF RenderRpz, Wild, Owns

LEMMA ExactStatus ==
    ASSUME PolicyTypeOK, NEW n, \A type \in RuleTypes : Enabled(type, n) = {}
    PROVE  RenderRpz(Exact(n)) = IF n \in Subtracted THEN "block" ELSE "none"
<1>1. Covers(Enabled("allow", n)) = {} /\ Covers(Enabled("block", n)) = {}
  BY CoversOf DEF RuleTypes
<1>2. Rewrite(n) = {} /\ Allow(n) = {} /\ Block(n) = {}
  BY <1>1, ExactOf DEF RuleTypes
<1> QED
  BY <1>2 DEF RenderRpz, Exact, Owns

\* The longest name with something at its wildcard decides, n or one below n.
LEMMA RpzDecidedAt ==
    ASSUME NEW q \in Names, NEW n \in Above[q], NEW v, v # "none",
           RenderRpz(Exact(q)) \in {v, "none"}, RenderRpz(Wild(n)) = v,
           \A m \in Above[q] : n \in Above[m] => RenderRpz(Wild(m)) \in {v, "none"}
    PROVE  RpzStatus(q) = v
<1> DEFINE wild == {m \in Above[q] : RenderRpz(Wild(m)) # "none"}
<1>1. wild \in SUBSET Chain(q) /\ n \in wild
  BY DEF Chain
<1>2. /\ Longest(wild) \in wild
      /\ n = Longest(wild) \/ n \in Above[Longest(wild)]
  <2> HIDE DEF wild
  <2> QED
    BY <1>1, LongestOfChain
<1>3. RenderRpz(Wild(Longest(wild))) = v
  BY <1>2
<1>4. RpzStatus(q) = IF RenderRpz(Exact(q)) # "none" THEN RenderRpz(Exact(q))
                     ELSE IF wild = {} THEN "none" ELSE RenderRpz(Wild(Longest(wild)))
  BY DEF RpzStatus
<1> QED
  BY <1>1, <1>3, <1>4

\* The answer follows the RPZ unless a regex blocks what no list passes.
LEMMA AnswerOf ==
    ASSUME NEW q
    PROVE  /\ RpzStatus(q) = "block" => Answer(q) = "block"
           /\ Passed(q) /\ RpzStatus(q) = "rewrite" => Answer(q) = "rewrite"
           /\ Passed(q) /\ RpzStatus(q) \in {"passthru", "none"} => Answer(q) = "resolve"
  BY DEF Answer

\* The enabled rules of n that match q.
Hit(q, type, n) == IF n = q THEN Enabled(type, n) ELSE Reaching(type, n)
IsHit(q, n) == \E type \in RuleTypes : Hit(q, type, n) # {}

LEMMA Below ==
    ASSUME NEW q \in Names, NEW n \in Chain(q), NEW m \in Chain(q), n \in Above[m]
    PROVE  m \notin Above[n] /\ m # n /\ n # q /\ n \in Names /\ m \in Names
<1>1. n \in Names /\ m \in Names
  BY FilterPolicyAssumption DEF Chain
<1>2. m \notin Above[n] /\ m # n
  <2>1. CASE m \in Above[n]
    BY <1>1, <2>1, AboveIsFewer
  <2>2. CASE m = n
    BY <1>1, <2>2, AboveIsFewer
  <2> QED
    BY <2>1, <2>2
<1>3. n # q
  <2> SUFFICES ASSUME n = q PROVE FALSE
    OBVIOUS
  <2>1. m \in Above[q]
    BY <1>2 DEF Chain
  <2> QED
    BY <1>2, <2>1
<1> QED
  BY <1>1, <1>2, <1>3

LEMMA MatchingAt ==
    ASSUME PolicyTypeOK, NEW q \in Names, NEW n \in Chain(q), NEW type \in RuleTypes
    PROVE  {k \in Matching(q) : k.name = n /\ k.type = type} = Hit(q, type, n)
<1>1. n = q \/ (n # q /\ n \in Above[q])
  BY DEF Chain
<1>2. q \notin Above[q]
  BY FilterPolicyAssumption
<1>3. CASE n = q
  BY <1>2, <1>3 DEF Hit, Matching, Enabled, RuleTypes
<1>4. CASE n # q /\ n \in Above[q]
  BY <1>4 DEF Hit, Matching, Enabled, Reaching, RuleTypes
<1> QED
  BY <1>1, <1>3, <1>4

\* What evaluate_domain says when n is the longest name with a matching rule.
LEMMA Predicts ==
    ASSUME PolicyTypeOK, NEW q \in Names, NEW n \in Chain(q), IsHit(q, n),
           \A m \in Chain(q) : n \in Above[m] => ~IsHit(q, m)
    PROVE  EvaluateDomain(q) =
             IF Hit(q, "rewrite", n) # {} THEN "rewrite"
             ELSE IF Hit(q, "allow", n) = {} THEN "block"
             ELSE IF /\ Hit(q, "block", n) # {}
                     /\ Priority(Hit(q, "block", n)) > Priority(Hit(q, "allow", n)) THEN "block"
             ELSE "resolve"
<1> DEFINE S == {k.name : k \in Matching(q)}
<1>1. S \in SUBSET Chain(q)
  BY DEF Matching, Chain
<1>2. \A m \in Chain(q) : m \in S <=> IsHit(q, m)
  <2> SUFFICES ASSUME NEW m \in Chain(q) PROVE m \in S <=> IsHit(q, m)
    OBVIOUS
  <2>1. \A k \in Matching(q) : k.type \in RuleTypes
    BY DEF Matching, RuleTypes
  <2>2. \A type \in RuleTypes : {k \in Matching(q) : k.name = m /\ k.type = type} = Hit(q, type, m)
    BY MatchingAt
  <2> QED
    BY <2>1, <2>2 DEF IsHit
<1>3. n \in S
  BY <1>2
<1>4. Longest(S) = n
  <2>1. Longest(S) \in S /\ (n = Longest(S) \/ n \in Above[Longest(S)])
    <3> HIDE DEF S
    <3> QED
      BY <1>1, <1>3, LongestOfChain
  <2> QED
    BY <1>1, <1>2, <2>1
<1>5. Best(q) = {k \in Matching(q) : k.name = n}
  BY <1>4 DEF Best
<1>6. \A type \in RuleTypes : {k \in Best(q) : k.type = type} = Hit(q, type, n)
  <2> SUFFICES ASSUME NEW type \in RuleTypes
               PROVE {k \in Best(q) : k.type = type} = Hit(q, type, n)
    OBVIOUS
  <2>1. {k \in Best(q) : k.type = type} = {k \in Matching(q) : k.name = n /\ k.type = type}
    BY <1>5
  <2> QED
    BY <2>1, MatchingAt
<1>7. Matching(q) # {}
  BY <1>3
<1> HIDE DEF S
<1> QED
  BY <1>6, <1>7 DEF EvaluateDomain, EvaluateMatches, RuleTypes

\* Rules of the queried name itself.
LEMMA AgreesAtName ==
    ASSUME PolicyTypeOK, NEW q \in Names, IsHit(q, q)
    PROVE  EvaluateDomain(q) = Answer(q)
<1> DEFINE R == Enabled("rewrite", q)
           A == Enabled("allow", q)
           B == Enabled("block", q)
<1>1. EvaluateDomain(q) =
        IF R # {} THEN "rewrite" ELSE IF A = {} THEN "block"
        ELSE IF B # {} /\ Priority(B) > Priority(A) THEN "block" ELSE "resolve"
  <2>1. q \in Chain(q)
    BY DEF Chain
  <2>2. \A m \in Chain(q) : q \in Above[m] => ~IsHit(q, m)
    BY <2>1, Below
  <2> QED
    BY <2>1, <2>2, Predicts DEF Hit
<1>2. R # {} \/ A # {} \/ B # {}
  BY DEF IsHit, Hit, RuleTypes
<1>3. Outranked(q) <=> B # {} /\ A # {} /\ Priority(B) > Priority(A)
  BY DEF Outranked
<1>4. CASE R # {}
  <2>1. Rewrite(q) # {}
    BY <1>4, CoversOf DEF Rewrite, RuleTypes
  <2>2. RenderRpz(Exact(q)) = "rewrite"
    BY <2>1 DEF RenderRpz, Exact, Owns
  <2>3. Passed(q)
    BY <2>1 DEF Passed, PassExact, PassSuffixes
  <2>4. RpzStatus(q) = "rewrite"
    BY <2>2 DEF RpzStatus
  <2> QED
    BY <1>1, <1>4, <2>3, <2>4, AnswerOf
<1>5. CASE R = {} /\ (A = {} \/ Outranked(q))
  <2>1. Rewrite(q) = {} /\ Allow(q) = {} /\ Block(q) = Covers(B)
    BY <1>5, ExactOf, CoversOf DEF RuleTypes
  <2>2. B # {}
    BY <1>2, <1>3, <1>5
  <2>3. Covers(B) # {}
    BY <2>2, CoversOf DEF RuleTypes
  <2>4. RenderRpz(Exact(q)) = "block"
    BY <2>1, <2>3 DEF RenderRpz, Exact, Owns
  <2>5. RpzStatus(q) = "block"
    BY <2>4 DEF RpzStatus
  <2> QED
    BY <1>1, <1>3, <1>5, <2>5, AnswerOf
<1>6. CASE R = {} /\ A # {} /\ ~Outranked(q)
  <2>1. Rewrite(q) = {} /\ Allow(q) = Covers(A)
    BY <1>6, ExactOf
  <2>2. Covers(A) # {} /\ Covers(A) \subseteq {"exact", "subdomains"}
    BY <1>6, CoversOf DEF RuleTypes
  <2>3. RenderRpz(Exact(q)) = "passthru"
    BY <2>1, <2>2 DEF RenderRpz, Exact, Owns
  <2>4. Passed(q)
    <3>1. "subdomains" \in Allow(q) \/ Allow(q) = {"exact"}
      BY <2>1, <2>2
    <3> QED
      BY <3>1 DEF Passed, PassExact, PassSuffixes
  <2>5. RpzStatus(q) = "passthru"
    BY <2>3 DEF RpzStatus
  <2> QED
    BY <1>1, <1>3, <1>6, <2>4, <2>5, AnswerOf
<1> QED
  BY <1>4, <1>5, <1>6

\* Unless reach and importance are mixed at n, weighing all its rules or only those
\* that reach below comes to the same.
LEMMA SameWeight ==
    ASSUME PolicyTypeOK, NEW n, ~MixedReach(n), Reaching("allow", n) # {}
    PROVE  Outranked(n) <=> /\ Reaching("block", n) # {}
                            /\ Priority(Reaching("block", n)) > Priority(Reaching("allow", n))
<1> DEFINE A == Enabled("allow", n)
           B == Enabled("block", n)
           As == Reaching("allow", n)
           Bs == Reaching("block", n)
           heavy(ks) == \E k \in ks : rules[k].priority = Important
<1>1. ASSUME NEW X, NEW Y PROVE Priority(X) > Priority(Y) <=> heavy(X) /\ ~heavy(Y)
  BY DEF Priority, Normal, Important
<1>2. As \subseteq A /\ Bs \subseteq B /\ A # {}
  BY DEF Reaching
<1>3. CASE B = {}
  BY <1>2, <1>3 DEF Outranked
<1>4. CASE B # {} /\ ~heavy(A) /\ ~heavy(B)
  BY <1>1, <1>2, <1>4 DEF Outranked
<1>5. CASE B # {} /\ (heavy(A) \/ heavy(B))
  <2>1. Priority(A \cup B) = Important
    BY <1>5 DEF Priority
  <2>2. Covers(A \cup B) = Covers(A) \cup Covers(B)
    BY DEF Covers
  <2>3. "subdomains" \in Covers(A \cup B) /\ Covers(A \cup B) \subseteq {"exact", "subdomains"}
    BY <2>2, CoversOf DEF RuleTypes
  <2>4. "exact" \notin Covers(A \cup B)
    BY <1>2, <1>5, <2>1, <2>3 DEF MixedReach
  <2>5. A = As /\ B = Bs
    BY <2>2, <2>4, CoversOf DEF RuleTypes
  <2> QED
    BY <1>2, <1>5, <2>5 DEF Outranked
<1> QED
  BY <1>3, <1>4, <1>5

\* Rules of a name above the queried one.
LEMMA AgreesBelow ==
    ASSUME PolicyTypeOK, NEW q \in Names, NEW n \in Above[q], ~IsHit(q, q), IsHit(q, n),
           \A m \in Chain(q) : n \in Above[m] => ~IsHit(q, m),
           \A m \in Chain(q) : ~MixedReach(m) /\ ~ListedBelowRewrite(m)
    PROVE  EvaluateDomain(q) = Answer(q)
<1> DEFINE R == Reaching("rewrite", n)
           A == Reaching("allow", n)
           B == Reaching("block", n)
           deeper == {m \in Above[q] : n \in Above[m]}
<1>0. n # q /\ n \in Chain(q) /\ q \in Chain(q) /\ Above[q] \subseteq Chain(q) /\ q \notin Above[q]
  BY FilterPolicyAssumption DEF Chain
<1>1. EvaluateDomain(q) =
        IF R # {} THEN "rewrite" ELSE IF A = {} THEN "block"
        ELSE IF B # {} /\ Priority(B) > Priority(A) THEN "block" ELSE "resolve"
  BY <1>0, Predicts DEF Hit
<1>2. R # {} \/ A # {} \/ B # {}
  BY <1>0 DEF IsHit, Hit, RuleTypes
<1>3. RenderRpz(Exact(q)) = IF q \in Subtracted THEN "block" ELSE "none"
  BY ExactStatus DEF IsHit, Hit
<1>4. \A m \in deeper : RenderRpz(Wild(m)) = IF m \in Subtracted THEN "block" ELSE "none"
  <2> SUFFICES ASSUME NEW m \in deeper
               PROVE RenderRpz(Wild(m)) = IF m \in Subtracted THEN "block" ELSE "none"
    OBVIOUS
  <2>1. ~IsHit(q, m) /\ m # q
    BY <1>0
  <2>2. \A type \in RuleTypes : Reaching(type, m) = {}
    BY <2>1 DEF IsHit, Hit
  <2> QED
    BY <2>2, WildStatus
<1>5. /\ "subdomains" \in Rewrite(n) <=> R # {}
      /\ "subdomains" \in Allow(n) <=> ~Outranked(n) /\ A # {} /\ R = {}
      /\ "subdomains" \in Block(n) <=> B # {} /\ R = {} /\ (Outranked(n) \/ A = {})
  BY WildOf
<1>6. ~MixedReach(n) /\ ~ListedBelowRewrite(q) /\ \A m \in deeper : ~ListedBelowRewrite(m)
  BY <1>0
<1>7. n \in Names
  BY FilterPolicyAssumption
<1>8. CASE R # {}
  <2>1. RenderRpz(Wild(n)) = "rewrite"
    BY <1>5, <1>8 DEF RenderRpz, Wild, Owns
  <2>2. q \notin Subtracted /\ \A m \in deeper : m \notin Subtracted
    BY <1>5, <1>6, <1>8 DEF ListedBelowRewrite
  <2>3. RpzStatus(q) = "rewrite"
    BY <1>3, <1>4, <2>1, <2>2, RpzDecidedAt
  <2>4. Passed(q)
    BY <1>5, <1>7, <1>8 DEF Passed, PassSuffixes
  <2> QED
    BY <1>1, <1>8, <2>3, <2>4, AnswerOf
<1>9. CASE R = {} /\ (A = {} \/ Outranked(n))
  <2>1. B # {} /\ (A # {} => Priority(B) > Priority(A))
    BY <1>2, <1>6, <1>9, SameWeight
  <2>2. RenderRpz(Wild(n)) = "block"
    BY <1>5, <1>9, <2>1 DEF RenderRpz, Wild, Owns
  <2>3. RpzStatus(q) = "block"
    BY <1>3, <1>4, <2>2, RpzDecidedAt
  <2> QED
    BY <1>1, <1>9, <2>1, <2>3, AnswerOf
<1>10. CASE R = {} /\ A # {} /\ ~Outranked(n)
  <2>1. ~(B # {} /\ Priority(B) > Priority(A))
    BY <1>6, <1>10, SameWeight
  <2>2. "subdomains" \in Allow(n) /\ "subdomains" \notin Rewrite(n)
    BY <1>5, <1>10
  <2>3. RenderRpz(Wild(n)) = "passthru"
    BY <2>2 DEF RenderRpz, Wild, Owns
  <2>4. q \notin Subtracted /\ \A m \in deeper : m \notin Subtracted
    BY <2>2 DEF Subtracted
  <2>5. RpzStatus(q) = "passthru"
    BY <1>3, <1>4, <2>3, <2>4, RpzDecidedAt
  <2>6. Passed(q)
    BY <1>7, <2>2 DEF Passed, PassSuffixes
  <2> QED
    BY <1>1, <1>10, <2>1, <2>5, <2>6, AnswerOf
<1> QED
  BY <1>8, <1>9, <1>10

\* No rule matches: lists and regexes.
LEMMA AgreesWithoutRules ==
    ASSUME PolicyTypeOK, NEW q \in Names, \A m \in Chain(q) : ~IsHit(q, m)
    PROVE  EvaluateDomain(q) = Answer(q)
<1>0. q \in Chain(q) /\ Above[q] \subseteq Chain(q) /\ q \notin Above[q]
  BY FilterPolicyAssumption DEF Chain
<1>1. Matching(q) = {}
  <2> SUFFICES ASSUME NEW k \in Matching(q) PROVE FALSE
    OBVIOUS
  <2>1. k.name \in Chain(q) /\ k.type \in RuleTypes
    BY DEF Matching, Chain, RuleTypes
  <2>2. k \in Hit(q, k.type, k.name)
    BY <2>1, MatchingAt
  <2> QED
    BY <2>1, <2>2 DEF IsHit
<1>2. \A type \in RuleTypes : Enabled(type, q) = {}
  BY <1>0 DEF IsHit, Hit
<1>3. \A m \in Above[q], type \in RuleTypes : Reaching(type, m) = {}
  BY <1>0 DEF IsHit, Hit
<1>4. RenderRpz(Exact(q)) \in {"block", "none"}
  BY <1>2, ExactStatus
<1>5. \A m \in Above[q] : RenderRpz(Wild(m)) \in {"block", "none"}
  BY <1>3, WildStatus
<1>6. RpzStatus(q) \in {"block", "none"}
  <2> DEFINE wild == {m \in Above[q] : RenderRpz(Wild(m)) # "none"}
  <2>1. wild \in SUBSET Chain(q)
    BY <1>0
  <2>2. wild # {} => Longest(wild) \in wild
    <3> HIDE DEF wild
    <3> QED
      BY <2>1, LongestOfChain
  <2>3. RpzStatus(q) = IF RenderRpz(Exact(q)) # "none" THEN RenderRpz(Exact(q))
                       ELSE IF wild = {} THEN "none" ELSE RenderRpz(Wild(Longest(wild)))
    BY DEF RpzStatus
  <2> QED
    BY <1>4, <1>5, <2>2, <2>3
<1>7. Passed(q) <=> q \in RegexMatches /\ EnabledRegex("regex_allow")
  <2>1. Rewrite(q) = {} /\ Allow(q) = {}
    BY <1>2, ExactOf, CoversOf DEF RuleTypes
  <2>2. \A m \in Above[q] : "subdomains" \notin Allow(m) \cup Rewrite(m)
    BY <1>3, WildOf DEF RuleTypes
  <2> QED
    BY <2>1, <2>2 DEF Passed, PassSuffixes, PassExact
<1> QED
  BY <1>1, <1>6, <1>7 DEF EvaluateDomain, Answer

\* What Test a domain predicts from the rules is what dnsdist and BIND answer, for any
\* tree of names and any rules, priorities and lists, but for the two exceptions.
THEOREM TesterRight == PolicySpec => []TesterAgreesElsewhere
<1>1. PolicyTypeOK => TesterAgreesElsewhere
  <2> SUFFICES ASSUME PolicyTypeOK, NEW q \in Names,
                      \A m \in Chain(q) : ~MixedReach(m) /\ ~ListedBelowRewrite(m)
               PROVE  EvaluateDomain(q) = Answer(q)
    BY DEF TesterAgreesElsewhere, Chain
  <2> DEFINE S == {m \in Chain(q) : IsHit(q, m)}
  <2>1. CASE S = {}
    BY <2>1, AgreesWithoutRules
  <2>2. CASE IsHit(q, q)
    BY <2>2, AgreesAtName
  <2>3. CASE S # {} /\ ~IsHit(q, q)
    <3>1. /\ Longest(S) \in S
          /\ \A m \in S : m = Longest(S) \/ m \in Above[Longest(S)]
      <4>1. S \in SUBSET Chain(q)
        OBVIOUS
      <4> HIDE DEF S
      <4> QED
        BY <2>3, <4>1, LongestOfChain
    <3>2. Longest(S) \in Above[q]
      BY <2>3, <3>1 DEF Chain
    <3>3. \A m \in Chain(q) : Longest(S) \in Above[m] => ~IsHit(q, m)
      BY <3>1, Below
    <3> QED
      BY <2>3, <3>1, <3>2, <3>3, AgreesBelow
  <2> QED
    BY <2>1, <2>2, <2>3
<1> QED
  BY <1>1, PolicyInitType, PolicyNextType, PTL DEF PolicySpec

=============================================================================
