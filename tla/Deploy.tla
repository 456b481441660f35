------------------------------- MODULE Deploy -------------------------------
(***************************************************************************)
(* The staged deployment pipeline of app/alderpointdns_compiler.py and the *)
(* single-stage deploys it shares the appliance-wide deploy lock with.     *)
(*                                                                         *)
(* A process p is one invocation of the compiler CLI (by the web           *)
(* application, a timer or an administrator).  What it renders is          *)
(* abstracted to the configuration it was rendered from: a member of       *)
(* Policies (sources, downloaded lists and custom rules) or of Confs (one  *)
(* setting of zones, upstream resolvers or cache tuning).                  *)
(***************************************************************************)
EXTENDS Naturals, FiniteSets

CONSTANTS
  Procs,          \* compiler invocations that may run concurrently
  NoProc,         \* the lock is free
  Policies,       \* values of the filtering inputs
  Off,            \* the policy with no enabled source or rule: zero active domains
  RegexPolicies,  \* policies with an enabled regex rule
  Confs,          \* values of the zone, upstream and cache settings
  Absent,         \* a file that does not exist
  Ops,            \* the CLI commands the processes of this instance run
  Edits,          \* the inputs the administrator edits in this instance
  MaxCrashes      \* how often a process is killed half way

ASSUME DeployAssumption ==
  /\ NoProc \notin Procs
  /\ Off \in Policies /\ RegexPolicies \subseteq Policies \ {Off}
  /\ Confs # {}
  /\ Absent \notin Policies /\ Absent \notin Confs
  /\ MaxCrashes \in Nat

VARIABLES
  db,       \* the saved configuration (SQLite rows and downloaded lists)
  file,     \* the installed configuration file of every layer
  live,     \* what BIND or dnsdist has loaded of every layer
  lock,     \* holder of DEPLOY_LOCK
  op,       \* the command each process runs
  pc,       \* where it is
  staged,   \* what it rendered for each layer
  bak,      \* its last-good copies (Absent: no copy was taken)
  done,     \* stages whose outer rollback it owes: "cache", "dnsdist"
  row,      \* the latest row of the deployments table
  reuse,    \* the reusable policy artifact: the cached RPZ and its manifest
  manifest, \* the manifest each process computed
  pre,      \* history: files and services when the lock was last acquired
  crashes   \* number of processes killed so far

vars == <<db, file, live, lock, op, pc, staged, bak, done, row, reuse, manifest, pre, crashes>>

FullOps == {"deploy", "deploy --no-download"}
LockedOps == FullOps \cup {"protection-enable-reuse", "upstream-deploy", "cache-deploy"}
Layers == {"rpz", "zones", "upstream", "cache", "dnsdist"}
NoContent == [rpz |-> Absent, zones |-> Absent, upstream |-> Absent, cache |-> Absent,
              dnsdist |-> Absent]

\* The dnsdist custom-rule files hold the regex layer of the policy and the
\* local zone names that bypass it.
DnsdistFiles == [policy : Policies, zones : Confs]
\* protection_policy_manifest: every input that affects the compiled policy.
Manifest == db

Init ==
  /\ db \in [policy : Policies, zones : Confs, upstream : Confs, cache : Confs]
  /\ \/ file = NoContent       \* fresh install: nothing was ever deployed
     \/ file = [rpz |-> db.policy, zones |-> db.zones, upstream |-> db.upstream,
                cache |-> db.cache,
                dnsdist |-> [policy |-> db.policy, zones |-> db.zones]]
  /\ live = file
  /\ lock = NoProc
  /\ op = [p \in Procs |-> "none"]
  /\ pc = [p \in Procs |-> "idle"]
  /\ staged = [p \in Procs |-> NoContent]
  /\ bak = [p \in Procs |-> NoContent]
  /\ done = [p \in Procs |-> {}]
  /\ row = [status |-> "none", active |-> file.rpz \notin {Absent, Off}]
  /\ reuse = [rpz |-> Absent, manifest |-> Absent]
  /\ manifest = [p \in Procs |-> Absent]
  /\ pre = [file |-> file, live |-> live]
  /\ crashes = 0

-----------------------------------------------------------------------------
(* Helpers. *)

Goto(p, label) == pc' = [pc EXCEPT ![p] = label]

\* Where an exception of a stage leaves its process: in deploy()'s handler or,
\* for a single-stage command, out of the lock.
Raise(p) == Goto(p, IF op[p] \in FullOps \cup {"protection-enable-reuse"}
                      THEN "rollback" ELSE "release")

NextStage(label) == CASE label = "zones" -> "upstreams"
                      [] label = "upstreams" -> "cache"
                      [] label = "cache" -> "dnsdist"
                      [] label = "dnsdist" -> "postcheck"

Proceed(p, label) == Goto(p, IF op[p] \in FullOps THEN NextStage(label) ELSE "release")

\* os.replace of a staged file over the live one, the old one copied first.
Install(p, l, new) ==
  /\ bak' = [bak EXCEPT ![p][l] = file[l]]
  /\ staged' = [staged EXCEPT ![p][l] = new]
  /\ file' = [file EXCEPT ![l] = new]

\* systemctl restart dnsdist re-reads every dnsdist file.
RestartDnsdist(f) == [live EXCEPT !.upstream = f.upstream, !.dnsdist = f.dnsdist]

-----------------------------------------------------------------------------
(* The administrator saves a change; update-source replaces a downloaded   *)
(* list without the deploy lock, which is the same edit of the policy.     *)
Edit(i) ==
  /\ i \in Edits
  /\ \E v \in (IF i = "policy" THEN Policies ELSE Confs) \ {db[i]} :
       db' = [db EXCEPT ![i] = v]
  /\ UNCHANGED <<file, live, lock, op, pc, staged, bak, done, row, reuse, manifest, pre, crashes>>

FirstLabel(o) == CASE o \in FullOps -> "collect"
                   [] o = "protection-enable-reuse" -> "reuse"
                   [] o = "upstream-deploy" -> "upstreams"
                   [] o = "cache-deploy" -> "cache"

\* Mutant: the single-stage commands are registered without _locked.
Start_UnlockedStages(p) ==
  /\ pc[p] = "idle"
  /\ \E o \in Ops :
       /\ op' = [op EXCEPT ![p] = o]
       /\ Goto(p, IF o \in FullOps THEN "lock" ELSE FirstLabel(o))
  /\ UNCHANGED <<db, file, live, lock, staged, bak, done, row, reuse, manifest, pre, crashes>>

\* A compiler process starts.  All commands but local-dns-deploy wait for the lock.
Start(p) ==
  /\ pc[p] = "idle"
  /\ \E o \in Ops :
       /\ op' = [op EXCEPT ![p] = o]
       /\ Goto(p, IF o \in LockedOps THEN "lock" ELSE "zones")
  /\ UNCHANGED <<db, file, live, lock, staged, bak, done, row, reuse, manifest, pre, crashes>>

\* Mutant: the lock is not waited for.
AcquireLock_NoWait(p) ==
  /\ pc[p] = "lock"
  /\ lock' = p
  /\ Goto(p, FirstLabel(op[p]))
  /\ row' = IF op[p] \in FullOps THEN [status |-> "running", active |-> FALSE] ELSE row
  /\ pre' = [file |-> file, live |-> live]
  /\ UNCHANGED <<db, file, live, op, staged, bak, done, reuse, manifest, crashes>>

\* deploy_lock: flock(LOCK_EX).  A full deploy commits its 'running' row next.
AcquireLock(p) ==
  /\ pc[p] = "lock"
  /\ lock = NoProc
  /\ lock' = p
  /\ Goto(p, FirstLabel(op[p]))
  /\ row' = IF op[p] \in FullOps THEN [status |-> "running", active |-> FALSE] ELSE row
  /\ pre' = [file |-> file, live |-> live]
  /\ UNCHANGED <<db, file, live, op, staged, bak, done, reuse, manifest, crashes>>

\* collect_rules and custom_rules.collect_active.  A download may replace the
\* content of the enabled lists; with every source disabled there is none.
CollectRules(p) ==
  /\ pc[p] = "collect"
  /\ \E pol \in (IF op[p] = "deploy --no-download" \/ db.policy = Off
                   THEN {db.policy} ELSE {db.policy} \cup (Policies \ {Off})) :
       /\ "policy" \in Edits \/ pol = db.policy
       /\ db' = [db EXCEPT !.policy = pol]
       /\ staged' = [staged EXCEPT ![p].rpz = pol]
  /\ Goto(p, "validate")
  /\ UNCHANGED <<file, live, lock, op, bak, done, row, reuse, manifest, pre, crashes>>

\* reusable_protection_policy_available, then the row of the reuse run.
ReusablePolicy ==
  /\ reuse.rpz # Absent /\ reuse.manifest # Absent
  /\ db.policy \notin RegexPolicies
  /\ reuse.manifest = Manifest

ReuseCheck(p) ==
  /\ pc[p] = "reuse"
  /\ IF ReusablePolicy
       THEN /\ staged' = [staged EXCEPT ![p].rpz = reuse.rpz]
            /\ row' = [status |-> "running", active |-> FALSE]
            /\ Goto(p, "validate")
       ELSE /\ Goto(p, "release")
            /\ UNCHANGED <<staged, row>>
  /\ UNCHANGED <<db, file, live, lock, op, bak, done, reuse, manifest, pre, crashes>>

\* named-checkzone and named-checkconf passed: copy the installed RPZ, replace it.
InstallRpz(p) ==
  /\ pc[p] = "validate"
  /\ Install(p, "rpz", staged[p].rpz)
  /\ Goto(p, "reload")
  /\ UNCHANGED <<db, live, lock, op, done, row, reuse, manifest, pre, crashes>>

\* rndc reload of the RPZ zone; a failing rndc may or may not have loaded it.
ReloadBind(p) ==
  /\ pc[p] = "reload"
  /\ \/ /\ live' = [live EXCEPT !.rpz = file.rpz]
        /\ Goto(p, IF op[p] \in FullOps THEN "zones" ELSE "postcheck")
     \/ /\ \E r \in {live.rpz, file.rpz} : live' = [live EXCEPT !.rpz = r]
        /\ Raise(p)
  /\ UNCHANGED <<db, file, lock, op, staged, bak, done, row, reuse, manifest, pre, crashes>>

\* A check that runs before the stage has changed anything raises.
StageRaises(p) ==
  /\ pc[p] \in {"collect", "validate", "zones", "upstreams", "cache", "dnsdist", "postcheck"}
  /\ Raise(p)
  /\ UNCHANGED <<db, file, live, lock, op, staged, bak, done, row, reuse, manifest, pre, crashes>>

\* local_dns.deploy_zones: render, check, copy aside, install.
DeployZones(p) ==
  /\ pc[p] = "zones"
  /\ Install(p, "zones", db.zones)
  /\ Goto(p, "zones_check")
  /\ UNCHANGED <<db, live, lock, op, done, row, reuse, manifest, pre, crashes>>

\* Its activation and lookups.  The rollback runs only rndc reconfig, which
\* need not re-read a zone BIND already serves.
DeployZonesCheck(p) ==
  /\ pc[p] = "zones_check"
  /\ \/ /\ live' = [live EXCEPT !.zones = file.zones]
        /\ Proceed(p, "zones")
        /\ UNCHANGED file
     \/ /\ file' = [file EXCEPT !.zones = bak[p].zones]
        /\ \E z \in {live.zones, file.zones, bak[p].zones} :
             live' = [live EXCEPT !.zones = z]
        /\ Raise(p)
  /\ UNCHANGED <<db, lock, op, staged, bak, done, row, reuse, manifest, pre, crashes>>

\* upstream_dns.deploy_upstreams: install the dnsdist and BIND includes.
DeployUpstreams(p) ==
  /\ pc[p] = "upstreams"
  /\ Install(p, "upstream", db.upstream)
  /\ Goto(p, "upstreams_check")
  /\ UNCHANGED <<db, live, lock, op, done, row, reuse, manifest, pre, crashes>>

\* Over the console when the pool can be reconciled, by a restart otherwise;
\* the failure path restores the includes and always restarts dnsdist.
DeployUpstreamsCheck(p) ==
  /\ pc[p] = "upstreams_check"
  /\ \/ /\ live' \in {[live EXCEPT !.upstream = file.upstream], RestartDnsdist(file)}
        /\ Proceed(p, "upstreams")
        /\ UNCHANGED file
     \/ /\ file' = [file EXCEPT !.upstream = bak[p].upstream]
        /\ live' = RestartDnsdist(file')
        /\ Raise(p)
  /\ UNCHANGED <<db, lock, op, staged, bak, done, row, reuse, manifest, pre, crashes>>

\* dns_cache.deploy_cache_options.
DeployCache(p) ==
  /\ pc[p] = "cache"
  /\ Install(p, "cache", db.cache)
  /\ Goto(p, "cache_check")
  /\ UNCHANGED <<db, live, lock, op, done, row, reuse, manifest, pre, crashes>>

DeployCacheCheck(p) ==
  /\ pc[p] = "cache_check"
  /\ \/ /\ done' = [done EXCEPT ![p] = @ \cup {"cache"}]
        /\ Proceed(p, "cache")
        /\ UNCHANGED file
     \/ /\ file' = [file EXCEPT !.cache = bak[p].cache]
        /\ Raise(p)
        /\ UNCHANGED done
  /\ live' = [live EXCEPT !.cache = file'.cache]
  /\ UNCHANGED <<db, lock, op, staged, bak, row, reuse, manifest, pre, crashes>>

\* custom_rules.deploy_dnsdist_layer: nothing to do unless a file differs.  It
\* renders the rules collected at the start with the zone names of this moment.
DeployDnsdistLayer(p) ==
  /\ pc[p] = "dnsdist"
  /\ LET new == [policy |-> staged[p].rpz, zones |-> db.zones]
     IN IF file.dnsdist = new
          THEN /\ Goto(p, "postcheck")
               /\ UNCHANGED <<file, staged, bak>>
          ELSE /\ Install(p, "dnsdist", new)
               /\ Goto(p, "dnsdist_restart")
  /\ UNCHANGED <<db, live, lock, op, done, row, reuse, manifest, pre, crashes>>

\* Mutant: the changed files are not loaded by a restart.
DeployDnsdistRestart_None(p) ==
  /\ pc[p] = "dnsdist_restart"
  /\ done' = [done EXCEPT ![p] = @ \cup {"dnsdist"}]
  /\ Goto(p, "postcheck")
  /\ UNCHANGED <<db, file, live, lock, op, staged, bak, row, reuse, manifest, pre, crashes>>

DeployDnsdistRestart(p) ==
  /\ pc[p] = "dnsdist_restart"
  /\ \/ /\ done' = [done EXCEPT ![p] = @ \cup {"dnsdist"}]
        /\ Goto(p, "postcheck")
        /\ UNCHANGED file
     \/ /\ file' = [file EXCEPT !.dnsdist = bak[p].dnsdist]
        /\ Raise(p)
        /\ UNCHANGED done
  /\ live' = RestartDnsdist(file')
  /\ UNCHANGED <<db, lock, op, staged, bak, row, reuse, manifest, pre, crashes>>

\* The functional checks passed.  A full deploy of a non-empty policy goes on to
\* cache it, unless a list is missing and the manifest cannot be computed.
PostCheck(p) ==
  /\ pc[p] = "postcheck"
  /\ \/ op[p] \in FullOps /\ staged[p].rpz # Off /\ Goto(p, "record")
     \/ Goto(p, "success")
  /\ UNCHANGED <<db, file, live, lock, op, staged, bak, done, row, reuse, manifest, pre, crashes>>

\* record_reusable_protection_policy: the manifest is computed from the inputs as
\* they are now, then the cached RPZ and the cached manifest are replaced in turn.
RecordReusablePolicy(p) ==
  /\ pc[p] = "record"
  /\ manifest' = [manifest EXCEPT ![p] = Manifest]
  /\ reuse' = [reuse EXCEPT !.rpz = staged[p].rpz]
  /\ Goto(p, "record_manifest")
  /\ UNCHANGED <<db, file, live, lock, op, staged, bak, done, row, pre, crashes>>

RecordReusableManifest(p) ==
  /\ pc[p] = "record_manifest"
  /\ reuse' = [reuse EXCEPT !.manifest = manifest[p]]
  /\ Goto(p, "success")
  /\ UNCHANGED <<db, file, live, lock, op, staged, bak, done, row, manifest, pre, crashes>>

\* active_domains of the row: set as soon as the rules were collected.
ActiveDomains(p) == staged[p].rpz \notin {Absent, Off}

Succeed(p) ==
  /\ pc[p] = "success"
  /\ row' = [status |-> "deployed", active |-> ActiveDomains(p)]
  /\ Goto(p, "release")
  /\ UNCHANGED <<db, file, live, lock, op, staged, bak, done, reuse, manifest, pre, crashes>>

\* Mutants: the RPZ copy goes to the wrong path; the cache options are not put back.
RolledBackFiles_WrongPath(p) ==
  [file EXCEPT !.dnsdist = IF bak[p].rpz # Absent THEN bak[p].rpz ELSE @]
RolledBackFiles_NoCache(p) ==
  [file EXCEPT !.dnsdist = IF "dnsdist" \in done[p] THEN bak[p].dnsdist ELSE @,
               !.rpz = IF bak[p].rpz # Absent THEN bak[p].rpz ELSE @]

\* The except branch of deploy() and protection_enable_reuse(): the dnsdist layer,
\* the RPZ if a last-good copy was taken, the cache options; then the row.
RolledBackFiles(p) ==
  [file EXCEPT !.dnsdist = IF "dnsdist" \in done[p] THEN bak[p].dnsdist ELSE @,
               !.rpz = IF bak[p].rpz # Absent THEN bak[p].rpz ELSE @,
               !.cache = IF "cache" \in done[p] THEN bak[p].cache ELSE @]

Rollback(p) ==
  /\ pc[p] = "rollback"
  /\ file' = RolledBackFiles(p)
  /\ \E reloaded \in (IF bak[p].rpz # Absent THEN BOOLEAN ELSE {TRUE}) :
       /\ live' = [live EXCEPT
                     !.dnsdist = IF "dnsdist" \in done[p] THEN file'.dnsdist ELSE @,
                     !.upstream = IF "dnsdist" \in done[p] THEN file'.upstream ELSE @,
                     !.rpz = IF bak[p].rpz # Absent /\ reloaded THEN file'.rpz ELSE @,
                     !.cache = IF "cache" \in done[p] THEN file'.cache ELSE @]
       /\ row' = [status |-> IF reloaded THEN "rolled_back" ELSE "rollback_failed",
                  active |-> ActiveDomains(p)]
  /\ Goto(p, "release")
  /\ UNCHANGED <<db, lock, op, staged, bak, done, reuse, manifest, pre, crashes>>

\* Mutant: the lock outlives its holder.
Exit_KeepsLock(p) ==
  /\ pc' = [pc EXCEPT ![p] = "idle"]
  /\ op' = [op EXCEPT ![p] = "none"]
  /\ staged' = [staged EXCEPT ![p] = NoContent]
  /\ bak' = [bak EXCEPT ![p] = NoContent]
  /\ done' = [done EXCEPT ![p] = {}]
  /\ manifest' = [manifest EXCEPT ![p] = Absent]
  /\ UNCHANGED lock

\* What is left of a process that ends: nothing, and flock frees its lock.
Exit(p) ==
  /\ lock' = IF lock = p THEN NoProc ELSE lock
  /\ pc' = [pc EXCEPT ![p] = "idle"]
  /\ op' = [op EXCEPT ![p] = "none"]
  /\ staged' = [staged EXCEPT ![p] = NoContent]
  /\ bak' = [bak EXCEPT ![p] = NoContent]
  /\ done' = [done EXCEPT ![p] = {}]
  /\ manifest' = [manifest EXCEPT ![p] = Absent]

Release(p) ==
  /\ pc[p] = "release"
  /\ Exit(p)
  /\ UNCHANGED <<db, file, live, row, reuse, pre, crashes>>

\* The process is killed: no handler runs, the row stays as it is.
Crash(p) ==
  /\ crashes < MaxCrashes
  /\ pc[p] # "idle"
  /\ Exit(p)
  /\ crashes' = crashes + 1
  /\ UNCHANGED <<db, file, live, row, reuse, pre>>

-----------------------------------------------------------------------------
Step(p) ==
  \/ CollectRules(p) \/ ReuseCheck(p) \/ InstallRpz(p) \/ ReloadBind(p) \/ StageRaises(p)
  \/ DeployZones(p) \/ DeployZonesCheck(p)
  \/ DeployUpstreams(p) \/ DeployUpstreamsCheck(p)
  \/ DeployCache(p) \/ DeployCacheCheck(p)
  \/ DeployDnsdistLayer(p) \/ DeployDnsdistRestart(p)
  \/ PostCheck(p) \/ RecordReusablePolicy(p) \/ RecordReusableManifest(p)
  \/ Succeed(p) \/ Rollback(p) \/ Release(p)

Next ==
  \/ \E i \in {"policy", "zones", "upstream", "cache"} : Edit(i)
  \/ \E p \in Procs : Start(p) \/ AcquireLock(p) \/ Step(p) \/ Crash(p)

Spec == Init /\ [][Next]_vars

\* Every external command of the pipeline returns, and the kernel hands a freed
\* flock to each of its waiters in turn.  Nobody is obliged to edit or to start.
FairSpec == Spec /\ \A p \in Procs : WF_vars(Step(p)) /\ SF_vars(AcquireLock(p))

-----------------------------------------------------------------------------
(* Properties. *)

Labels == {"idle", "lock", "collect", "reuse", "validate", "reload", "zones", "zones_check",
           "upstreams", "upstreams_check", "cache", "cache_check", "dnsdist",
           "dnsdist_restart", "postcheck", "record", "record_manifest", "success",
           "rollback", "release"}
AnyFiles == [rpz : Policies \cup {Absent}, zones : Confs \cup {Absent},
             upstream : Confs \cup {Absent}, cache : Confs \cup {Absent},
             dnsdist : DnsdistFiles \cup {Absent}]
Inputs == [policy : Policies, zones : Confs, upstream : Confs, cache : Confs]
Rows == [status : {"none", "running", "deployed", "rolled_back", "rollback_failed"},
         active : BOOLEAN]

\* The type of every variable of the pipeline.
TypeOK ==
  /\ db \in Inputs
  /\ file \in AnyFiles /\ live \in AnyFiles
  /\ lock \in Procs \cup {NoProc}
  /\ op \in [Procs -> Ops \cup {"none"}]
  /\ pc \in [Procs -> Labels]
  /\ staged \in [Procs -> AnyFiles] /\ bak \in [Procs -> AnyFiles]
  /\ done \in [Procs -> SUBSET {"cache", "dnsdist"}]
  /\ row \in Rows
  /\ reuse \in [rpz : Policies \cup {Absent}, manifest : Inputs \cup {Absent}]
  /\ manifest \in [Procs -> Inputs \cup {Absent}]
  /\ pre \in [file : AnyFiles, live : AnyFiles]
  /\ crashes \in Nat

\* deploy_lock: a process past its acquire holds the lock, so at most one process
\* at a time is inside any of the pipelines that take it.
LockExclusive ==
  \A p \in Procs : pc[p] \notin {"idle", "lock"} /\ op[p] \in LockedOps => lock = p

\* p has installed layer l and may still have to undo that.
Owns(p, l) ==
  CASE l = "rpz" -> /\ op[p] \in FullOps \cup {"protection-enable-reuse"}
                    /\ pc[p] \in Labels \ {"idle", "lock", "collect", "reuse", "validate",
                                           "rollback", "release"}
    [] l = "zones" -> pc[p] = "zones_check"
    [] l = "upstream" -> pc[p] = "upstreams_check"
    [] l = "cache" -> pc[p] = "cache_check" \/ ("cache" \in done[p] /\ pc[p] # "release")
    [] l = "dnsdist" -> pc[p] = "dnsdist_restart" \/ ("dnsdist" \in done[p] /\ pc[p] # "release")

\* While a deploy may still roll a layer back, the installed file of that layer is
\* the one it installed: no rollback ever undoes the work of another process.
OwnInstallIntact ==
  \A p \in Procs, l \in Layers : Owns(p, l) => file[l] = staged[p][l]

\* p runs deploy() or protection_enable_reuse() and has just recorded row.
Recorded(p, status) ==
  /\ pc[p] = "release" /\ row.status = status
  /\ op[p] \in FullOps \cup {"protection-enable-reuse"}

\* A deploy recorded 'rolled_back' left the RPZ, the cache options and the dnsdist
\* rules as it found them, on disk and in the services, provided an RPZ existed.
RolledBackExactly ==
  \A p \in Procs :
    Recorded(p, "rolled_back") /\ crashes = 0 /\ pre.file.rpz # Absent =>
      \A l \in {"rpz", "cache", "dnsdist"} :
        /\ file[l] = pre.file[l]
        /\ live[l] \in {pre.live[l], pre.file[l]}

\* A full deploy recorded 'deployed' left BIND and dnsdist running what it
\* installed, whatever an earlier, killed deploy had left behind, and its row, from
\* which the dashboard and the toggle infer the state, tells whether protection is on.
\* (Not so for the dnsdist rules: a deploy killed before its restart leaves files that
\* the next deploy finds unchanged.)
DeployedMeansLive ==
  \A p \in Procs :
    Recorded(p, "deployed") /\ op[p] \in FullOps =>
      /\ \A l \in {"rpz", "zones", "upstream", "cache"} :
           file[l] = staged[p][l] /\ live[l] = file[l]
      /\ file.dnsdist.policy = staged[p].rpz
      /\ crashes = 0 => live.dnsdist = file.dnsdist
      /\ row.active = (live.rpz # Off)

\* Every deploy that waits for the lock gets it and comes to an end.
DeployFinishes == \A p \in Procs : pc[p] = "lock" ~> pc[p] = "idle"

\* reusable_protection_policy_available: "cached compiled policy matches current inputs".
ReuseMatchesInputs ==
  [][\A p \in Procs : pc[p] = "reuse" /\ pc'[p] = "validate" =>
       staged'[p].rpz = db.policy]_vars
=============================================================================
