--------------------------- MODULE SoftwareUpdate ---------------------------
(***************************************************************************)
(* The updater of app/software_updates.py and its routes in app/webapp.py: *)
(* the check for releases, the gate of the install and upload routes, the  *)
(* one-shot unit that takes the newest pending job through its phases, and *)
(* the reaper that fails jobs whose runner is gone.  Versions are numbers; *)
(* downloads, checksums and the apt simulation either succeed or fail.     *)
(***************************************************************************)
EXTENDS Integers, Sequences

CONSTANTS
  MaxVersion,  \* bound: newest version that is ever published
  MaxJobs,     \* bound: rows of software_update_jobs
  MaxKills,    \* bound: kills of the runner
  MaxShell     \* bound: packages installed from a shell

ASSUME UpdateAssumption ==
  /\ MaxVersion \in Nat \ {0} /\ MaxJobs \in Nat /\ MaxKills \in Nat /\ MaxShell \in Nat

VARIABLES
  jobs,       \* rows of software_update_jobs
  at,         \* where the runner is; "idle": the unit is inactive
  me,         \* its worker identity (pid, start ticks, boot id)
  cur,        \* the job it took
  installed,  \* version dpkg reports
  latest,     \* latest_release_json, 0: none
  published,  \* newest release on GitHub
  checking,   \* installed version a running update check read, 0: none runs
  uploads,    \* upload requests that passed the gate and still receive data
  touched,    \* history: jobs for which apt-get install was started
  kills, shell

vars == <<jobs, at, me, cur, installed, latest, published, checking, uploads, touched, kills, shell>>
runner == <<at, me, cur>>
routes == <<latest, published, checking, uploads>>
bounds == <<kills, shell>>

Versions == 1..MaxVersion
Terminal == {"completed", "failed"}

Init ==
  /\ jobs = <<>>
  /\ at = "idle" /\ me = 0 /\ cur = 0
  /\ installed = 1 /\ latest = 0 /\ published = 1 /\ checking = 0
  /\ uploads = 0
  /\ touched = {}
  /\ kills = 0 /\ shell = 0

-----------------------------------------------------------------------------
(* The reaper. *)

\* Mutant: the phase in which apt runs is taken for one before it.
PackageStateUncertainPhases_Late == {"restarting", "postcheck"}

PackageStateUncertainPhases == {"installing", "restarting", "postcheck"}

\* backup._worker_alive.
WorkerAlive(job) == at # "idle" /\ job.worker = me

\* Mutant: a job no runner ever took is left alone for good.
Abandoned_Stamped(job) ==
  /\ job.phase \notin Terminal /\ ~WorkerAlive(job)
  /\ job.worker # 0

\* A job nobody took yet is left alone for PENDING_DISPATCH_GRACE_SECONDS.
Abandoned(job) ==
  /\ job.phase \notin Terminal /\ ~WorkerAlive(job)
  /\ job.phase = "pending" /\ job.worker = 0 => job.aged

\* reap_abandoned_jobs, called by everything that shows or checks the status.  It
\* reads and writes within milliseconds and is taken as one step.
Reaped ==
  [j \in DOMAIN jobs |->
     IF Abandoned(jobs[j])
       THEN [jobs[j] EXCEPT !.phase = "failed", !.result = "failed",
                            !.error = IF jobs[j].phase \in PackageStateUncertainPhases
                                        THEN "uncertain" ELSE "safe"]
       ELSE jobs[j]]

-----------------------------------------------------------------------------
(* Releases, and the web routes. *)

Publish ==
  /\ published < MaxVersion
  /\ published' = published + 1
  /\ UNCHANGED <<jobs, installed, latest, checking, uploads, touched>>
  /\ UNCHANGED runner /\ UNCHANGED bounds

\* run_check takes its lock without waiting and reads the installed version first.
CheckBegins ==
  /\ checking = 0
  /\ checking' = installed
  /\ UNCHANGED <<jobs, installed, latest, published, uploads, touched>>
  /\ UNCHANGED runner /\ UNCHANGED bounds

\* The releases were fetched, or could not be.
CheckEnds ==
  /\ checking # 0
  /\ latest' \in {latest, IF published > checking THEN published ELSE 0}
  /\ checking' = 0
  /\ UNCHANGED <<jobs, installed, published, uploads, touched>>
  /\ UNCHANGED runner /\ UNCHANGED bounds

\* "an update is already in progress" looks at the newest job only.
GateOpen(rows) == rows # <<>> => rows[Len(rows)].phase \in Terminal

NewJob(version) ==
  [phase |-> "pending", result |-> "none", error |-> "none", worker |-> 0, aged |-> FALSE,
   to |-> version]

\* systemctl start --no-block: nothing happens while the unit is active; it may also fail.
StartRunner ==
  \/ at = "idle" /\ at' = "select" /\ me' = me + 1 /\ UNCHANGED cur
  \/ UNCHANGED runner

\* The status page, its polling and the application's start.
Status ==
  /\ jobs' = Reaped
  /\ UNCHANGED <<installed, touched>>
  /\ UNCHANGED runner /\ UNCHANGED routes /\ UNCHANGED bounds

\* software_updates_install_route has no await between its gate and the new row.
Install ==
  /\ latest # 0 /\ GateOpen(Reaped) /\ Len(jobs) < MaxJobs
  /\ jobs' = Append(Reaped, NewJob(latest))
  /\ StartRunner
  /\ UNCHANGED <<installed, touched>> /\ UNCHANGED routes /\ UNCHANGED bounds

\* software_updates_upload_route checks the gate, then receives the file.
UploadBegins ==
  /\ GateOpen(Reaped) /\ Len(jobs) + uploads < MaxJobs
  /\ jobs' = Reaped
  /\ uploads' = uploads + 1
  /\ UNCHANGED <<installed, latest, published, checking, touched>>
  /\ UNCHANGED runner /\ UNCHANGED bounds

UploadEnds ==
  /\ uploads > 0 /\ Len(jobs) < MaxJobs
  /\ uploads' = uploads - 1
  /\ \/ UNCHANGED <<jobs, at, me, cur>>
     \/ /\ \E v \in Versions : jobs' = Append(jobs, NewJob(v))
        /\ StartRunner
  /\ UNCHANGED <<installed, latest, published, checking, touched>> /\ UNCHANGED bounds

\* The grace of a job that was not taken runs out.
Age(j) ==
  /\ j \in DOMAIN jobs /\ jobs[j].phase = "pending" /\ ~jobs[j].aged
  /\ jobs' = [jobs EXCEPT ![j].aged = TRUE]
  /\ UNCHANGED <<installed, touched>>
  /\ UNCHANGED runner /\ UNCHANGED routes /\ UNCHANGED bounds

\* Somebody runs upgrade.sh or apt-get; dpkg's lock keeps it out of the runner's apt-get.
ShellInstall ==
  /\ shell < MaxShell /\ at # "installing"
  /\ \E v \in Versions : installed' = v
  /\ shell' = shell + 1
  /\ UNCHANGED <<jobs, touched, kills>> /\ UNCHANGED runner /\ UNCHANGED routes

-----------------------------------------------------------------------------
(* The runner. *)

\* run_pending_job takes the newest pending row.
Select ==
  /\ at = "select"
  /\ LET pending == {j \in DOMAIN jobs : jobs[j].phase = "pending"} IN
       IF pending = {}
         THEN at' = "idle" /\ UNCHANGED cur
         ELSE /\ cur' = CHOOSE j \in pending : \A k \in pending : k <= j
              /\ at' = "stamp"
  /\ UNCHANGED <<jobs, me, installed, touched>> /\ UNCHANGED routes /\ UNCHANGED bounds

\* Its identity is written by a second statement, whatever the row holds by then.
Stamp ==
  /\ at = "stamp"
  /\ jobs' = [jobs EXCEPT ![cur].worker = me]
  /\ at' = "preflight"
  /\ UNCHANGED <<me, cur, installed, touched>> /\ UNCHANGED routes /\ UNCHANGED bounds

\* The work of phase p succeeded; _set_phase commits the next one.
SetPhase(p, q) ==
  /\ at = p
  /\ jobs' = [jobs EXCEPT ![cur].phase = q]
  /\ at' = q
  /\ UNCHANGED <<me, cur>> /\ UNCHANGED routes /\ UNCHANGED bounds

\* Download, checksum, mandatory backup and apt simulation.
Prepare ==
  /\ \/ SetPhase("preflight", "checking") \/ SetPhase("checking", "downloading")
     \/ SetPhase("downloading", "validating") \/ SetPhase("backing_up", "simulating")
     \/ SetPhase("simulating", "installing")
  /\ UNCHANGED <<installed, touched>>

\* validate_candidate_package: the package is newer than what is installed.
Validate ==
  /\ at = "validating" /\ jobs[cur].to > installed
  /\ SetPhase("validating", "backing_up")
  /\ UNCHANGED <<installed, touched>>

\* apt-get works on the package; dpkg reports the new version from some point on.  Without
\* --allow-downgrades it refuses an older one.
AptWorks ==
  /\ at = "installing" /\ cur \notin touched /\ jobs[cur].to >= installed
  /\ touched' = touched \cup {cur}
  /\ installed' \in {installed, jobs[cur].to}
  /\ UNCHANGED jobs /\ UNCHANGED runner /\ UNCHANGED routes /\ UNCHANGED bounds

AptReturns ==
  /\ cur \in touched
  /\ SetPhase("installing", "restarting")
  /\ installed' = jobs[cur].to
  /\ UNCHANGED touched

\* The wait for the services is bounded.
ServicesSettle ==
  /\ SetPhase("restarting", "postcheck")
  /\ UNCHANGED <<installed, touched>>

\* The row of the job is closed and the unit ends.
Close(phase, result, error) ==
  /\ jobs' = [jobs EXCEPT ![cur].phase = phase, ![cur].result = result, ![cur].error = error]
  /\ at' = "idle"
  /\ UNCHANGED <<me, cur, installed, touched>> /\ UNCHANGED routes /\ UNCHANGED bounds

\* post_upgrade_health_check in a fresh process, which may fail to run.
PostCheck ==
  /\ at = "postcheck"
  /\ \/ installed = jobs[cur].to /\ Close("completed", "success", jobs[cur].error)
     \/ installed = jobs[cur].to /\ Close("failed", "installed_health_failed", "health")
     \/ Close("failed", "failed", "health")

\* A step of _run_job raises: _fail_job.
Fail ==
  /\ at \in {"preflight", "checking", "downloading", "validating", "backing_up", "simulating",
             "installing"}
  /\ Close("failed", "failed", "step")

\* The unit is stopped or killed, with its apt-get.
Kill ==
  /\ at # "idle" /\ kills < MaxKills
  /\ kills' = kills + 1
  /\ at' = "idle"
  /\ UNCHANGED <<jobs, me, cur, installed, touched, shell>> /\ UNCHANGED routes

Run ==
  \/ Select \/ Stamp \/ Prepare \/ Validate \/ AptWorks \/ AptReturns \/ ServicesSettle
  \/ PostCheck \/ Fail

Next ==
  \/ Publish \/ CheckBegins \/ CheckEnds \/ Status \/ Install \/ UploadBegins \/ UploadEnds
  \/ \E j \in 1..MaxJobs : Age(j)
  \/ ShellInstall \/ Run \/ Kill

Spec == Init /\ [][Next]_vars

\* Every command of the runner has a timeout, time passes, and the status is looked at
\* again: the page polls it and the application's start reads it.
FairSpec ==
  /\ Spec /\ WF_vars(Run) /\ WF_vars(Status) /\ \A j \in 1..MaxJobs : WF_vars(Age(j))

-----------------------------------------------------------------------------
(* Properties. *)

\* reap_abandoned_jobs: a job reported with "no package changes were made; it is safe
\* to retry" never reached apt-get, whenever its runner died and even if the runner
\* took the job while it was being reaped.
SafeToRetryIsSafe ==
  \A j \in DOMAIN jobs : jobs[j].phase = "failed" /\ jobs[j].error = "safe" => j \notin touched

\* "never leaves the install/upload routes' gate permanently blocking every future
\* update": whatever was killed or never started, the gate opens again.
GateReopens == ~GateOpen(jobs) ~> GateOpen(jobs)
=============================================================================
