---------------------------- MODULE UpdateProofs ----------------------------
(***************************************************************************)
(* Proofs about what looks after the host: the updater's word that a job   *)
(* is safe to retry, the change of the address that is confirmed or rolled *)
(* back, and the timers that follow their settings.                        *)
(***************************************************************************)
EXTENDS SoftwareUpdate, NetworkConfig, Schedules, WellFoundedInduction, TLAPS

(* Software updates.                                                       *)

Working == {"preflight", "checking", "downloading", "validating", "backing_up", "simulating",
            "installing", "restarting", "postcheck"}
Job == [phase : Working \cup {"pending"} \cup Terminal,
        result : {"none", "success", "failed", "installed_health_failed"},
        error : {"none", "safe", "uncertain", "step", "health"},
        worker : Nat, aged : BOOLEAN, to : Nat]

UpdateTypeOK ==
    /\ jobs \in Seq(Job)
    /\ touched \subseteq DOMAIN jobs
    /\ published \in Nat /\ latest \in Nat /\ me \in Nat
    /\ at \in {"idle", "select", "stamp"} \cup Working
    /\ at \notin {"idle", "select"} => cur \in DOMAIN jobs

\* A job that carries the runner's identity is not reaped under it, so its row
\* tells the runner's phase from the first phase it wrote.
RunnerOwnsJob ==
    /\ at \notin {"idle", "select", "stamp"} => jobs[cur].worker = me
    /\ at \notin {"idle", "select", "stamp", "preflight"} => jobs[cur].phase = at

\* A job that reached apt-get never looks like one that did not.
TouchedIsUncertain ==
    /\ at \notin {"idle", "select"} \cup PackageStateUncertainPhases => cur \notin touched
    /\ \A j \in touched : /\ jobs[j].phase \in PackageStateUncertainPhases \cup Terminal
                          /\ jobs[j].phase = "failed" => jobs[j].error # "safe"

UpdateInv == UpdateTypeOK /\ RunnerOwnsJob /\ TouchedIsUncertain

\* What the reaper does to a row.
LEMMA ReapedRows ==
    ASSUME UpdateTypeOK
    PROVE  /\ Reaped \in Seq(Job) /\ DOMAIN Reaped = DOMAIN jobs /\ Len(Reaped) = Len(jobs)
           /\ \A j \in DOMAIN jobs :
                /\ Reaped[j].worker = jobs[j].worker
                /\ ~Abandoned(jobs[j]) => Reaped[j] = jobs[j]
                /\ Abandoned(jobs[j]) => /\ Reaped[j].phase = "failed"
                                         /\ jobs[j].phase \in PackageStateUncertainPhases =>
                                              Reaped[j].error = "uncertain"
<1> USE DEF UpdateTypeOK
<1>1. ASSUME NEW j \in DOMAIN jobs
      PROVE  /\ Reaped[j] \in Job
             /\ Reaped[j].worker = jobs[j].worker
             /\ ~Abandoned(jobs[j]) => Reaped[j] = jobs[j]
             /\ Abandoned(jobs[j]) => /\ Reaped[j].phase = "failed"
                                      /\ jobs[j].phase \in PackageStateUncertainPhases =>
                                           Reaped[j].error = "uncertain"
  <2>1. jobs[j] \in Job
    OBVIOUS
  <2>2. CASE ~Abandoned(jobs[j])
    <3>1. Reaped[j] = jobs[j]
      BY <2>2 DEF Reaped
    <3> QED
      BY <2>1, <2>2, <3>1
  <2>3. CASE Abandoned(jobs[j])
    <3> DEFINE e == IF jobs[j].phase \in PackageStateUncertainPhases THEN "uncertain" ELSE "safe"
    <3>1. Reaped[j] = [jobs[j] EXCEPT !.phase = "failed", !.result = "failed", !.error = e]
      BY <2>3 DEF Reaped
    <3>2. e \in {"uncertain", "safe"} /\ (jobs[j].phase \in PackageStateUncertainPhases => e = "uncertain")
      OBVIOUS
    <3> HIDE DEF e
    <3> QED
      BY <2>1, <2>3, <3>1, <3>2 DEF Job, Terminal
  <2> QED
    BY <2>2, <2>3
<1>2. DOMAIN Reaped = DOMAIN jobs
  BY DEF Reaped
<1>3. Reaped \in Seq(Job) /\ Len(Reaped) = Len(jobs)
  <2>1. Len(jobs) \in Nat /\ DOMAIN jobs = 1..Len(jobs)
    OBVIOUS
  <2>2. Reaped \in [1..Len(jobs) -> Job]
    BY <1>1, <1>2, <2>1 DEF Reaped
  <2> QED
    BY <2>1, <2>2
<1> QED
  BY <1>1, <1>2, <1>3

\* Reaping keeps the invariant: the runner's own job is not abandoned, and what
\* apt-get reached is called uncertain.
LEMMA ReapedInv ==
    ASSUME UpdateInv,
           jobs' = Reaped, UNCHANGED <<touched, published, latest, at, me, cur>>
    PROVE  UpdateInv'
<1> USE DEF UpdateInv
<1>1. UpdateTypeOK'
  BY ReapedRows DEF UpdateTypeOK
<1>2. RunnerOwnsJob'
  <2>1. at \notin {"idle", "select", "stamp"} => ~Abandoned(jobs[cur])
    BY DEF Abandoned, WorkerAlive, RunnerOwnsJob
  <2> QED
    BY <2>1, ReapedRows DEF RunnerOwnsJob, UpdateTypeOK
<1>3. TouchedIsUncertain'
  <2>1. ASSUME NEW j \in touched
        PROVE  /\ jobs'[j].phase \in PackageStateUncertainPhases \cup Terminal
               /\ jobs'[j].phase = "failed" => jobs'[j].error # "safe"
    <3>1. Abandoned(jobs[j]) => jobs[j].phase \in PackageStateUncertainPhases
      BY DEF Abandoned, TouchedIsUncertain
    <3> QED
      BY <3>1, ReapedRows DEF TouchedIsUncertain, UpdateTypeOK, Terminal
  <2> QED
    BY <2>1 DEF TouchedIsUncertain
<1> QED
  BY <1>1, <1>2, <1>3

\* Of some rows one is the newest.
LEMMA NewestExists ==
    ASSUME NEW rows \in Seq(Job), NEW some \in SUBSET DOMAIN rows, some # {}
    PROVE  \E j \in some : \A k \in some : k <= j
<1> DEFINE n == Len(rows)
           older == {n - j : j \in some}
           R == OpToRel(<, Nat)
<1>1. n \in Nat /\ \A j \in some : j \in Nat /\ j <= n
  OBVIOUS
<1> HIDE DEF n
<1>2. older \subseteq Nat /\ older # {}
  BY <1>1
<1>3. \E x \in older : \A y \in older : ~(<<y, x>> \in R)
  <2> HIDE DEF older, R
  <2>1. IsWellFoundedOn(R, Nat)
    BY NatLessThanWellFounded DEF R
  <2> QED
    BY <1>2, <2>1, WFMin
<1>4. PICK x \in older : \A y \in older : ~(y < x)
  BY <1>2, <1>3 DEF OpToRel
<1>5. PICK j \in some : x = n - j
  BY <1>4
<1>6. ASSUME NEW k \in some PROVE k <= j
  <2>1. ~(n - k < n - j)
    BY <1>4, <1>5
  <2> QED
    BY <1>1, <2>1
<1> QED
  BY <1>6

\* A new row, behind jobs that keep the invariant, and the start of the unit.
LEMMA NewJobInv ==
    ASSUME UpdateTypeOK,
           NEW rows \in Seq(Job), DOMAIN rows = DOMAIN jobs, Len(rows) = Len(jobs),
           RunnerOwnsJob, TouchedIsUncertain,
           \A j \in touched : /\ rows[j].phase \in PackageStateUncertainPhases \cup Terminal
                              /\ rows[j].phase = "failed" => rows[j].error # "safe",
           at \notin {"idle", "select", "stamp"} => rows[cur].worker = me,
           at \notin {"idle", "select", "stamp", "preflight"} => rows[cur].phase = at,
           NEW v \in Nat, jobs' = Append(rows, NewJob(v)), StartRunner,
           UNCHANGED <<touched, published, latest>>
    PROVE  UpdateInv'
<1>1. NewJob(v) \in Job
  BY DEF NewJob, Job
<1>2. jobs' \in Seq(Job) /\ \A j \in DOMAIN jobs : j \in DOMAIN jobs' /\ jobs'[j] = rows[j]
  BY <1>1 DEF UpdateTypeOK
<1>3. \/ at = "idle" /\ at' = "select" /\ me' = me + 1 /\ UNCHANGED cur
      \/ UNCHANGED <<at, me, cur>>
  BY DEF StartRunner, runner
<1>4. UpdateTypeOK'
  BY <1>2, <1>3 DEF UpdateTypeOK
<1>5. RunnerOwnsJob'
  BY <1>2, <1>3 DEF RunnerOwnsJob, UpdateTypeOK
<1>6. TouchedIsUncertain'
  BY <1>2, <1>3 DEF TouchedIsUncertain, UpdateTypeOK
<1> QED
  BY <1>4, <1>5, <1>6 DEF UpdateInv

\* One row is written.
LEMMA OneRow ==
    ASSUME UpdateTypeOK, NEW c \in DOMAIN jobs, NEW r \in Job, jobs' = [jobs EXCEPT ![c] = r]
    PROVE  /\ jobs' \in Seq(Job) /\ DOMAIN jobs' = DOMAIN jobs
           /\ jobs'[c] = r
           /\ \A j \in DOMAIN jobs : j # c => jobs'[j] = jobs[j]
  BY DEF UpdateTypeOK

LEMMA UpdateInitInv == Init => UpdateInv
  BY DEF Init, UpdateInv, UpdateTypeOK, RunnerOwnsJob, TouchedIsUncertain

LEMMA SetPhaseInv ==
    ASSUME UpdateInv, NEW p \in Working, NEW q \in Working, SetPhase(p, q), UNCHANGED touched,
           q \in PackageStateUncertainPhases \/ p \notin PackageStateUncertainPhases
    PROVE  UpdateInv'
<1> USE DEF UpdateInv
<1>1. /\ at = p /\ at' = q /\ jobs' = [jobs EXCEPT ![cur].phase = q] /\ cur \in DOMAIN jobs
      /\ UNCHANGED <<me, cur, latest, published>>
  BY DEF SetPhase, routes, UpdateTypeOK, Working
<1> DEFINE r == [jobs[cur] EXCEPT !.phase = q]
<1>2. jobs[cur] \in Job
  BY <1>1 DEF UpdateTypeOK
<1>3. r \in Job /\ r.phase = q /\ r.worker = jobs[cur].worker
  BY <1>2 DEF Job
<1>4. jobs' = [jobs EXCEPT ![cur] = r]
  BY <1>1
<1> HIDE DEF r
<1>5. UpdateTypeOK'
  BY <1>1, <1>3, <1>4, OneRow DEF UpdateTypeOK
<1>6. RunnerOwnsJob'
  BY <1>1, <1>3, <1>4, OneRow DEF RunnerOwnsJob, Working
<1>7. TouchedIsUncertain'
  BY <1>1, <1>3, <1>4, OneRow DEF TouchedIsUncertain, UpdateTypeOK, Working, Terminal,
     PackageStateUncertainPhases
<1> QED
  BY <1>5, <1>6, <1>7

LEMMA CloseInv ==
    ASSUME UpdateInv, at \in Working,
           NEW p \in Terminal, NEW res \in {"success", "failed", "installed_health_failed"},
           NEW e \in {"none", "safe", "uncertain", "step", "health"},
           p = "failed" => e # "safe", Close(p, res, e)
    PROVE  UpdateInv'
<1> USE DEF UpdateInv
<1>1. /\ jobs' = [jobs EXCEPT ![cur].phase = p, ![cur].result = res, ![cur].error = e]
      /\ at' = "idle" /\ cur \in DOMAIN jobs
      /\ UNCHANGED <<me, cur, latest, published, touched>>
  BY DEF Close, routes, UpdateTypeOK, Working
<1> DEFINE r == [jobs[cur] EXCEPT !.phase = p, !.result = res, !.error = e]
<1>2. jobs[cur] \in Job
  BY <1>1 DEF UpdateTypeOK
<1>3. r \in Job /\ r.phase = p /\ r.error = e
  BY <1>2 DEF Job
<1>4. jobs' = [jobs EXCEPT ![cur] = r]
  BY <1>1, <1>2 DEF UpdateTypeOK
<1> HIDE DEF r
<1>5. UpdateTypeOK'
  BY <1>1, <1>3, <1>4, OneRow DEF UpdateTypeOK
<1>6. RunnerOwnsJob'
  BY <1>1 DEF RunnerOwnsJob
<1>7. TouchedIsUncertain'
  BY <1>1, <1>3, <1>4, OneRow DEF TouchedIsUncertain, UpdateTypeOK, Terminal
<1> QED
  BY <1>5, <1>6, <1>7

LEMMA UpdateNextInv == UpdateInv /\ [Next]_vars => UpdateInv'
<1> SUFFICES ASSUME UpdateInv, [Next]_vars PROVE UpdateInv'
  OBVIOUS
<1> USE DEF UpdateInv, runner, routes
<1>1. CASE Publish
  BY <1>1 DEF Publish, UpdateTypeOK, RunnerOwnsJob, TouchedIsUncertain
<1>2. CASE CheckBegins
  BY <1>2 DEF CheckBegins, UpdateTypeOK, RunnerOwnsJob, TouchedIsUncertain
<1>3. CASE CheckEnds
  BY <1>3 DEF CheckEnds, UpdateTypeOK, RunnerOwnsJob, TouchedIsUncertain
<1>4. CASE Status
  BY <1>4, ReapedInv DEF Status
<1>5. CASE Install
  <2>1. jobs' = Append(Reaped, NewJob(latest)) /\ StartRunner /\ UNCHANGED <<touched, published, latest>>
    BY <1>5 DEF Install
  <2>2. latest \in Nat
    BY DEF UpdateTypeOK
  <2>3. at \notin {"idle", "select", "stamp"} => ~Abandoned(jobs[cur])
    BY DEF Abandoned, WorkerAlive, RunnerOwnsJob
  <2>4. \A j \in touched : Abandoned(jobs[j]) => jobs[j].phase \in PackageStateUncertainPhases
    BY DEF Abandoned, TouchedIsUncertain
  <2>5. \A j \in touched : /\ Reaped[j].phase \in PackageStateUncertainPhases \cup Terminal
                           /\ Reaped[j].phase = "failed" => Reaped[j].error # "safe"
    BY <2>4, ReapedRows DEF TouchedIsUncertain, UpdateTypeOK, Terminal
  <2>6. /\ at \notin {"idle", "select", "stamp"} => Reaped[cur].worker = me
        /\ at \notin {"idle", "select", "stamp", "preflight"} => Reaped[cur].phase = at
    BY <2>3, ReapedRows DEF RunnerOwnsJob, UpdateTypeOK
  <2>7. Reaped \in Seq(Job) /\ DOMAIN Reaped = DOMAIN jobs /\ Len(Reaped) = Len(jobs)
    BY ReapedRows
  <2> QED
    BY <2>1, <2>2, <2>5, <2>6, <2>7, NewJobInv
<1>6. CASE UploadBegins
  BY <1>6, ReapedInv DEF UploadBegins
<1>7. CASE UploadEnds
  <2>1. CASE UNCHANGED <<jobs, at, me, cur>>
    BY <1>7, <2>1 DEF UploadEnds, UpdateTypeOK, RunnerOwnsJob, TouchedIsUncertain
  <2>2. ASSUME NEW v \in Versions, jobs' = Append(jobs, NewJob(v)), StartRunner PROVE UpdateInv'
    <3>1. v \in Nat
      BY UpdateAssumption DEF Versions
    <3>2. UNCHANGED <<touched, published, latest>>
      BY <1>7 DEF UploadEnds
    <3>3. jobs \in Seq(Job)
      BY DEF UpdateTypeOK
    <3> QED
      BY <2>2, <3>1, <3>2, <3>3, NewJobInv DEF RunnerOwnsJob, TouchedIsUncertain
  <2> QED
    BY <1>7, <2>1, <2>2 DEF UploadEnds
<1>8. ASSUME NEW j \in 1..MaxJobs, Age(j) PROVE UpdateInv'
  <2>1. /\ j \in DOMAIN jobs /\ jobs' = [jobs EXCEPT ![j].aged = TRUE]
        /\ UNCHANGED <<touched, published, latest, at, me, cur>>
    BY <1>8 DEF Age
  <2>2. jobs[j] \in Job
    BY <2>1 DEF UpdateTypeOK
  <2> DEFINE r == [jobs[j] EXCEPT !.aged = TRUE]
  <2>3. /\ r \in Job /\ r.phase = jobs[j].phase /\ r.worker = jobs[j].worker
        /\ r.error = jobs[j].error
    BY <2>2 DEF Job
  <2>4. jobs' = [jobs EXCEPT ![j] = r]
    BY <2>1
  <2> HIDE DEF r
  <2>5. jobs' \in Seq(Job) /\ DOMAIN jobs' = DOMAIN jobs
    BY <2>1, <2>3, <2>4, OneRow
  <2>6. \A k \in DOMAIN jobs : /\ jobs'[k].phase = jobs[k].phase /\ jobs'[k].worker = jobs[k].worker
                               /\ jobs'[k].error = jobs[k].error
    BY <2>1, <2>3, <2>4, OneRow
  <2> QED
    BY <2>1, <2>5, <2>6 DEF UpdateTypeOK, RunnerOwnsJob, TouchedIsUncertain
<1>9. CASE ShellInstall
  BY <1>9 DEF ShellInstall, UpdateTypeOK, RunnerOwnsJob, TouchedIsUncertain
<1>10. CASE Select
  <2> DEFINE pending == {j \in DOMAIN jobs : jobs[j].phase = "pending"}
  <2>1. at = "select" /\ UNCHANGED <<jobs, me, touched, published, latest>>
    BY <1>10 DEF Select
  <2>2. CASE at' = "idle" /\ UNCHANGED cur
    BY <2>1, <2>2 DEF UpdateTypeOK, RunnerOwnsJob, TouchedIsUncertain
  <2>3. CASE /\ pending # {} /\ at' = "stamp"
             /\ cur' = CHOOSE j \in pending : \A k \in pending : k <= j
    <3>1. \E j \in pending : \A k \in pending : k <= j
      BY <2>3, NewestExists DEF UpdateTypeOK
    <3>2. cur' \in pending
      BY <2>3, <3>1
    <3>3. cur' \in DOMAIN jobs /\ cur' \notin touched
      BY <3>2 DEF TouchedIsUncertain, PackageStateUncertainPhases, Terminal
    <3> QED
      BY <2>1, <2>3, <3>3 DEF UpdateTypeOK, RunnerOwnsJob, TouchedIsUncertain
  <2> QED
    BY <1>10, <2>2, <2>3 DEF Select
<1>11. CASE Stamp
  <2>1. /\ at = "stamp" /\ at' = "preflight" /\ jobs' = [jobs EXCEPT ![cur].worker = me]
        /\ UNCHANGED <<me, cur, touched, published, latest>> /\ cur \in DOMAIN jobs
    BY <1>11 DEF Stamp, UpdateTypeOK
  <2> DEFINE r == [jobs[cur] EXCEPT !.worker = me]
  <2>2. jobs[cur] \in Job /\ me \in Nat
    BY <2>1 DEF UpdateTypeOK
  <2>3. r \in Job /\ r.worker = me
    BY <2>2 DEF Job
  <2>4. jobs' = [jobs EXCEPT ![cur] = r]
    BY <2>1
  <2> HIDE DEF r
  <2>5. UpdateTypeOK'
    BY <2>1, <2>3, <2>4, OneRow DEF UpdateTypeOK, Working
  <2>6. RunnerOwnsJob'
    BY <2>1, <2>3, <2>4, OneRow DEF RunnerOwnsJob
  <2>7. TouchedIsUncertain'
    BY <2>1, <2>3, <2>4, OneRow DEF TouchedIsUncertain, UpdateTypeOK, PackageStateUncertainPhases
  <2> QED
    BY <2>5, <2>6, <2>7
<1>12. CASE Prepare
  <2>1. UNCHANGED touched
    BY <1>12 DEF Prepare
  <2> QED
    BY <1>12, <2>1, SetPhaseInv DEF Prepare, Working, PackageStateUncertainPhases
<1>13. CASE Validate
  BY <1>13, SetPhaseInv DEF Validate, Working, PackageStateUncertainPhases
<1>14. CASE AptWorks
  <2>1. /\ at = "installing" /\ touched' = touched \cup {cur}
        /\ UNCHANGED <<jobs, at, me, cur, published, latest>>
    BY <1>14 DEF AptWorks
  <2>2. cur \in DOMAIN jobs /\ jobs[cur].phase = "installing"
    BY <2>1 DEF UpdateTypeOK, RunnerOwnsJob
  <2> QED
    BY <2>1, <2>2 DEF UpdateTypeOK, RunnerOwnsJob, TouchedIsUncertain, PackageStateUncertainPhases
<1>15. CASE AptReturns
  BY <1>15, SetPhaseInv DEF AptReturns, Working, PackageStateUncertainPhases
<1>16. CASE ServicesSettle
  BY <1>16, SetPhaseInv DEF ServicesSettle, Working, PackageStateUncertainPhases
<1>17. CASE PostCheck
  <2>1. jobs[cur] \in Job
    BY <1>17 DEF PostCheck, UpdateTypeOK
  <2>2. jobs[cur].error \in {"none", "safe", "uncertain", "step", "health"}
    BY <2>1 DEF Job
  <2> QED
    BY <1>17, <2>2, CloseInv DEF PostCheck, Working, Terminal
<1>18. CASE Fail
  BY <1>18, CloseInv DEF Fail, Working, Terminal
<1>19. CASE Kill
  BY <1>19 DEF Kill, UpdateTypeOK, RunnerOwnsJob, TouchedIsUncertain
<1>20. CASE UNCHANGED vars
  BY <1>20 DEF vars, UpdateTypeOK, RunnerOwnsJob, TouchedIsUncertain
<1> QED
  BY <1>1, <1>2, <1>3, <1>4, <1>5, <1>6, <1>7, <1>8, <1>9, <1>10, <1>11, <1>12, <1>13, <1>14, <1>15,
     <1>16, <1>17, <1>18, <1>19, <1>20 DEF Next, Run

\* A job called safe to retry never reached apt-get, for any number of jobs,
\* versions, kills and hand-made installs, even if the runner took the job
\* while the reaper was closing it.
THEOREM SafeRetry == Spec => []SafeToRetryIsSafe
<1>1. UpdateInv => SafeToRetryIsSafe
  BY DEF UpdateInv, TouchedIsUncertain, SafeToRetryIsSafe
<1> QED
  BY <1>1, UpdateInitInv, UpdateNextInv, PTL DEF Spec
----------------------------------------------------------------------------
(* Schedules.                                                              *)

\* A save of a timer under way, and what it has read.
Saving(s, t) == saver[s].at # "idle" /\ saver[s].timer = t

SaverOK(x) ==
    \/ x = NotSaving
    \/ \E t \in Timers : x = [at |-> "read", timer |-> t]
    \/ \E t \in Timers, v \in Settings, pc \in {"write", "systemctl"} :
         x = [at |-> pc, timer |-> t, value |-> v]

SchedulesTypeOK ==
    /\ setting \in [Timers -> Settings]
    /\ dropIn \in [Timers -> {NoDropIn, 12, 24}]
    /\ armed \in [Timers -> BOOLEAN]
    /\ DOMAIN saver = Savers
    /\ \A s \in Savers : SaverOK(saver[s])

\* A timer whose saves neither failed nor overlapped has at most one save under
\* way, which carries the stored setting and has written it as far as it got.
OneFaithfulSave ==
    \A t \in Timers \ unsettled :
        /\ \A r, s \in Savers : Saving(r, t) /\ Saving(s, t) => r = s
        /\ \A s \in Savers : Saving(s, t) /\ saver[s].at # "read" => saver[s].value = setting[t]
        /\ \A s \in Savers : Saving(s, t) /\ saver[s].at = "systemctl" =>
                               dropIn[t] = DropInContent(t, setting[t])

SchedulesInv == SchedulesTypeOK /\ OneFaithfulSave /\ TimerFollowsSetting

LEMMA SchedulesInitInv == SchedulesInit => SchedulesInv
<1> SUFFICES ASSUME SchedulesInit PROVE SchedulesInv
  OBVIOUS
<1>1. Default \in Settings /\ Default.on /\ Default.hours = 24
  BY DEF Default, Settings
<1>2. SchedulesTypeOK
  BY <1>1 DEF SchedulesInit, SchedulesTypeOK, SaverOK, NoDropIn
<1>3. \A s \in Savers : saver[s].at = "idle"
  BY DEF SchedulesInit, NotSaving
<1>4. OneFaithfulSave
  BY <1>3 DEF OneFaithfulSave, Saving
<1>5. TimerFollowsSetting
  BY <1>1 DEF SchedulesInit, TimerFollowsSetting, DropInContent
<1> QED
  BY <1>2, <1>4, <1>5 DEF SchedulesInv

\* A save that ends, done or not, and leaves its timer settled only if it is done.
LEMMA SaveEnds ==
    ASSUME SchedulesInv, NEW s \in Savers, NEW t \in Timers, Saving(s, t),
           saver' = [saver EXCEPT ![s] = NotSaving],
           unsettled' = unsettled \cup {t}, UNCHANGED <<setting, dropIn, armed>>
    PROVE  SchedulesInv'
<1> USE DEF SchedulesInv
<1>1. /\ DOMAIN saver' = Savers /\ saver'[s] = NotSaving
      /\ \A r \in Savers : r # s => saver'[r] = saver[r]
  BY DEF SchedulesTypeOK
<1>2. \A r \in Savers, q \in Timers \ unsettled' : Saving(r, q)' = Saving(r, q)
  BY <1>1 DEF Saving, NotSaving
<1>3. SchedulesTypeOK'
  BY <1>1 DEF SchedulesTypeOK, SaverOK
<1>4. OneFaithfulSave'
  BY <1>1, <1>2 DEF OneFaithfulSave, Saving, NotSaving
<1>5. \A q \in Timers \ unsettled' : Busy(q)' = Busy(q)
  BY <1>2 DEF Busy, Saving
<1>6. TimerFollowsSetting'
  BY <1>5 DEF TimerFollowsSetting
<1> QED
  BY <1>3, <1>4, <1>6

\* A save under way takes its next step; the other timers do not notice.
LEMMA SaveMoves ==
    ASSUME SchedulesInv, NEW s \in Savers, NEW t \in Timers, Saving(s, t),
           NEW v \in Settings, NEW pc \in {"write", "systemctl"},
           saver' = [saver EXCEPT ![s] = [at |-> pc, timer |-> t, value |-> v]],
           NEW c \in {NoDropIn, 12, 24}, dropIn' = [dropIn EXCEPT ![t] = c],
           UNCHANGED <<setting, armed, unsettled>>,
           t \notin unsettled => v = setting[t] /\ (pc = "systemctl" => c = DropInContent(t, v))
    PROVE  SchedulesInv'
<1> USE DEF SchedulesInv
<1>1. /\ DOMAIN saver' = Savers /\ saver'[s] = [at |-> pc, timer |-> t, value |-> v]
      /\ \A r \in Savers : r # s => saver'[r] = saver[r]
  BY DEF SchedulesTypeOK
<1>2. dropIn' \in [Timers -> {NoDropIn, 12, 24}] /\ dropIn'[t] = c
      /\ \A q \in Timers : q # t => dropIn'[q] = dropIn[q]
  BY DEF SchedulesTypeOK
<1>3. \A r \in Savers, q \in Timers : Saving(r, q)' = Saving(r, q)
  BY <1>1 DEF Saving
<1>4. SchedulesTypeOK'
  <2>1. SaverOK(saver'[s])
    BY <1>1 DEF SaverOK
  <2> QED
    BY <1>1, <1>2, <2>1 DEF SchedulesTypeOK
<1>5. OneFaithfulSave'
  <2> SUFFICES ASSUME NEW q \in Timers \ unsettled
               PROVE  /\ \A r, u \in Savers : Saving(r, q)' /\ Saving(u, q)' => r = u
                      /\ \A r \in Savers : Saving(r, q)' /\ saver'[r].at # "read" =>
                                             saver'[r].value = setting[q]
                      /\ \A r \in Savers : Saving(r, q)' /\ saver'[r].at = "systemctl" =>
                                             dropIn'[q] = DropInContent(q, setting[q])
    BY DEF OneFaithfulSave
  <2>1. CASE q = t
    BY <1>1, <1>2, <1>3, <2>1 DEF OneFaithfulSave, Saving
  <2>2. CASE q # t
    BY <1>1, <1>2, <1>3, <2>2 DEF OneFaithfulSave, Saving
  <2> QED
    BY <2>1, <2>2
<1>6. \A q \in Timers : Busy(q)' = Busy(q)
  BY <1>3 DEF Busy, Saving
<1>7. Busy(t)
  BY DEF Busy, Saving
<1>8. TimerFollowsSetting'
  BY <1>2, <1>6, <1>7 DEF TimerFollowsSetting
<1> QED
  BY <1>4, <1>5, <1>8

LEMMA SchedulesNextInv == SchedulesInv /\ [SchedulesNext]_schedulesVars => SchedulesInv'
<1> SUFFICES ASSUME SchedulesInv, [SchedulesNext]_schedulesVars PROVE SchedulesInv'
  OBVIOUS
<1> USE DEF SchedulesInv
<1>1. ASSUME NEW s \in Savers, NEW t \in Timers, NEW v \in Settings, UpdateSettings(s, t, v)
      PROVE  SchedulesInv'
  <2>1. /\ saver[s].at = "idle" /\ setting' = [setting EXCEPT ![t] = v]
        /\ saver' = [saver EXCEPT ![s] = [at |-> "read", timer |-> t]]
        /\ unsettled' = IF Busy(t) THEN unsettled \cup {t} ELSE unsettled \ {t}
        /\ UNCHANGED <<dropIn, armed>>
    BY <1>1 DEF UpdateSettings
  <2>2. /\ DOMAIN saver' = Savers /\ saver'[s] = [at |-> "read", timer |-> t]
        /\ \A r \in Savers : r # s => saver'[r] = saver[r]
    BY <2>1 DEF SchedulesTypeOK
  <2>3. setting' \in [Timers -> Settings] /\ setting'[t] = v
        /\ \A q \in Timers : q # t => setting'[q] = setting[q]
    BY <2>1 DEF SchedulesTypeOK
  <2>4. SchedulesTypeOK'
    <3>1. SaverOK(saver'[s])
      BY <2>2 DEF SaverOK
    <3> QED
      BY <2>1, <2>2, <2>3, <3>1 DEF SchedulesTypeOK
  <2>5. ASSUME NEW q \in Timers \ unsettled'
        PROVE  /\ \A r, u \in Savers : Saving(r, q)' /\ Saving(u, q)' => r = u
               /\ \A r \in Savers : Saving(r, q)' /\ saver'[r].at # "read" =>
                                      saver'[r].value = setting'[q]
               /\ \A r \in Savers : Saving(r, q)' /\ saver'[r].at = "systemctl" =>
                                      dropIn'[q] = DropInContent(q, setting'[q])
               /\ Busy(q)' \/ /\ armed'[q] = setting'[q].on
                              /\ dropIn'[q] = DropInContent(q, setting'[q])
    <3>1. CASE q = t
      <4>1. ~Busy(t)
        BY <2>1, <2>5, <3>1
      <4>2. \A r \in Savers : Saving(r, q)' => r = s
        BY <2>2, <3>1, <4>1 DEF Saving, Busy
      <4>3. Busy(q)' /\ saver'[s].at = "read"
        BY <2>2, <3>1 DEF Busy
      <4> QED
        BY <4>2, <4>3
    <3>2. CASE q # t
      <4>1. q \in Timers \ unsettled
        BY <2>1, <2>5, <3>2
      <4>2. \A r \in Savers : Saving(r, q)' = Saving(r, q) /\ (Saving(r, q) => saver'[r] = saver[r])
        BY <2>1, <2>2, <3>2 DEF Saving
      <4>3. Busy(q)' = Busy(q)
        BY <4>2 DEF Busy, Saving
      <4> QED
        BY <2>1, <2>3, <3>2, <4>1, <4>2, <4>3 DEF OneFaithfulSave, TimerFollowsSetting
    <3> QED
      BY <3>1, <3>2
  <2> QED
    BY <2>4, <2>5 DEF OneFaithfulSave, TimerFollowsSetting
<1>2. ASSUME NEW s \in Savers, ReadSetting(s) PROVE SchedulesInv'
  <2>1. saver[s].at = "read"
    BY <1>2 DEF ReadSetting
  <2>2. PICK t \in Timers : saver[s] = [at |-> "read", timer |-> t]
    BY <2>1 DEF SchedulesTypeOK, SaverOK, NotSaving
  <2>3. /\ saver' = [saver EXCEPT ![s] = [at |-> "write", timer |-> t, value |-> setting[t]]]
        /\ UNCHANGED <<setting, armed, unsettled, dropIn>>
    BY <1>2, <2>2 DEF ReadSetting, SchedulesTypeOK
  <2>4. dropIn' = [dropIn EXCEPT ![t] = dropIn[t]] /\ dropIn[t] \in {NoDropIn, 12, 24}
        /\ setting[t] \in Settings
    BY <2>3 DEF SchedulesTypeOK
  <2>5. Saving(s, t)
    BY <2>2 DEF Saving
  <2> QED
    BY <2>3, <2>4, <2>5, SaveMoves
<1>3. ASSUME NEW s \in Savers, WriteDropIn(s) PROVE SchedulesInv'
  <2>1. saver[s].at = "write"
    BY <1>3 DEF WriteDropIn
  <2>2. PICK t \in Timers, v \in Settings : saver[s] = [at |-> "write", timer |-> t, value |-> v]
    BY <2>1 DEF SchedulesTypeOK, SaverOK, NotSaving
  <2> DEFINE c == DropInContent(t, v)
  <2>3. /\ saver' = [saver EXCEPT ![s] = [at |-> "systemctl", timer |-> t, value |-> v]]
        /\ dropIn' = [dropIn EXCEPT ![t] = c]
        /\ UNCHANGED <<setting, armed, unsettled>>
    <3>1. ASSUME NEW u, u = [saver[s] EXCEPT !.at = "systemctl"]
          PROVE  u = [at |-> "systemctl", timer |-> t, value |-> v]
      BY <2>2, <3>1
    <3>2. /\ saver' = [saver EXCEPT ![s] = [saver[s] EXCEPT !.at = "systemctl"]]
          /\ dropIn' = [dropIn EXCEPT ![t] = c] /\ UNCHANGED <<setting, armed, unsettled>>
      BY <1>3, <2>2 DEF WriteDropIn
    <3> QED
      BY <3>1, <3>2
  <2>4. c \in {NoDropIn, 12, 24}
    BY DEF DropInContent, Settings
  <2>5. Saving(s, t) /\ (t \notin unsettled => v = setting[t])
    BY <2>2 DEF Saving, OneFaithfulSave
  <2> HIDE DEF c
  <2>6. t \notin unsettled => c = DropInContent(t, v)
    BY DEF c
  <2> QED
    BY <2>3, <2>4, <2>5, <2>6, SaveMoves
<1>4. ASSUME NEW s \in Savers, Systemctl(s) PROVE SchedulesInv'
  <2>1. saver[s].at = "systemctl"
    BY <1>4 DEF Systemctl
  <2>2. PICK t \in Timers, v \in Settings : saver[s] = [at |-> "systemctl", timer |-> t, value |-> v]
    BY <2>1 DEF SchedulesTypeOK, SaverOK, NotSaving
  <2>3. /\ saver' = [saver EXCEPT ![s] = NotSaving]
        /\ armed' = [armed EXCEPT ![t] = v.on]
        /\ UNCHANGED <<setting, dropIn, unsettled>>
    BY <1>4, <2>2 DEF Systemctl
  <2>4. /\ DOMAIN saver' = Savers /\ saver'[s] = NotSaving
        /\ \A r \in Savers : r # s => saver'[r] = saver[r]
    BY <2>3 DEF SchedulesTypeOK
  <2>5. v.on \in BOOLEAN
    BY DEF Settings
  <2>6. armed' \in [Timers -> BOOLEAN] /\ armed'[t] = v.on
        /\ \A q \in Timers : q # t => armed'[q] = armed[q]
    BY <2>3, <2>5 DEF SchedulesTypeOK
  <2>7. SchedulesTypeOK'
    <3>1. SaverOK(saver'[s])
      BY <2>4 DEF SaverOK
    <3> QED
      BY <2>3, <2>4, <2>6, <3>1 DEF SchedulesTypeOK
  <2>8. \A r \in Savers, q \in Timers : Saving(r, q)' => Saving(r, q) /\ saver'[r] = saver[r]
    BY <2>4 DEF Saving, NotSaving
  <2>9. OneFaithfulSave'
    BY <2>3, <2>8 DEF OneFaithfulSave
  <2>10. t \notin unsettled => v = setting[t] /\ dropIn[t] = DropInContent(t, setting[t])
    BY <2>2 DEF OneFaithfulSave, Saving
  <2>11. \A q \in Timers : q # t => Busy(q)' = Busy(q)
    BY <2>2, <2>4 DEF Busy, NotSaving
  <2>12. TimerFollowsSetting'
    BY <2>3, <2>6, <2>10, <2>11 DEF TimerFollowsSetting
  <2> QED
    BY <2>7, <2>9, <2>12
<1>5. ASSUME NEW s \in Savers, SystemctlFails(s) \/ KillSaver(s) PROVE SchedulesInv'
  <2>1. saver[s].at # "idle"
    BY <1>5 DEF SystemctlFails, KillSaver
  <2>2. saver[s].timer \in Timers
    BY <2>1 DEF SchedulesTypeOK, SaverOK, NotSaving
  <2>3. Saving(s, saver[s].timer)
    BY <2>1 DEF Saving
  <2>4. /\ saver' = [saver EXCEPT ![s] = NotSaving] /\ unsettled' = unsettled \cup {saver[s].timer}
        /\ UNCHANGED <<setting, dropIn, armed>>
    BY <1>5 DEF SystemctlFails, KillSaver
  <2> QED
    BY <2>2, <2>3, <2>4, SaveEnds
<1>6. CASE RecordAttempt \/ RecordResult \/ RecordSuccess \/ KillFilterUpdate \/ UNCHANGED schedulesVars
  <2>1. UNCHANGED <<setting, dropIn, armed, saver, unsettled>>
    BY <1>6 DEF RecordAttempt, RecordResult, RecordSuccess, KillFilterUpdate, schedulesVars
  <2> QED
    BY <2>1 DEF SchedulesTypeOK, OneFaithfulSave, TimerFollowsSetting, Saving, Busy
<1> QED
  BY <1>1, <1>2, <1>3, <1>4, <1>5, <1>6 DEF SchedulesNext

\* At rest a timer is what the last save asked for, unless that save failed, was
\* killed or overlapped another, for any timers and any number of savers.
THEOREM TimersFollow == SchedulesSpec => []TimerFollowsSetting
<1>1. SchedulesInv => TimerFollowsSetting
  BY DEF SchedulesInv
<1> QED
  BY <1>1, SchedulesInitInv, SchedulesNextInv, PTL DEF SchedulesSpec
----------------------------------------------------------------------------
(* The change of the address.                                              *)

Config == [v4 : Nat, v6 : Nat]

NetworkTypeOK ==
    /\ nm \in BOOLEAN /\ raced \in BOOLEAN /\ sick \in BOOLEAN /\ cut \in BOOLEAN
    /\ {file, live, kept} \subseteq Config
    /\ change \in 0..MaxChanges /\ reboots \in Nat
    /\ state \in [unit : 0..MaxChanges, snapshot : Config]
    /\ dog \in [Units -> [pc : {"none", "restore", "reapply", "unlink"}, snapshot : Config]]
    /\ cmd \in [pc : {"idle", "stage", "arm", "state", "live", "restore", "reapply", "unlink",
                      "cancel", "forget"},
                to : Config, snapshot : Config]

\* As far as this backend restores it.
Same(a, b) == a.v4 = b.v4 /\ (~nm => a = b)

\* While no watchdog met a change or a command that was not its own: a command
\* knows whether a change is pending; a watchdog at work is the one of the pending
\* change, and no command but a confirmation that just began runs beside it.
NoMeeting == ~raced =>
    /\ state # NoState => state.unit \in Units
    /\ cmd.pc \in {"stage", "arm", "state"} => state = NoState /\ change \in Units
    /\ cmd.pc \in {"live", "restore", "reapply", "unlink", "cancel", "forget"} => state # NoState
    /\ cmd.pc \in {"live", "restore", "reapply", "unlink"} => cmd.snapshot = state.snapshot
    /\ \A u \in Units : dog[u].pc # "none" =>
         /\ state # NoState /\ state.unit = u /\ dog[u].snapshot = state.snapshot
         /\ cmd.pc \in {"idle", "cancel"}

\* The watchdog of a pending change waits or works.
Guarded == ~raced /\ reboots = 0 =>
    /\ cmd.pc = "state" => change \in timers
    /\ state # NoState => state.unit \in timers \/ dog[state.unit].pc # "none"

\* What is to be restored is what was confirmed, and what has been restored is it.
Restorable == ~raced /\ ~sick /\ ~cut =>
    /\ state # NoState => Same(state.snapshot, kept)
    /\ cmd.pc \in {"stage", "arm", "state"} => Same(cmd.snapshot, kept) /\ Same(live, kept)
    /\ state = NoState /\ cmd.pc \in {"idle", "stage"} => Same(file, kept) /\ Same(live, kept)
    /\ cmd.pc \in {"reapply", "unlink"} => Same(file, kept)
    /\ cmd.pc = "unlink" => Same(live, kept)
    /\ \A u \in Units : /\ dog[u].pc \in {"reapply", "unlink"} => Same(file, kept)
                        /\ dog[u].pc = "unlink" => Same(live, kept)

NetworkInv == NetworkTypeOK /\ NoMeeting /\ Guarded /\ Restorable

LEMMA NetworkConstants ==
    /\ Original \in Config
    /\ NoState \in [unit : 0..MaxChanges, snapshot : Config]
    /\ Asleep \in [pc : {"none", "restore", "reapply", "unlink"}, snapshot : Config]
    /\ Asleep.pc = "none" /\ Idle.pc = "idle" /\ Idle.to \in Config /\ Idle.snapshot \in Config
  BY NetworkAssumption DEF Original, NoState, Asleep, Idle, Config

\* perform_rollback writes back what the snapshot holds of the address.
LEMMA RestoredSame ==
    ASSUME NetworkTypeOK, NEW s \in Config
    PROVE  Restored(s) \in Config /\ \A k : Same(s, k) => Same(Restored(s), k)
<1>1. CASE nm
  <2>1. Restored(s) = [file EXCEPT !.v4 = s.v4] /\ file \in Config
    BY <1>1 DEF Restored, NetworkTypeOK
  <2>2. Restored(s) \in Config /\ Restored(s).v4 = s.v4
    BY <2>1 DEF Config
  <2> QED
    BY <1>1, <2>2 DEF Same
<1>2. CASE ~nm
  BY <1>2 DEF Restored, Same
<1> QED
  BY <1>1, <1>2 DEF NetworkTypeOK

LEMMA NetworkInitInv == NetworkInit => NetworkInv
<1> SUFFICES ASSUME NetworkInit PROVE NetworkInv
  OBVIOUS
<1>1. NetworkTypeOK
  <2>1. cmd = [pc |-> "idle", to |-> Original, snapshot |-> Original] /\ Original \in Config
    BY NetworkConstants DEF NetworkInit, Idle
  <2>2. dog \in [Units -> [pc : {"none", "restore", "reapply", "unlink"}, snapshot : Config]]
    BY NetworkConstants DEF NetworkInit
  <2>3. change \in 0..MaxChanges /\ reboots \in Nat
    BY NetworkAssumption DEF NetworkInit
  <2>4. nm \in BOOLEAN /\ raced \in BOOLEAN /\ sick \in BOOLEAN /\ cut \in BOOLEAN
    BY Zenon DEF NetworkInit
  <2>5. {file, live, kept} \subseteq Config /\ state \in [unit : 0..MaxChanges, snapshot : Config]
    BY NetworkConstants DEF NetworkInit
  <2> QED
    BY <2>1, <2>2, <2>3, <2>4, <2>5 DEF NetworkTypeOK
<1>2. NoMeeting /\ Guarded
  BY NetworkConstants DEF NetworkInit, NoMeeting, Guarded
<1>3. Restorable
  BY NetworkConstants DEF NetworkInit, Restorable, Same
<1> QED
  BY <1>1, <1>2, <1>3 DEF NetworkInv

LEMMA NetworkNextInv == NetworkInv /\ [NetworkNext]_networkVars => NetworkInv'
<1> SUFFICES ASSUME NetworkInv, [NetworkNext]_networkVars PROVE NetworkInv'
  OBVIOUS
<1> USE NetworkAssumption DEF NetworkInv, networkBounds
<1>1. CASE Apply
  <2>1. NetworkTypeOK'
    BY <1>1 DEF Apply, NetworkTypeOK, Config
  <2>2. NoMeeting'
    BY <1>1 DEF Apply, NoMeeting, NetworkTypeOK, Units
  <2>3. Guarded'
    BY <1>1 DEF Apply, Guarded
  <2>4. Restorable'
    BY <1>1 DEF Apply, Restorable, Same
  <2> QED
    BY <2>1, <2>2, <2>3, <2>4
<1>2. CASE Confirm
  <2>1. NetworkTypeOK'
    BY <1>2 DEF Confirm, NetworkTypeOK, Config, Original, Idle
  <2>2. NoMeeting'
    BY <1>2 DEF Confirm, NoMeeting
  <2>3. Guarded'
    BY <1>2 DEF Confirm, Guarded
  <2>4. Restorable'
    BY <1>2 DEF Confirm, Restorable, Same
  <2> QED
    BY <2>1, <2>2, <2>3, <2>4
<1>3. CASE Stage
  <2>1. NetworkTypeOK'
    BY <1>3 DEF Stage, NetworkTypeOK
  <2>2. NoMeeting'
    BY <1>3 DEF Stage, NoMeeting
  <2>3. Guarded'
    BY <1>3 DEF Stage, Guarded
  <2>4. Restorable'
    BY <1>3 DEF Stage, Restorable, NoMeeting, Same
  <2> QED
    BY <2>1, <2>2, <2>3, <2>4
<1>4. CASE ScheduleRollbackTimer
  <2>1. NetworkTypeOK'
    BY <1>4 DEF ScheduleRollbackTimer, NetworkTypeOK
  <2>2. NoMeeting'
    BY <1>4 DEF ScheduleRollbackTimer, NoMeeting
  <2>3. Guarded'
    BY <1>4 DEF ScheduleRollbackTimer, Guarded
  <2>4. Restorable'
    BY <1>4 DEF ScheduleRollbackTimer, Restorable, Same
  <2> QED
    BY <2>1, <2>2, <2>3, <2>4
<1>5. CASE EarlyFailure
  <2>1. NetworkTypeOK'
    BY <1>5 DEF EarlyFailure, NetworkTypeOK, Config, Original, Idle
  <2>2. NoMeeting'
    BY <1>5 DEF EarlyFailure, NoMeeting, Idle
  <2>3. Guarded'
    BY <1>5 DEF EarlyFailure, Guarded, Idle
  <2>4. Restorable'
    BY <1>5 DEF EarlyFailure, Restorable
  <2> QED
    BY <2>1, <2>2, <2>3, <2>4
<1>6. CASE WriteStateFile
  <2>1. NetworkTypeOK'
    BY <1>6 DEF WriteStateFile, NetworkTypeOK
  <2>2. NoMeeting'
    BY <1>6 DEF WriteStateFile, NoMeeting, NoState, Units
  <2>3. Guarded'
    BY <1>6 DEF WriteStateFile, Guarded
  <2>4. Restorable'
    BY <1>6 DEF WriteStateFile, Restorable, Same
  <2> QED
    BY <2>1, <2>2, <2>3, <2>4
<1>7. CASE ApplyLive
  <2>1. NetworkTypeOK'
    BY <1>7 DEF ApplyLive, NetworkTypeOK, Config, Original, Idle
  <2>2. NoMeeting'
    BY <1>7 DEF ApplyLive, NoMeeting, Idle
  <2>3. Guarded'
    BY <1>7 DEF ApplyLive, Guarded, Idle
  <2>4. Restorable'
    BY <1>7 DEF ApplyLive, Restorable, NoMeeting, Same, Idle
  <2> QED
    BY <2>1, <2>2, <2>3, <2>4
<1>8. CASE ApplyFails
  <2>1. NetworkTypeOK'
    BY <1>8 DEF ApplyFails, NetworkTypeOK
  <2>2. NoMeeting'
    BY <1>8 DEF ApplyFails, NoMeeting
  <2>3. Guarded'
    BY <1>8 DEF ApplyFails, Guarded
  <2>4. Restorable'
    BY <1>8 DEF ApplyFails, Restorable, Same
  <2> QED
    BY <2>1, <2>2, <2>3, <2>4
<1>9. CASE CmdRestoreFiles
  <2>1. /\ cmd.pc = "restore" /\ cmd' = [cmd EXCEPT !.pc = "reapply"]
        /\ UNCHANGED <<nm, live, state, timers, dog, change, kept, raced, cut, reboots>>
    BY <1>9 DEF CmdRestoreFiles
  <2>2. \/ file' = Restored(cmd.snapshot) /\ UNCHANGED sick
        \/ sick' = TRUE /\ UNCHANGED file
    BY <1>9 DEF CmdRestoreFiles, RestoreFiles
  <2>3. cmd.snapshot \in Config
    BY DEF NetworkTypeOK
  <2>4. NetworkTypeOK'
    BY <2>1, <2>2, <2>3, RestoredSame DEF NetworkTypeOK
  <2>5. NoMeeting' /\ Guarded'
    BY <2>1 DEF NoMeeting, Guarded, NetworkTypeOK
  <2>6. Restorable'
    BY <2>1, <2>2, <2>3, RestoredSame DEF Restorable, NoMeeting, NetworkTypeOK, Same
  <2> QED
    BY <2>4, <2>5, <2>6
<1>10. CASE CmdReapply
  <2>1. NetworkTypeOK'
    BY <1>10 DEF CmdReapply, Reapply, NetworkTypeOK
  <2>2. NoMeeting'
    BY <1>10 DEF CmdReapply, Reapply, NoMeeting
  <2>3. Guarded'
    BY <1>10 DEF CmdReapply, Reapply, Guarded
  <2>4. Restorable'
    BY <1>10 DEF CmdReapply, Reapply, Restorable, Same
  <2> QED
    BY <2>1, <2>2, <2>3, <2>4
<1>11. CASE CmdUnlink
  <2>1. NetworkTypeOK'
    BY <1>11 DEF CmdUnlink, NetworkTypeOK, Config, Original, NoState, Idle
  <2>2. NoMeeting'
    BY <1>11 DEF CmdUnlink, NoMeeting, Idle
  <2>3. Guarded'
    BY <1>11 DEF CmdUnlink, Guarded, Idle
  <2>4. Restorable'
    BY <1>11 DEF CmdUnlink, Restorable, Same, Idle
  <2> QED
    BY <2>1, <2>2, <2>3, <2>4
<1>12. CASE CancelRollbackTimer
  <2>1. /\ cmd.pc = "cancel" /\ cmd' = [cmd EXCEPT !.pc = "forget"]
        /\ UNCHANGED <<nm, file, live, state, timers, change, kept, sick, cut, reboots>>
    BY <1>12 DEF CancelRollbackTimer
  <2>2. CASE dog' = [dog EXCEPT ![state.unit] = Asleep] /\ raced' = TRUE
    <3>1. NetworkTypeOK'
      BY <2>1, <2>2, NetworkConstants DEF NetworkTypeOK
    <3> QED
      BY <2>2, <3>1 DEF NoMeeting, Guarded, Restorable
  <2>3. CASE ~(state # NoState /\ dog[state.unit].pc # "none") /\ UNCHANGED <<dog, raced>>
    <3>1. NetworkTypeOK'
      BY <2>1, <2>3 DEF NetworkTypeOK
    <3>2. NoMeeting'
      BY <2>1, <2>3 DEF NoMeeting, NetworkTypeOK
    <3>3. Guarded'
      BY <2>1, <2>3 DEF Guarded, NetworkTypeOK
    <3>4. Restorable'
      BY <2>1, <2>3 DEF Restorable, NetworkTypeOK, NoMeeting, Same
    <3> QED
      BY <3>1, <3>2, <3>3, <3>4
  <2> QED
    BY <1>12, <2>2, <2>3 DEF CancelRollbackTimer
<1>13. CASE ForgetState
  <2>1. NetworkTypeOK'
    BY <1>13 DEF ForgetState, NetworkTypeOK, Config, Original, NoState, Idle
  <2>2. NoMeeting'
    BY <1>13 DEF ForgetState, NoMeeting, Idle
  <2>3. Guarded'
    BY <1>13 DEF ForgetState, Guarded, Idle
  <2>4. Restorable'
    BY <1>13 DEF ForgetState, Restorable, Same, Idle
  <2> QED
    BY <2>1, <2>2, <2>3, <2>4
<1>14. ASSUME NEW u \in Units, Fire(u) PROVE NetworkInv'
  <2>1. /\ u \in timers /\ ~(u = change /\ cmd.pc = "state") /\ timers' = timers \ {u}
        /\ UNCHANGED <<nm, file, live, state, cmd, change, kept, sick, cut, reboots>>
    BY <1>14 DEF Fire
  <2>2. CASE state = NoState /\ UNCHANGED <<dog, raced>>
    <3>1. NetworkTypeOK' /\ NoMeeting'
      BY <2>1, <2>2 DEF NetworkTypeOK, NoMeeting
    <3>2. Guarded'
      BY <2>1, <2>2 DEF Guarded
    <3>3. Restorable'
      BY <2>1, <2>2 DEF Restorable, Same
    <3> QED
      BY <3>1, <3>2, <3>3
  <2>3. CASE /\ state # NoState
             /\ dog' = [dog EXCEPT ![u] = [pc |-> "restore", snapshot |-> state.snapshot]]
             /\ raced' = (raced \/ u # state.unit \/ cmd.pc # "idle")
    <3> DEFINE woken == [pc |-> "restore", snapshot |-> state.snapshot]
    <3>1. woken \in [pc : {"none", "restore", "reapply", "unlink"}, snapshot : Config]
      BY DEF NetworkTypeOK
    <3>2. /\ dog' \in [Units -> [pc : {"none", "restore", "reapply", "unlink"}, snapshot : Config]]
          /\ dog'[u].pc = "restore" /\ dog'[u].snapshot = state.snapshot
          /\ \A w \in Units : w # u => dog'[w] = dog[w]
      BY <2>3, <3>1 DEF NetworkTypeOK
    <3>3. raced' \in BOOLEAN /\ (~raced' => ~raced /\ u = state.unit /\ cmd.pc = "idle")
      BY <2>3
    <3>4. NetworkTypeOK'
      BY <2>1, <3>2, <3>3 DEF NetworkTypeOK
    <3>5. NoMeeting'
      BY <2>1, <2>3, <3>2, <3>3 DEF NoMeeting
    <3>6. Guarded'
      BY <2>1, <3>2, <3>3 DEF Guarded
    <3>7. Restorable'
      BY <2>1, <3>2, <3>3 DEF Restorable, Same
    <3> QED
      BY <3>4, <3>5, <3>6, <3>7
  <2> QED
    BY <1>14, <2>2, <2>3 DEF Fire
<1>15. ASSUME NEW u \in Units, DogRestoreFiles(u) PROVE NetworkInv'
  <2>1. /\ dog[u].pc = "restore" /\ dog' = [dog EXCEPT ![u].pc = "reapply"]
        /\ UNCHANGED <<nm, live, state, timers, cmd, change, kept, raced, cut, reboots>>
    BY <1>15 DEF DogRestoreFiles
  <2>2. \/ file' = Restored(dog[u].snapshot) /\ UNCHANGED sick
        \/ sick' = TRUE /\ UNCHANGED file
    BY <1>15 DEF DogRestoreFiles, RestoreFiles
  <2>3. dog[u].snapshot \in Config
    BY DEF NetworkTypeOK
  <2>4. /\ dog' \in [Units -> [pc : {"none", "restore", "reapply", "unlink"}, snapshot : Config]]
        /\ dog'[u].pc = "reapply" /\ dog'[u].snapshot = dog[u].snapshot
        /\ \A w \in Units : w # u => dog'[w] = dog[w]
    BY <2>1 DEF NetworkTypeOK
  <2>5. NetworkTypeOK'
    <3>1. file' \in Config /\ sick' \in BOOLEAN
      BY <2>2, <2>3, RestoredSame DEF NetworkTypeOK
    <3> QED
      BY <2>1, <2>4, <3>1 DEF NetworkTypeOK
  <2>6. NoMeeting' /\ Guarded'
    BY <2>1, <2>4 DEF NoMeeting, Guarded
  <2>7. Restorable'
    <3> SUFFICES ASSUME ~raced, ~sick', ~cut PROVE Restorable'
      BY <2>1 DEF Restorable
    <3>1. ~sick /\ file' = Restored(dog[u].snapshot)
      BY <2>2 DEF NetworkTypeOK
    <3>2. state # NoState /\ dog[u].snapshot = state.snapshot /\ cmd.pc \in {"idle", "cancel"}
      BY <2>1 DEF NoMeeting
    <3>3. Same(file', kept)
      BY <2>3, <3>1, <3>2, RestoredSame DEF Restorable
    <3>4. \A w \in Units : w # u => dog[w].pc = "none"
      BY <3>2, <2>1 DEF NoMeeting
    <3> QED
      BY <2>1, <2>4, <3>1, <3>2, <3>3, <3>4 DEF Restorable, Same
  <2> QED
    BY <2>5, <2>6, <2>7
<1>16. ASSUME NEW u \in Units, DogReapply(u) PROVE NetworkInv'
  <2>1. NetworkTypeOK'
    BY <1>16 DEF DogReapply, Reapply, NetworkTypeOK
  <2>2. NoMeeting'
    BY <1>16 DEF DogReapply, Reapply, NoMeeting
  <2>3. Guarded'
    BY <1>16 DEF DogReapply, Reapply, Guarded
  <2>4. Restorable'
    BY <1>16 DEF DogReapply, Reapply, Restorable, Same
  <2> QED
    BY <2>1, <2>2, <2>3, <2>4
<1>17. ASSUME NEW u \in Units, DogUnlink(u) PROVE NetworkInv'
  <2>1. NetworkTypeOK'
    BY <1>17 DEF DogUnlink, NetworkTypeOK, Config, Original, NoState, Asleep
  <2>2. NoMeeting'
    BY <1>17 DEF DogUnlink, NoMeeting, NetworkTypeOK, Asleep
  <2>3. Guarded'
    BY <1>17 DEF DogUnlink, Guarded
  <2>4. Restorable'
    BY <1>17 DEF DogUnlink, Restorable, Same
  <2> QED
    BY <2>1, <2>2, <2>3, <2>4
<1>18. CASE KillCommand
  <2>1. NetworkTypeOK'
    BY <1>18 DEF KillCommand, NetworkTypeOK, Config, Original, Idle
  <2>2. NoMeeting'
    BY <1>18 DEF KillCommand, NoMeeting, Idle
  <2>3. Guarded'
    BY <1>18 DEF KillCommand, Guarded, Idle
  <2>4. Restorable'
    BY <1>18 DEF KillCommand, Restorable, Same, Idle
  <2> QED
    BY <2>1, <2>2, <2>3, <2>4
<1>19. CASE Reboot
  <2>1. NetworkTypeOK'
    BY <1>19 DEF Reboot, NetworkTypeOK, Config, Original, Asleep, Idle
  <2>2. NoMeeting'
    BY <1>19 DEF Reboot, NoMeeting, Asleep, Idle
  <2>3. Guarded'
    BY <1>19 DEF Reboot, Guarded, NetworkTypeOK
  <2>4. Restorable'
    BY <1>19 DEF Reboot, Restorable, Same, Asleep, Idle
  <2> QED
    BY <2>1, <2>2, <2>3, <2>4
<1>20. CASE UNCHANGED networkVars
  BY <1>20 DEF networkVars, NetworkTypeOK, NoMeeting, Guarded, Restorable, Same
<1> QED
  BY <1>1, <1>2, <1>3, <1>4, <1>5, <1>6, <1>7, <1>8, <1>9, <1>10, <1>11, <1>12, <1>13, <1>14,
     <1>15, <1>16, <1>17, <1>18, <1>19, <1>20 DEF NetworkNext, Command, Watchdog

\* With no process at work and nothing pending the address is the one last
\* confirmed, and a pending change has its own watchdog waiting, for any number of
\* changes, confirmations, failures, kills and reboots.
THEOREM AddressConfirmedOrGuarded == NetworkSpec => []ConfirmedOrGuarded
<1>1. NetworkInv => ConfirmedOrGuarded
  BY DEF NetworkInv, NetworkTypeOK, NoMeeting, Guarded, Restorable, Same, ConfirmedOrGuarded, AtRest
<1> QED
  BY <1>1, NetworkInitInv, NetworkNextInv, PTL DEF NetworkSpec
=============================================================================
