----------------------------- MODULE Enrollment -----------------------------
(***************************************************************************)
(* Enrollment of replicas, primary side of app/replication.py.  A request  *)
(* of POST /replication/enroll reserves its token in a short transaction,  *)
(* runs the privileged replication-consume-enrollment command, which       *)
(* issues a certificate and consumes the token, and replies, or releases   *)
(* the reservation.  Every request is served by a thread of its own; a     *)
(* token may be presented again, after a failure or at the same time.      *)
(***************************************************************************)
EXTENDS Naturals, FiniteSets

CONSTANTS
  Requests,  \* enrollment requests; a request stands for its certificate too
  Tokens,    \* enrollment tokens, each bound to one replica identity
  None,      \* no request
  Prompt     \* a live request is finished before its reservation is stale

ASSUME EnrollmentAssumption == None \notin Requests /\ Prompt \in BOOLEAN

VARIABLES
  status,    \* status column: unused, pending, consumed, expired, revoked
  reserved,  \* reserved_at IS NOT NULL
  stale,     \* reserved_at is more than RESERVATION_TTL_SECONDS ago
  late,      \* expires_at has passed
  stage,     \* where a request is
  token,     \* the token it presents
  replica,   \* replication_replicas: certificate and status of the token's identity
  issued,    \* history: requests whose certificate was recorded
  got        \* requests answered with their certificate

enrollmentVars == <<status, reserved, stale, late, stage, token, replica, issued, got>>

NoReplica == [cert |-> None, status |-> "none"]
InStep(r) == stage[r] \in {"select", "issue", "finish", "output"}

EnrollmentInit ==
  /\ status = [t \in Tokens |-> "unused"]
  /\ reserved = [t \in Tokens |-> FALSE] /\ stale = [t \in Tokens |-> FALSE]
  /\ late = [t \in Tokens |-> FALSE]
  /\ stage = [r \in Requests |-> "idle"]
  /\ token \in [Requests -> Tokens]
  /\ replica = [t \in Tokens |-> NoReplica]
  /\ issued = {} /\ got = {}

\* generate_enrollment_token.
Generate(t) ==
  /\ status[t] = "unused"
  /\ status' = [status EXCEPT ![t] = "pending"]
  /\ UNCHANGED <<reserved, stale, late, stage, token, replica, issued, got>>

\* revoke_enrollment.
Revoke(t) ==
  /\ status[t] = "pending"
  /\ status' = [status EXCEPT ![t] = "revoked"]
  /\ UNCHANGED <<reserved, stale, late, stage, token, replica, issued, got>>

\* set_replica_status.
SetReplicaStatus(t) ==
  /\ replica[t].cert # None
  /\ \E s \in {"active", "paused", "revoked"} \ {replica[t].status} :
       replica' = [replica EXCEPT ![t].status = s]
  /\ UNCHANGED <<status, reserved, stale, late, stage, token, issued, got>>

\* Time: the token's 15 minutes, the reservation's 45 seconds.
TokenExpires(t) ==
  /\ status[t] = "pending" /\ ~late[t]
  /\ late' = [late EXCEPT ![t] = TRUE]
  /\ UNCHANGED <<status, reserved, stale, stage, token, replica, issued, got>>

ReservationAges(t) ==
  /\ reserved[t] /\ ~stale[t]
  /\ Prompt => \A r \in Requests : token[r] = t => ~InStep(r) /\ stage[r] # "release"
  /\ stale' = [stale EXCEPT ![t] = TRUE]
  /\ UNCHANGED <<status, reserved, late, stage, token, replica, issued, got>>

\* _expire_stale_enrollments.
Swept(t) == status[t] = "pending" /\ late[t]
Freed(t) == status[t] = "pending" /\ ~late[t] /\ reserved[t] /\ stale[t]
Sweep ==
  /\ status' = [t \in Tokens |-> IF Swept(t) THEN "expired" ELSE status[t]]
  /\ stale' = [t \in Tokens |-> stale[t] /\ ~Freed(t)]

\* list_enrollments: every view of the replication page sweeps.
List ==
  /\ \E t \in Tokens : Swept(t) \/ Freed(t)
  /\ Sweep
  /\ reserved' = [t \in Tokens |-> reserved[t] /\ ~Freed(t)]
  /\ UNCHANGED <<late, stage, token, replica, issued, got>>

\* Mutants of the reservation: an already reserved token matches; the orphaned
\* reservations are not swept.
Reserve_Again(r) ==
  LET t == token[r] IN
  /\ stage[r] = "idle" /\ status[t] # "unused"
  /\ status' = status /\ stale' = stale
  /\ IF status[t] = "pending" /\ ~late[t]
       THEN /\ reserved' = [reserved EXCEPT ![t] = TRUE]
            /\ stage' = [stage EXCEPT ![r] = "select"]
       ELSE stage' = [stage EXCEPT ![r] = "done"] /\ UNCHANGED reserved
  /\ UNCHANGED <<late, token, replica, issued, got>>
Reserve_NoSweep(r) ==
  LET t == token[r] IN
  /\ stage[r] = "idle" /\ status[t] # "unused"
  /\ status' = status /\ stale' = stale
  /\ IF status[t] = "pending" /\ ~late[t] /\ ~reserved[t]
       THEN /\ reserved' = [reserved EXCEPT ![t] = TRUE]
            /\ stage' = [stage EXCEPT ![r] = "select"]
       ELSE stage' = [stage EXCEPT ![r] = "done"] /\ UNCHANGED reserved
  /\ UNCHANGED <<late, token, replica, issued, got>>

\* request_enrollment_consumption: sweep, commit, then the conditional UPDATE.
Reserve(r) ==
  LET t == token[r]
      free == [u \in Tokens |-> reserved[u] /\ ~Freed(u)] IN
  /\ stage[r] = "idle" /\ status[t] # "unused"
  /\ Sweep
  /\ IF status'[t] = "pending" /\ ~free[t]
       THEN /\ reserved' = [free EXCEPT ![t] = TRUE]
            /\ stage' = [stage EXCEPT ![r] = "select"]
       ELSE /\ reserved' = free
            /\ stage' = [stage EXCEPT ![r] = "done"]
  /\ UNCHANGED <<late, token, replica, issued, got>>

\* process_pending_enrollment_consumption looks its reservation up by the token hash.
Select(r) ==
  /\ stage[r] = "select"
  /\ stage' = [stage EXCEPT ![r] = IF status[token[r]] = "pending" /\ reserved[token[r]]
                               THEN "issue" ELSE "release"]
  /\ UNCHANGED <<status, reserved, stale, late, token, replica, issued, got>>

\* issue_client_cert: openssl runs, no transaction is open.
IssueCert(r) ==
  /\ stage[r] = "issue"
  /\ stage' = [stage EXCEPT ![r] = "finish"]
  /\ UNCHANGED <<status, reserved, stale, late, token, replica, issued, got>>

\* Mutant: the token is left pending.
FinishEnrollment_NotConsumed(r) ==
  LET t == token[r] IN
  /\ stage[r] = "finish"
  /\ replica' = [replica EXCEPT ![t] = [cert |-> r, status |-> "active"]]
  /\ reserved' = [reserved EXCEPT ![t] = FALSE]
  /\ issued' = issued \cup {r}
  /\ stage' = [stage EXCEPT ![r] = "output"]
  /\ UNCHANGED <<status, stale, late, token, got>>

\* _finish_enrollment: the replica row and the consumed token, one commit.
FinishEnrollment(r) ==
  LET t == token[r] IN
  /\ stage[r] = "finish"
  /\ replica' = [replica EXCEPT ![t] = [cert |-> r, status |-> "active"]]
  /\ status' = [status EXCEPT ![t] = "consumed"]
  /\ issued' = issued \cup {r}
  /\ stage' = [stage EXCEPT ![r] = "output"]
  /\ UNCHANGED <<reserved, stale, late, token, got>>

\* The command exits nonzero: it raises before the commit (rolled back) or, in
\* ensure_server_cert or while printing, after it.
CommandFails(r) ==
  /\ InStep(r)
  /\ stage' = [stage EXCEPT ![r] = "release"]
  /\ UNCHANGED <<status, reserved, stale, late, token, replica, issued, got>>

\* release_enrollment_reservation, whoever holds the reservation now.
Release(r) ==
  LET t == token[r] IN
  /\ stage[r] = "release"
  /\ reserved' = [reserved EXCEPT ![t] = @ /\ status[t] # "pending"]
  /\ stale' = [stale EXCEPT ![t] = @ /\ status[t] # "pending"]
  /\ stage' = [stage EXCEPT ![r] = "done"]
  /\ UNCHANGED <<status, late, token, replica, issued, got>>

\* _handle_enroll replies with the certificate the command printed.
Reply(r) ==
  /\ stage[r] = "output"
  /\ got' = got \cup {r}
  /\ stage' = [stage EXCEPT ![r] = "done"]
  /\ UNCHANGED <<status, reserved, stale, late, token, replica, issued>>

\* The web service is stopped: its thread and the command it spawned end here.
RequestCrash(r) ==
  /\ InStep(r) \/ stage[r] = "release"
  /\ stage' = [stage EXCEPT ![r] = "crashed"]
  /\ UNCHANGED <<status, reserved, stale, late, token, replica, issued, got>>

Serve(r) == Select(r) \/ IssueCert(r) \/ FinishEnrollment(r) \/ Release(r) \/ Reply(r)

EnrollmentNext ==
  \/ \E t \in Tokens : \/ Generate(t) \/ Revoke(t) \/ SetReplicaStatus(t)
                       \/ TokenExpires(t) \/ ReservationAges(t)
  \/ List
  \/ \E r \in Requests : Reserve(r) \/ Serve(r) \/ CommandFails(r) \/ RequestCrash(r)

EnrollmentSpec == EnrollmentInit /\ [][EnrollmentNext]_enrollmentVars

\* Requests are served, time passes, and the replicas present their tokens.
EnrollmentFairSpec ==
  /\ EnrollmentSpec
  /\ \A r \in Requests : WF_enrollmentVars(Serve(r)) /\ WF_enrollmentVars(Reserve(r))
  /\ \A t \in Tokens : WF_enrollmentVars(ReservationAges(t))

-----------------------------------------------------------------------------
(* Properties. *)

\* request_enrollment_consumption: a reservation has one holder.  Two requests with the
\* same token never both spend a privileged certificate-issuance step on it, and a
\* pending token is reserved only for a request that works on it, releases it or was
\* killed: a failed attempt leaves no reservation behind.
ReservationHasOneHolder ==
  /\ \A r, q \in Requests : r # q /\ token[r] = token[q] => ~(InStep(r) /\ InStep(q))
  /\ \A t \in Tokens :
       status[t] = "pending" /\ reserved[t] =>
         \E r \in Requests : token[r] = t /\ (InStep(r) \/ stage[r] \in {"release", "crashed"})

\* "one-time, single-use": a token yields at most one recorded certificate, and the
\* replica it answered is the one on record.
SingleUse ==
  /\ \A r, q \in issued : token[r] = token[q] => r = q
  /\ \A r \in got : replica[token[r]].cert = r

\* _expire_stale_enrollments: "a single interrupted request can never make a token
\* permanently unusable".  It is freed by the next request that presents it.
OrphanIsFreed ==
  \A t \in Tokens :
    (/\ status[t] = "pending" /\ reserved[t] /\ stale[t]
     /\ \E r, q \in Requests : /\ token[r] = t /\ stage[r] = "crashed"
                              /\ token[q] = t /\ stage[q] = "idle")
      ~> (~stale[t] \/ status[t] # "pending")
=============================================================================
