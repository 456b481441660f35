--------------------------- MODULE ReplicaProofs ----------------------------
(***************************************************************************)
(* What the replica pair relies on: the reservation and the single use of  *)
(* an enrollment token, for any number of requests and tokens, and the     *)
(* outcome of a replication pass, for any number of generations, kills and *)
(* local edits.                                                            *)
(***************************************************************************)
EXTENDS Replication, Enrollment, TLAPS

----------------------------------------------------------------------------
(* Enrollment.                                                             *)

Stages == {"idle", "select", "issue", "finish", "output", "release", "done", "crashed"}

EnrollmentTypeOK ==
    /\ status \in [Tokens -> {"unused", "pending", "consumed", "expired", "revoked"}]
    /\ reserved \in [Tokens -> BOOLEAN] /\ stale \in [Tokens -> BOOLEAN]
    /\ late \in [Tokens -> BOOLEAN]
    /\ stage \in [Requests -> Stages]
    /\ token \in [Requests -> Tokens]
    /\ replica \in [Tokens -> [cert : Requests \union {None},
                               status : {"none", "active", "paused", "revoked"}]]
    /\ issued \subseteq Requests /\ got \subseteq issued

\* A request that works on its reservation or is about to give it back.
Working(r) == InStep(r) \/ stage[r] = "release"

\* The reservation a working request made is still there, and still fresh, as
\* long as its token is pending; so nobody else can take the token.
HeldWhileWorking ==
    \A r \in Requests : Working(r) =>
        /\ status[token[r]] # "unused"
        /\ status[token[r]] = "pending" => reserved[token[r]] /\ ~stale[token[r]]

OneWorker ==
    \A r, q \in Requests : r # q /\ token[r] = token[q] => ~(Working(r) /\ Working(q))

\* A pending token that is reserved has its request.  One that was never handed
\* out is not reserved.
ReservedForSomeone ==
    \A t \in Tokens :
        /\ stale[t] => reserved[t]
        /\ status[t] = "unused" => ~reserved[t]
        /\ status[t] = "pending" /\ reserved[t] =>
             \E r \in Requests : token[r] = t /\ (Working(r) \/ stage[r] = "crashed")

\* A recorded certificate has consumed its token and is the one on record; no
\* request is on the way to a second one.
IssuedOnce ==
    /\ \A r \in issued : status[token[r]] = "consumed" /\ replica[token[r]].cert = r
    /\ \A r \in Requests :
         /\ stage[r] = "output" => r \in issued
         /\ stage[r] \in {"select", "issue", "finish"} => status[token[r]] # "consumed"

EnrollmentInv ==
    /\ EnrollmentTypeOK /\ HeldWhileWorking /\ OneWorker /\ ReservedForSomeone /\ IssuedOnce
    /\ \A r, q \in issued : token[r] = token[q] => r = q

LEMMA EnrollmentInitInv == EnrollmentInit => EnrollmentInv
  BY DEF EnrollmentInit, NoReplica, EnrollmentInv, EnrollmentTypeOK, Stages, HeldWhileWorking,
         Working, InStep, OneWorker, ReservedForSomeone, IssuedOnce

\* The sweep only expires pending tokens, and frees stale reservations of the
\* others: a token somebody works on keeps its reservation.
LEMMA SweepKeeps ==
    ASSUME EnrollmentInv, Sweep
    PROVE  /\ status' \in [Tokens -> {"unused", "pending", "consumed", "expired", "revoked"}]
           /\ stale' \in [Tokens -> BOOLEAN]
           /\ \A t \in Tokens : /\ status'[t] = "pending" => status[t] = "pending"
                                /\ status[t] = "consumed" <=> status'[t] = "consumed"
                                /\ status[t] = "unused" <=> status'[t] = "unused"
                                /\ stale'[t] => stale[t] /\ ~Freed(t)
                                /\ Freed(t) => stale[t]
  BY DEF EnrollmentInv, EnrollmentTypeOK, Sweep, Swept, Freed

LEMMA EnrollmentNextInv ==
    ASSUME Prompt
    PROVE  EnrollmentInv /\ [EnrollmentNext]_enrollmentVars => EnrollmentInv'
<1> SUFFICES ASSUME EnrollmentInv, [EnrollmentNext]_enrollmentVars PROVE EnrollmentInv'
  OBVIOUS
<1> USE EnrollmentAssumption
<1> USE DEF EnrollmentInv, EnrollmentTypeOK, Stages, HeldWhileWorking, Working, InStep, OneWorker,
            ReservedForSomeone, IssuedOnce
<1>1. ASSUME NEW t \in Tokens, Generate(t) PROVE EnrollmentInv'
  BY <1>1 DEF Generate
<1>2. ASSUME NEW t \in Tokens, Revoke(t) PROVE EnrollmentInv'
  BY <1>2 DEF Revoke
<1>3. ASSUME NEW t \in Tokens, SetReplicaStatus(t) PROVE EnrollmentInv'
  BY <1>3 DEF SetReplicaStatus
<1>4. ASSUME NEW t \in Tokens, TokenExpires(t) PROVE EnrollmentInv'
  BY <1>4 DEF TokenExpires
<1>5. ASSUME NEW t \in Tokens, ReservationAges(t) PROVE EnrollmentInv'
  BY <1>5 DEF ReservationAges
<1>6. CASE List
  BY <1>6, SweepKeeps DEF List
<1>7. ASSUME NEW r \in Requests, Reserve(r) PROVE EnrollmentInv'
  <2> DEFINE t == token[r]
             free == [u \in Tokens |-> reserved[u] /\ ~Freed(u)]
  <2>1. t \in Tokens /\ free \in [Tokens -> BOOLEAN]
    OBVIOUS
  <2>2. /\ Sweep /\ stage[r] = "idle" /\ status[t] # "unused"
        /\ UNCHANGED <<late, token, replica, issued, got>>
    BY <1>7 DEF Reserve
  <2>3. \A u \in Tokens : /\ free[u] => reserved[u]
                          /\ reserved[u] /\ ~free[u] => stale[u]
                          /\ stale'[u] => free[u]
    BY <2>2, SweepKeeps
  <2>4. CASE status'[t] = "pending" /\ ~free[t]
    <3>1. reserved' = [free EXCEPT ![t] = TRUE] /\ stage' = [stage EXCEPT ![r] = "select"]
      BY <1>7, <2>4 DEF Reserve
    <3>2. \A q \in Requests : token[q] = t => ~Working(q)
      BY <2>1, <2>2, <2>3, <2>4, SweepKeeps
    <3> HIDE DEF t, free
    <3>3. EnrollmentTypeOK'
      BY <2>1, <2>2, <3>1, SweepKeeps
    <3>4. HeldWhileWorking'
      <4>1. ~stale'[t]
        <5>1. CASE Freed(t)
          BY <2>1, <2>2, <5>1 DEF Sweep
        <5>2. CASE ~Freed(t)
          <6>1. ~reserved[t]
            BY <2>1, <2>4, <5>2 DEF free
          <6> QED
            BY <2>1, <2>2, <6>1, SweepKeeps
        <5> QED
          BY <5>1, <5>2
      <4> QED
        BY <2>1, <2>2, <2>3, <3>1, <3>2, <4>1, SweepKeeps DEF t
    <3>5. OneWorker'
      BY <2>1, <2>2, <3>1, <3>2 DEF t
    <3>6. ReservedForSomeone'
      BY <2>1, <2>2, <2>3, <2>4, <3>1, SweepKeeps DEF t
    <3>7. IssuedOnce'
      BY <2>1, <2>2, <2>4, <3>1, SweepKeeps DEF t
    <3> QED
      BY <2>2, <3>3, <3>4, <3>5, <3>6, <3>7
  <2>5. CASE ~(status'[t] = "pending" /\ ~free[t])
    <3>1. reserved' = free /\ stage' = [stage EXCEPT ![r] = "done"]
      BY <1>7, <2>5 DEF Reserve
    <3> HIDE DEF t, free
    <3> QED
      BY <2>1, <2>2, <2>3, <3>1, SweepKeeps DEF t
  <2> QED
    BY <2>4, <2>5
<1>8. ASSUME NEW r \in Requests, Select(r) PROVE EnrollmentInv'
  BY <1>8 DEF Select
<1>9. ASSUME NEW r \in Requests, IssueCert(r) PROVE EnrollmentInv'
  BY <1>9 DEF IssueCert
<1>10. ASSUME NEW r \in Requests, FinishEnrollment(r) PROVE EnrollmentInv'
  BY <1>10 DEF FinishEnrollment
<1>11. ASSUME NEW r \in Requests, Release(r) PROVE EnrollmentInv'
  BY <1>11 DEF Release
<1>12. ASSUME NEW r \in Requests, Reply(r) PROVE EnrollmentInv'
  BY <1>12 DEF Reply
<1>13. ASSUME NEW r \in Requests, CommandFails(r) PROVE EnrollmentInv'
  BY <1>13 DEF CommandFails
<1>14. ASSUME NEW r \in Requests, RequestCrash(r) PROVE EnrollmentInv'
  BY <1>14 DEF RequestCrash
<1>15. CASE UNCHANGED enrollmentVars
  BY <1>15 DEF enrollmentVars
<1> QED
  BY <1>1, <1>2, <1>3, <1>4, <1>5, <1>6, <1>7, <1>8, <1>9, <1>10, <1>11, <1>12, <1>13, <1>14, <1>15
     DEF EnrollmentNext, Serve

\* Requests that are finished before their reservation is stale never share one, and
\* no failed attempt leaves a reservation that has no holder.
THEOREM OneHolder ==
    ASSUME Prompt
    PROVE  EnrollmentSpec => []ReservationHasOneHolder
<1>1. EnrollmentInv => ReservationHasOneHolder
  BY DEF EnrollmentInv, OneWorker, ReservedForSomeone, Working, ReservationHasOneHolder
<1> QED
  BY <1>1, EnrollmentInitInv, EnrollmentNextInv, PTL DEF EnrollmentSpec

\* A token yields one recorded certificate, and the replica that was answered is the
\* one on record, whatever requests fail, crash or are repeated.
THEOREM TokenSingleUse ==
    ASSUME Prompt
    PROVE  EnrollmentSpec => []SingleUse
<1>1. EnrollmentInv => SingleUse
  BY DEF EnrollmentInv, EnrollmentTypeOK, IssuedOnce, SingleUse
<1> QED
  BY <1>1, EnrollmentInitInv, EnrollmentNextInv, PTL DEF EnrollmentSpec

----------------------------------------------------------------------------
(* Replication.  Two passes side by side spoil each other's outcome; the   *)
(* theorems are about a replica with one kind of pass, the poller or       *)
(* Sync Now.                                                               *)

SinglePass == \A s, q \in Passes : s = q

Contents == Nat \union {Local, Reset}
Sections == [tables : Contents, clients : Contents, enc : Contents]

PassTypeOK ==
    /\ latest \in Nat /\ acked \in Nat /\ lastApplied \in Nat
    /\ edits \in Nat
    /\ db \in Sections
    /\ pc \in [Passes -> {"idle", "fetch", "snapshot", "apply", "deploy", "restore", "record", "ack"}]
    /\ gen \in [Passes -> Nat]
    /\ snapshot \in [Passes -> Sections]
    /\ DOMAIN before = Passes /\ DOMAIN result = Passes

\* The generation a pass works on is at least as new as the recorded one, and the
\* recorded one once it is recorded.
Fresh(s) ==
    /\ pc[s] \in {"snapshot", "apply", "deploy", "restore", "record"} =>
         lastApplied <= gen[s] /\ gen[s] <= latest
    /\ pc[s] = "ack" => gen[s] = lastApplied

\* What the pass has put into the tables and deployed by the time it is there.
Applied(s) ==
    /\ pc[s] # "idle" => result[s] = "none"
    /\ edits = 0 =>
         /\ pc[s] \in {"deploy", "record", "ack"} => db.tables = gen[s] /\ db.clients = gen[s]
         /\ pc[s] \in {"record", "ack"} => live.tables = gen[s] /\ live.clients = gen[s]
         /\ result[s] = "success" =>
              /\ db.tables = lastApplied /\ db.clients = lastApplied
              /\ live.tables = lastApplied /\ live.clients = lastApplied

\* What a pass that fails goes back to.
Undoable(s) == edits = 0 =>
    /\ pc[s] \in {"fetch", "snapshot", "apply"} => db = before[s].db
    /\ pc[s] \in {"fetch", "snapshot", "apply", "deploy", "restore"} => live = before[s].live
    /\ pc[s] \in {"apply", "deploy", "restore"} => snapshot[s] = before[s].db
    /\ result[s] = "failed" =>
         db.tables = before[s].db.tables /\ db.enc = before[s].db.enc /\ live = before[s].live

ReplicationInv ==
    /\ PassTypeOK
    /\ acked <= lastApplied /\ lastApplied <= latest
    /\ \A s \in Passes : Fresh(s) /\ Applied(s) /\ Undoable(s)

LEMMA ReplicationInitInv == Init => ReplicationInv
  BY DEF Init, Start0, ReplicationInv, PassTypeOK, Sections, Contents, Fresh, Applied, Undoable

LEMMA ReplicationNextInv ==
    ASSUME SinglePass
    PROVE  ReplicationInv /\ [Next]_vars => ReplicationInv'
<1> SUFFICES ASSUME ReplicationInv, [Next]_vars PROVE ReplicationInv'
  OBVIOUS
<1> USE DEF ReplicationInv, PassTypeOK, Fresh, Applied, Undoable
<1>1. CASE Publish
  BY <1>1 DEF Publish
<1>2. CASE Pause
  BY <1>2 DEF Pause
<1>3. CASE CheckDrift
  BY <1>3 DEF CheckDrift
<1>4. CASE Crash
  BY <1>4 DEF Crash
<1>5. ASSUME NEW section \in {"tables", "clients", "enc"}, LocalEdit(section) PROVE ReplicationInv'
  <2>1. edits' = edits + 1 /\ db' \in Sections
    BY <1>5 DEF LocalEdit, Sections, Contents
  <2>2. UNCHANGED <<latest, acked, lastApplied, pc, gen, snapshot, before, result>>
    BY <1>5 DEF LocalEdit
  <2> QED
    BY <2>1, <2>2
<1>6. ASSUME NEW s \in Passes, Begin(s) PROVE ReplicationInv'
  BY <1>6, SinglePass DEF Begin, End, SinglePass
<1>7. ASSUME NEW s \in Passes, FetchFails(s) PROVE ReplicationInv'
  BY <1>7, SinglePass DEF FetchFails, End, SinglePass
<1>8. ASSUME NEW s \in Passes, Fetch(s) PROVE ReplicationInv'
  BY <1>8, SinglePass DEF Fetch, End, SinglePass
<1>9. ASSUME NEW s \in Passes, Snapshot(s) PROVE ReplicationInv'
  BY <1>9, SinglePass DEF Snapshot, SinglePass
<1>10. ASSUME NEW s \in Passes, Apply(s) PROVE ReplicationInv'
  BY <1>10, SinglePass DEF Apply, SinglePass, Sections, Contents
<1>11. ASSUME NEW s \in Passes, ApplyFails(s) PROVE ReplicationInv'
  BY <1>11, SinglePass DEF ApplyFails, End, SinglePass
<1>12. ASSUME NEW s \in Passes, DeployOk(s) PROVE ReplicationInv'
  BY <1>12, SinglePass DEF DeployOk, SinglePass
<1>13. ASSUME NEW s \in Passes, DeployFails(s) PROVE ReplicationInv'
  BY <1>13, SinglePass DEF DeployFails, SinglePass
<1>14. ASSUME NEW s \in Passes, Restore(s) PROVE ReplicationInv'
  <2>1. /\ db'.tables = snapshot[s].tables /\ db'.enc = snapshot[s].enc
        /\ db' \in Sections
    BY <1>14 DEF Restore, RestoredSections, Sections
  <2>2. /\ pc[s] = "restore" /\ End(s, "failed")
        /\ UNCHANGED <<latest, acked, live, lastApplied, gen, snapshot, before, edits>>
    BY <1>14 DEF Restore
  <2> QED
    BY <2>1, <2>2, SinglePass DEF End, SinglePass
<1>15. ASSUME NEW s \in Passes, Record(s) PROVE ReplicationInv'
  BY <1>15, SinglePass DEF Record, SinglePass
<1>16. ASSUME NEW s \in Passes, LockedOut(s) PROVE ReplicationInv'
  BY <1>16, SinglePass DEF LockedOut, End, SinglePass
<1>17. ASSUME NEW s \in Passes, Ack(s) PROVE ReplicationInv'
  BY <1>17, SinglePass DEF Ack, End, SinglePass
<1>18. CASE UNCHANGED vars
  BY <1>18 DEF vars
<1> QED
  BY <1>1, <1>2, <1>3, <1>4, <1>5, <1>6, <1>7, <1>8, <1>9, <1>10, <1>11, <1>12, <1>13, <1>14,
     <1>15, <1>16, <1>17, <1>18 DEF Next, Forward

\* The recorded generation is the one in the tables and the one deployed, and the
\* primary never believes more, whatever a replica with one kind of pass goes through.
THEOREM RecordedDeployed ==
    ASSUME SinglePass
    PROVE  Spec => []RecordedIsDeployed
<1>1. ReplicationInv => RecordedIsDeployed
  BY DEF ReplicationInv, PassTypeOK, Fresh, Applied, RecordedIsDeployed
<1> QED
  BY <1>1, ReplicationInitInv, ReplicationNextInv, PTL DEF Spec

\* A failed pass leaves tables, settings and services as it found them.
THEOREM FailedPassRestores ==
    ASSUME SinglePass
    PROVE  Spec => []FailedPassRestoresTables
<1>1. ReplicationInv => FailedPassRestoresTables
  BY DEF ReplicationInv, Undoable, FailedPassRestoresTables
<1> QED
  BY <1>1, ReplicationInitInv, ReplicationNextInv, PTL DEF Spec
=============================================================================
