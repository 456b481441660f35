---------------------------- MODULE MCReplication ----------------------------
(***************************************************************************)
(* An instance for TLC of what the server exchanges with others: the       *)
(* enrollment and the replication of replicas, and the policy that decides *)
(* which clients may ask.                                                  *)
(* As in MCCoordinator each behaviour runs one of them, chosen at the      *)
(* start, while the others rest in their initial states.                   *)
(***************************************************************************)
EXTENDS Replication, Enrollment, AccessPolicy

VARIABLE focus  \* the component this behaviour runs

mcVars == <<vars, enrollmentVars, accessVars, focus>>

MCInit ==
  /\ Init /\ EnrollmentInit /\ AccessInit
  /\ focus \in {"replication", "enrollment", "access"}

MCNext ==
  /\ UNCHANGED focus
  /\ \/ focus = "replication" /\ Next /\ UNCHANGED <<enrollmentVars, accessVars>>
     \/ focus = "enrollment" /\ EnrollmentNext /\ UNCHANGED <<vars, accessVars>>
     \/ focus = "access" /\ AccessNext /\ UNCHANGED <<vars, enrollmentVars>>
     \* The enrollment stops when every request has been answered, the policy at a bound.
     \/ focus # "replication" /\ UNCHANGED <<vars, enrollmentVars, accessVars>>

Replicating(A) == focus = "replication" /\ A

\* The fairness of FairSpec and EnrollmentFairSpec, for the component that runs.
MCSpec ==
  /\ MCInit /\ [][MCNext]_mcVars
  /\ \A s \in Passes \cap {"poller"} :
       /\ WF_vars(Replicating(Begin(s)))
       /\ SF_vars(Replicating(Fetch(s))) /\ SF_vars(Replicating(Snapshot(s)))
       /\ SF_vars(Replicating(Apply(s))) /\ SF_vars(Replicating(DeployOk(s)))
       /\ SF_vars(Replicating(Restore(s))) /\ SF_vars(Replicating(Record(s)))
       /\ WF_vars(Replicating(Ack(s)))
  /\ \A r \in Requests : /\ WF_enrollmentVars(focus = "enrollment" /\ Serve(r))
                         /\ WF_enrollmentVars(focus = "enrollment" /\ Reserve(r))
  /\ \A t \in Tokens : WF_enrollmentVars(focus = "enrollment" /\ ReservationAges(t))
=============================================================================
