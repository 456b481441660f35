---------------------------- MODULE MCCoordinator ----------------------------
(***************************************************************************)
(* An instance for TLC of the parts that decide what is answered and keep  *)
(* count of it: the deploy coordinator, the policy compiler, the packet    *)
(* collector and the counter poller.  They share no state, so each         *)
(* behaviour runs one of them, chosen at the start, while the others rest  *)
(* in their initial states: the state spaces add instead of multiplying.   *)
(***************************************************************************)
EXTENDS DeployCoordinator, FilterPolicy, Analytics, Counters

VARIABLE focus  \* the component this behaviour runs

mcVars == <<vars, policyVars, analyticsVars, countersVars, focus>>

\* p above c above g.
MCAbove == [n \in Names |-> CASE n = "c" -> {"p"} [] n = "g" -> {"p", "c"} [] OTHER -> {}]
\* A list that blocks the parent, one that contradicts itself, one that allows the parent.
MCEditions == {[blocks |-> {"p"}, allows |-> {}], [blocks |-> {"c", "g"}, allows |-> {"c"}],
               [blocks |-> {"c"}, allows |-> {"p"}]}

MCInit ==
  /\ Init /\ PolicyInit /\ AnalyticsInit /\ CountersInit
  /\ focus \in {"coordinator", "policy", "analytics", "counters"}

MCNext ==
  /\ UNCHANGED focus
  /\ \/ focus = "coordinator" /\ Next /\ UNCHANGED <<policyVars, analyticsVars, countersVars>>
     \/ focus = "policy" /\ PolicyNext /\ UNCHANGED <<vars, analyticsVars, countersVars>>
     \/ focus = "analytics" /\ AnalyticsNext /\ UNCHANGED <<vars, policyVars, countersVars>>
     \/ focus = "counters" /\ CountersNext /\ UNCHANGED <<vars, policyVars, analyticsVars>>
     \* All but the coordinator stop at their bounds.
     \/ focus # "coordinator" /\ UNCHANGED <<vars, policyVars, analyticsVars, countersVars>>

\* The fairness of FairSpec and AnalyticsFairness, for the component that runs.
MCSpec ==
  /\ MCInit /\ [][MCNext]_mcVars
  /\ WF_vars(focus = "coordinator" /\ Tick)
  /\ \A t \in Threads :
       WF_vars(focus = "coordinator" /\ (Enter(t) \/ TimeOut(t) \/ Return(t) \/ Pace(t)))
  /\ WF_analyticsVars(focus = "analytics" /\ RunExits)
  /\ WF_analyticsVars(focus = "analytics" /\ CollectorStarts)
  /\ WF_analyticsVars(focus = "analytics" /\ HeartbeatAges)
=============================================================================
