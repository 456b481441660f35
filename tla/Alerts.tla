------------------------------- MODULE Alerts -------------------------------
(***************************************************************************)
(* Notifications: the periodic checks of app/notify_check.py, edge-detected*)
(* against notification_check_state, and notifications.dispatch with its   *)
(* subscriptions and cooldown (app/notifications.py).  The analytics       *)
(* collector dispatches about its writer from a process of its own.        *)
(*                                                                         *)
(* One provider.  An alarm is a component within an event category;        *)
(* several components of a category share the provider's rate state.       *)
(***************************************************************************)
EXTENDS Naturals, Sequences

CONSTANTS Resolvers,        \* upstream resolvers
          MaxWorldChanges,  \* changes of what is checked
          MaxSettings,      \* changes of provider and subscription
          RestartThreshold, \* REPEATED_RESTART_THRESHOLD
          MaxCheckerKills

ASSUME AlertsAssumption ==
    {MaxWorldChanges, MaxSettings, RestartThreshold, MaxCheckerKills} \subseteq Nat

Alarms == {"service", "writer", "all_unavailable", "degraded", "latest_row"}
\* CHECKS; "latest_row" stands for the deployment, the sources, the backup
\* and the last synchronisation.
Checks == <<"service", "writer", "restarts", "latest_row", "all_unavailable", "degraded">>
Category(a) == IF a \in {"service", "writer"} THEN "service_unavailable" ELSE a
NoneYet == "none"

VARIABLES world,       \* what the checks look at
          checkState,  \* notification_check_state
          rate,        \* notification_rate_state: last fingerprint, within the cooldown
          subscribed,  \* categories with an enabled subscription, provider and severity
          provider,    \* last_failure_at of the provider
          checker,     \* the oneshot of alderpointdns-notify.timer
          restarts,    \* NRestarts, and the number seen by the last check
          told,        \* the last message delivered about an alarm
          excused,     \* alarms whose last change was not delivered or not stored
          changes, settingChanges, checkerKills

alertsVars == <<world, checkState, rate, subscribed, provider, checker, restarts, told,
                excused, changes, settingChanges, checkerKills>>

IdleChecker == [at |-> "idle", next |-> 1]

AlertsInit ==
    /\ world = [unit |-> "active", heartbeat |-> "unknown", enabled |-> Resolvers,
                down |-> {}, row |-> NoneYet]
    /\ checkState = [a \in Alarms |-> NoneYet]
    /\ rate = [k \in {Category(a) : a \in Alarms} |-> [last |-> NoneYet, cooling |-> FALSE]]
    /\ subscribed = {Category(a) : a \in Alarms}
    /\ provider = "ok"
    /\ checker = IdleChecker
    /\ restarts = [now |-> 0, seen |-> 0, alerts |-> 0]
    /\ told = [a \in Alarms |-> NoneYet]
    /\ excused = {}
    /\ changes = 0 /\ settingChanges = 0 /\ checkerKills = 0

----------------------------------------------------------------------------
(* The checks.                                                             *)

\* Early returns: the writer of a stopped unit, no heartbeat yet, no enabled
\* resolver, no deployment, backup or sync yet.
Evaluated(a) ==
    CASE a = "writer"     -> world.unit = "active" /\ world.heartbeat # "unknown"
      [] a \in {"all_unavailable", "degraded"} -> world.enabled # {}
      [] a = "latest_row" -> world.row # NoneYet
      [] OTHER            -> TRUE

DownResolvers == world.enabled \cap world.down

CurrentlyBad(a) ==
    CASE a = "service"         -> world.unit # "active"
      [] a = "writer"          -> world.heartbeat \in {"stale", "dead"}
      [] a = "all_unavailable" -> DownResolvers = world.enabled
      [] a = "degraded"        -> DownResolvers \notin {{}, world.enabled}
      [] OTHER                 -> world.row # "deployed"

\* run_all_checks: the checks one after another, each on its own.
StartChecks ==
    /\ checker.at = "idle"
    /\ checker' = [at |-> "check", next |-> 1]
    /\ UNCHANGED <<world, checkState, rate, subscribed, provider, restarts, told, excused,
                   changes, settingChanges, checkerKills>>

CheckDone == IF checker.next = Len(Checks) THEN IdleChecker
             ELSE [at |-> "check", next |-> checker.next + 1]

NewState(a) == IF CurrentlyBad(a) THEN "bad" ELSE "ok"
Edge(a) == (NewState(a) = "bad") # (checkState[a] = "bad")

\* Mistake: the new state is stored before the message goes out.
FireEdge_StateFirst(a) ==
    /\ checker.at = "check" /\ a = Checks[checker.next]
    /\ checkState' = IF Evaluated(a) THEN [checkState EXCEPT ![a] = NewState(a)] ELSE checkState
    /\ checker' = IF Evaluated(a) /\ Edge(a)
                  THEN [at |-> "dispatch", next |-> checker.next, new |-> NewState(a)]
                  ELSE CheckDone
    /\ UNCHANGED <<world, rate, subscribed, provider, restarts, told, excused, changes,
                   settingChanges, checkerKills>>

\* _fire_edge: a transition is dispatched before the state is stored.
FireEdge(a) ==
    /\ checker.at = "check" /\ a = Checks[checker.next]
    /\ IF Evaluated(a) /\ Edge(a)
       THEN /\ checker' = [at |-> "dispatch", next |-> checker.next, new |-> NewState(a)]
            /\ UNCHANGED checkState
       ELSE /\ checker' = CheckDone
            /\ checkState' = IF Evaluated(a) THEN [checkState EXCEPT ![a] = NewState(a)]
                             ELSE checkState
    /\ UNCHANGED <<world, rate, subscribed, provider, restarts, told, excused, changes,
                   settingChanges, checkerKills>>

\* dispatch: recoveries pass the cooldown; a failed delivery counts as sent.
Suppressed(a, new) ==
    /\ new = "bad"
    /\ rate[Category(a)].last = a /\ rate[Category(a)].cooling

Dispatch(a, new) ==
    LET k == Category(a)
    IN  IF k \notin subscribed \/ Suppressed(a, new)
        THEN /\ excused' = IF told[a] = new THEN excused \ {a} ELSE excused \cup {a}
             /\ UNCHANGED <<rate, provider, told>>
        ELSE /\ rate' = [rate EXCEPT ![k] = [last |-> a, cooling |-> TRUE]]
             /\ \/ /\ told' = [told EXCEPT ![a] = new]
                   /\ excused' = excused \ {a}
                   /\ provider' = "ok"
                \/ /\ provider' = "failed"
                   /\ excused' = excused \cup {a}
                   /\ UNCHANGED told

CheckerDispatches ==
    /\ checker.at = "dispatch"
    /\ Dispatch(Checks[checker.next], checker.new)
    /\ checker' = [checker EXCEPT !.at = "store"]
    /\ UNCHANGED <<world, checkState, subscribed, restarts, changes, settingChanges, checkerKills>>

SetCheckState ==
    /\ checker.at = "store"
    /\ checkState' = [checkState EXCEPT ![Checks[checker.next]] = checker.new]
    /\ checker' = CheckDone
    /\ UNCHANGED <<world, rate, subscribed, provider, restarts, told, excused, changes,
                   settingChanges, checkerKills>>

\* check_repeated_restarts: NRestarts against the last number seen.
CheckRepeatedRestarts ==
    /\ checker.at = "check" /\ Checks[checker.next] = "restarts"
    /\ restarts' = [restarts EXCEPT !.seen = restarts.now,
                       !.alerts = IF restarts.now > restarts.seen /\ restarts.now >= RestartThreshold
                                  THEN @ + 1 ELSE @]
    /\ checker' = CheckDone
    /\ UNCHANGED <<world, checkState, rate, subscribed, provider, told, excused, changes,
                   settingChanges, checkerKills>>

\* The message is out and the state is not stored.
Cut == excused' = IF checker.at = "store" THEN excused \cup {Checks[checker.next]} ELSE excused

\* A check raises: the rest of it is left to the next run, the other checks
\* go on.
CheckRaises ==
    /\ checker.at \in {"dispatch", "store"}
    /\ checkerKills < MaxCheckerKills /\ checkerKills' = checkerKills + 1
    /\ checker' = CheckDone
    /\ Cut
    /\ UNCHANGED <<world, checkState, rate, subscribed, provider, restarts, told,
                   changes, settingChanges>>

CheckerKilled ==
    /\ checker.at # "idle"
    /\ checkerKills < MaxCheckerKills /\ checkerKills' = checkerKills + 1
    /\ checker' = IdleChecker
    /\ Cut
    /\ UNCHANGED <<world, checkState, rate, subscribed, provider, restarts, told,
                   changes, settingChanges>>

\* Collector._notify_writer, past the check state.
CollectorNotifies(new) ==
    /\ changes < MaxWorldChanges /\ changes' = changes + 1
    /\ "service_unavailable" \in subscribed /\ ~Suppressed("writer", new)
    /\ rate' = [rate EXCEPT !["service_unavailable"] = [last |-> "writer", cooling |-> TRUE]]
    /\ told' = [told EXCEPT !["writer"] = new]
    /\ excused' = excused \cup {"writer"}
    /\ UNCHANGED <<world, checkState, subscribed, provider, checker, restarts, settingChanges,
                   checkerKills>>

----------------------------------------------------------------------------
(* What is checked, the settings and the time.                             *)

Worlds ==
    {[world EXCEPT !.unit = u] : u \in {"active", "inactive"}}
    \cup {[world EXCEPT !.heartbeat = h] : h \in {"ok", "stale"}}
    \cup {[world EXCEPT !.down = d] : d \in SUBSET Resolvers}
    \cup {[world EXCEPT !.enabled = e] : e \in SUBSET Resolvers}
    \cup {[world EXCEPT !.row = r] : r \in {"deployed", "failed"}}

WorldChanges ==
    /\ changes < MaxWorldChanges /\ changes' = changes + 1
    /\ world' \in Worlds \ {world}
    /\ restarts' = IF world.unit # world'.unit THEN [restarts EXCEPT !.now = @ + 1] ELSE restarts
    /\ UNCHANGED <<checkState, rate, subscribed, provider, checker, told, excused,
                   settingChanges, checkerKills>>

CooldownEnds ==
    /\ \E k \in DOMAIN rate : /\ rate[k].cooling
                              /\ rate' = [rate EXCEPT ![k].cooling = FALSE]
    /\ UNCHANGED <<world, checkState, subscribed, provider, checker, restarts, told, excused,
                   changes, settingChanges, checkerKills>>

\* set_subscription, delete_subscription, toggle_provider, delete_provider
\* (which forgets the rate state) and adding the provider again.
ChangeSubscriptions ==
    /\ settingChanges < MaxSettings /\ settingChanges' = settingChanges + 1
    /\ \/ /\ \E k \in DOMAIN rate : subscribed' \in {subscribed \cup {k}, subscribed \ {k}}
          /\ UNCHANGED rate
       \/ /\ subscribed' = {}
          /\ rate' = [k \in DOMAIN rate |-> [last |-> NoneYet, cooling |-> FALSE]]
    /\ UNCHANGED <<world, checkState, provider, checker, restarts, told, excused, changes,
                   checkerKills>>

\* clear_provider_failure, send_test.
ProviderCleared ==
    /\ provider = "failed"
    /\ provider' = "ok"
    /\ UNCHANGED <<world, checkState, rate, subscribed, checker, restarts, told, excused,
                   changes, settingChanges, checkerKills>>

----------------------------------------------------------------------------
AlertsNext ==
    \/ StartChecks \/ (\E a \in Alarms : FireEdge(a))
    \/ CheckerDispatches \/ SetCheckState \/ CheckRepeatedRestarts
    \/ CheckRaises \/ CheckerKilled \/ (\E n \in {"bad", "ok"} : CollectorNotifies(n))
    \/ WorldChanges \/ CooldownEnds \/ ChangeSubscriptions \/ ProviderCleared

AlertsSpec == AlertsInit /\ [][AlertsNext]_alertsVars

----------------------------------------------------------------------------
(***************************************************************************)
(* notify_check: "a condition fires once when it starts and once when it   *)
(* clears".  The stored state of an alarm is what the operator was last    *)
(* told, whatever checks raise or are killed before their message.         *)
(* Excused are alarms nobody subscribed to, whose delivery failed or was   *)
(* suppressed by the cooldown, or whose check ended between the message    *)
(* and the store.                                                          *)
(***************************************************************************)
AlertNotLost ==
    \A a \in Alarms \ excused :
        \/ checker.at = "store" /\ Checks[checker.next] = a
        \/ (checkState[a] = "bad") = (told[a] = "bad")
=============================================================================
