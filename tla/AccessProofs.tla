---------------------------- MODULE AccessProofs ----------------------------
(***************************************************************************)
(* Clients and access policy, for any number of overlapping requests,      *)
(* clients and edits: the deploy is atomic, what dnsdist enforces is what  *)
(* the rows say, and a deleted identifier stays deleted.                   *)
(***************************************************************************)
EXTENDS AccessPolicy, TLAPS

----------------------------------------------------------------------------
(* The deploy alone.                                                       *)

\* The files are the ones backed up until they are replaced and the rendered
\* ones from then on; dnsdist runs on the backed up ones until it restarts.
DeployInv ==
    /\ deploying # NoDeploy =>
         /\ deploying = [route |-> deploying.route, data |-> deploying.data,
                         installed |-> deploying.installed, backup |-> deploying.backup]
         /\ deploying.route \in AccessRoutes /\ accessRoute[deploying.route] = "saved"
         /\ deploying.installed \in BOOLEAN
         /\ deploying.data # NoDeploy
         /\ accessFiles = IF deploying.installed THEN deploying.data ELSE deploying.backup
         /\ serving = deploying.backup
    /\ deploying = NoDeploy => serving = accessFiles
    /\ accessRoute \in [AccessRoutes -> {"idle", "saved"}]

LEMMA NotADeploy ==
    /\ \A r, d, i, b : [route |-> r, data |-> d, installed |-> i, backup |-> b] # NoDeploy
    /\ \A r : RenderAccessData(r) # NoDeploy
<1>1. ASSUME NEW r, NEW d, NEW i, NEW b
      PROVE  [route |-> r, data |-> d, installed |-> i, backup |-> b] # NoDeploy
  <2>1. "data" \in DOMAIN [route |-> r, data |-> d, installed |-> i, backup |-> b]
    OBVIOUS
  <2>2. "data" \notin DOMAIN NoDeploy
    BY DEF NoDeploy
  <2> QED
    BY <2>1, <2>2
<1>2. ASSUME NEW r PROVE RenderAccessData(r) # NoDeploy
  <2>1. "route" \notin DOMAIN RenderAccessData(r)
    BY DEF RenderAccessData
  <2>2. "route" \in DOMAIN NoDeploy
    BY DEF NoDeploy
  <2> QED
    BY <2>1, <2>2
<1> QED
  BY <1>1, <1>2

\* What a route that saves leaves alone.
LEMMA SavesOnly ==
    ASSUME NEW r \in AccessRoutes, RouteSaves(r)
    PROVE  /\ UNCHANGED <<accessFiles, serving, deploying, lastAccessDeploy>>
           /\ accessRoute[r] = "idle"
           /\ accessRoute' = [accessRoute EXCEPT ![r] = "saved"]
  BY DEF RouteSaves, CreateClient, SetClientEnabled, DeleteClient, AddIdentifier, RemoveIdentifier,
         AddAccessRule, RemoveAccessRule, SetDefaultPolicy, Saves

LEMMA DeployInitInv == AccessInit => DeployInv
  BY DEF AccessInit, DeployInv

LEMMA DeployNextInv == DeployInv /\ [AccessNext]_accessVars => DeployInv'
<1> SUFFICES ASSUME DeployInv, [AccessNext]_accessVars PROVE DeployInv'
  OBVIOUS
<1> USE DEF DeployInv
<1>1. ASSUME NEW r \in AccessRoutes, RouteSaves(r) PROVE DeployInv'
  BY <1>1, SavesOnly
<1>2. ASSUME NEW r \in AccessRoutes, DeployReadsRows(r) PROVE DeployInv'
  BY <1>2, NotADeploy DEF DeployReadsRows
<1>3. ASSUME NEW r \in AccessRoutes, deploying # NoDeploy, DeployUnchanged(r) PROVE DeployInv'
  BY <1>3 DEF DeployUnchanged, Ends
<1>4. ASSUME NEW r \in AccessRoutes, deploying # NoDeploy, DeployInstalls(r) PROVE DeployInv'
  <2>1. deploying' = [route |-> deploying.route, data |-> deploying.data,
                      installed |-> TRUE, backup |-> deploying.backup]
    BY <1>4 DEF DeployInstalls
  <2> QED
    BY <1>4, <2>1, NotADeploy DEF DeployInstalls
<1>5. ASSUME NEW r \in AccessRoutes, deploying # NoDeploy, DeployRestarts(r) PROVE DeployInv'
  BY <1>5 DEF DeployRestarts, Ends
<1>6. ASSUME NEW r \in AccessRoutes, deploying # NoDeploy, DeployAccessFails(r) PROVE DeployInv'
  BY <1>6 DEF DeployAccessFails, Ends
<1>7. ASSUME NEW i, AddAlias(i) PROVE DeployInv'
  BY <1>7 DEF AddAlias
<1>8. ASSUME NEW i, NEW c, MigrateClientAliases(i, c) PROVE DeployInv'
  BY <1>8 DEF MigrateClientAliases
<1>9. CASE ChangeDohPath
  BY <1>9 DEF ChangeDohPath
<1>10. CASE UNCHANGED accessVars
  BY <1>10 DEF accessVars
<1> QED
  BY <1>1, <1>2, <1>3, <1>4, <1>5, <1>6, <1>7, <1>8, <1>9, <1>10 DEF AccessNext, AccessDeploy

\* Every step of the system is a step of the atomic deploy or leaves it as it is.
LEMMA DeployStepIsAtomic ==
    DeployInv /\ DeployInv' /\ [AccessNext]_accessVars
      => [Atomic!AtomicNext]_<<IF deploying # NoDeploy THEN deploying.backup ELSE accessFiles,
                               serving,
                               IF deploying # NoDeploy THEN deploying.data ELSE NoDeploy>>
<1> SUFFICES ASSUME DeployInv, DeployInv', [AccessNext]_accessVars
             PROVE  [Atomic!AtomicNext]_<<IF deploying # NoDeploy THEN deploying.backup ELSE accessFiles,
                               serving,
                               IF deploying # NoDeploy THEN deploying.data ELSE NoDeploy>>
  OBVIOUS
<1> USE DEF DeployInv, Atomic!AtomicNext, Atomic!Begin, Atomic!Commit, Atomic!Abort
<1>1. ASSUME NEW r \in AccessRoutes, RouteSaves(r)
      PROVE  UNCHANGED <<accessFiles, serving, deploying>>
  BY <1>1, SavesOnly
<1>2. ASSUME NEW r \in AccessRoutes, DeployReadsRows(r) PROVE Atomic!AtomicNext
  BY <1>2, NotADeploy DEF DeployReadsRows
<1>3. ASSUME NEW r \in AccessRoutes, deploying # NoDeploy, DeployUnchanged(r) PROVE Atomic!AtomicNext
  BY <1>3 DEF DeployUnchanged, Ends
<1>4. ASSUME NEW r \in AccessRoutes, deploying # NoDeploy, DeployInstalls(r)
      PROVE  /\ deploying' # NoDeploy
             /\ deploying'.backup = deploying.backup /\ deploying'.data = deploying.data
             /\ UNCHANGED serving
  <2>1. deploying' = [route |-> deploying.route, data |-> deploying.data,
                      installed |-> TRUE, backup |-> deploying.backup]
    BY <1>4 DEF DeployInstalls
  <2> QED
    BY <1>4, <2>1, NotADeploy DEF DeployInstalls
<1>5. ASSUME NEW r \in AccessRoutes, deploying # NoDeploy, DeployRestarts(r) PROVE Atomic!AtomicNext
  BY <1>5 DEF DeployRestarts, Ends
<1>6. ASSUME NEW r \in AccessRoutes, deploying # NoDeploy, DeployAccessFails(r) PROVE Atomic!AtomicNext
  BY <1>6 DEF DeployAccessFails, Ends
<1>7. ASSUME NEW i, AddAlias(i) PROVE UNCHANGED <<accessFiles, serving, deploying>>
  BY <1>7 DEF AddAlias
<1>8. ASSUME NEW i, NEW c, MigrateClientAliases(i, c) PROVE UNCHANGED <<accessFiles, serving, deploying>>
  BY <1>8 DEF MigrateClientAliases
<1>9. CASE ChangeDohPath
  BY <1>9 DEF ChangeDohPath
<1>10. CASE UNCHANGED accessVars
  BY <1>10 DEF accessVars
<1> QED
  BY <1>1, <1>2, <1>3, <1>4, <1>5, <1>6, <1>7, <1>8, <1>9, <1>10 DEF AccessNext, AccessDeploy

\* deploy_access_layer implements the atomic deploy: what fails validation or does
\* not start never replaces what was there, on disk or in dnsdist.
THEOREM AccessDeployAtomic == AccessSpec => AccessDeployIsAtomic
<1>1. AccessInit => Atomic!AtomicInit
  BY DEF AccessInit, Atomic!AtomicInit
<1> QED
  BY <1>1, DeployInitInv, DeployNextInv, DeployStepIsAtomic, PTL
     DEF AccessSpec, AccessDeployIsAtomic, Atomic!AtomicSpec

----------------------------------------------------------------------------
(* The rows.                                                               *)

Client == [enabled : BOOLEAN, identifiers : SUBSET Identifiers]
Rule == [action : {"allow", "deny"}, value : Identifiers \union ClientRows]

RowsTypeOK ==
    /\ rows = [clients |-> rows.clients, rules |-> rows.rules, policy |-> rows.policy,
               doh |-> rows.doh, aliases |-> rows.aliases]
    /\ DOMAIN rows.clients \subseteq ClientRows
    /\ rows.clients \in [DOMAIN rows.clients -> Client]
    /\ rows.rules \subseteq Rule
    /\ rows.policy \in {"allow", "deny"}
    /\ rows.doh \in {"old", "new"}
    /\ rows.aliases \subseteq Aliasable

\* No identifier has two owners; what was deleted has none, and no legacy alias
\* that would become one.
OneOwner ==
    \A c, d \in DOMAIN rows.clients :
        c # d => rows.clients[c].identifiers \cap rows.clients[d].identifiers = {}

StaysGone ==
    /\ \A c \in DOMAIN rows.clients : rows.clients[c].identifiers \cap gone = {}
    /\ rows.aliases \cap gone = {}

\* A rule for a client goes with it.
RulesHaveTargets == \A x \in rows.rules : x.value \in Identifiers \union DOMAIN rows.clients

RowsInv == RowsTypeOK /\ OneOwner /\ StaysGone /\ RulesHaveTargets

LEMMA RowsInitInv == AccessInit => RowsInv
<1> SUFFICES ASSUME AccessInit PROVE RowsInv
  OBVIOUS
<1>1. rows.clients = <<>> /\ DOMAIN rows.clients = {}
  BY DEF AccessInit
<1> QED
  BY <1>1 DEF AccessInit, RowsInv, RowsTypeOK, OneOwner, StaysGone, RulesHaveTargets

LEMMA RowsNextInv == RowsInv /\ [AccessNext]_accessVars => RowsInv'
<1> SUFFICES ASSUME RowsInv, [AccessNext]_accessVars PROVE RowsInv'
  OBVIOUS
<1> USE AccessPolicyAssumption
<1> USE DEF RowsInv, RowsTypeOK, OneOwner, StaysGone, RulesHaveTargets, Client, Rule, Saves
<1>1. ASSUME NEW r \in AccessRoutes, NEW c \in ClientRows,
             NEW ids \in {{"host"}, {"net", "clientid"}}, CreateClient(r, c, ids)
      PROVE  RowsInv'
  <2> DEFINE new == With(rows.clients, c, [enabled |-> TRUE, identifiers |-> ids])
  <2>1. rows' = [clients |-> new, rules |-> rows.rules,
                 policy |-> rows.policy, doh |-> rows.doh, aliases |-> rows.aliases]
    BY <1>1 DEF CreateClient
  <2>2. c \notin DOMAIN rows.clients /\ gone' = gone \ ids /\ ids \subseteq Identifiers
    BY <1>1 DEF CreateClient, Identifiers
  <2>3. \A d \in DOMAIN rows.clients : rows.clients[d].identifiers \cap ids = {}
    BY <1>1 DEF CreateClient, Owned
  <2>4. /\ DOMAIN new = DOMAIN rows.clients \union {c}
        /\ new[c] = [enabled |-> TRUE, identifiers |-> ids]
        /\ \A d \in DOMAIN rows.clients : new[d] = rows.clients[d]
    BY <2>2 DEF With
  <2>5. new \in [DOMAIN new -> Client]
    BY <2>2, <2>4 DEF With
  <2> HIDE DEF new
  <2> QED
    BY <2>1, <2>2, <2>3, <2>4, <2>5
<1>2. ASSUME NEW r \in AccessRoutes, NEW c \in DOMAIN rows.clients, SetClientEnabled(r, c)
      PROVE  RowsInv'
  <2> DEFINE new == [rows.clients EXCEPT ![c].enabled = ~@]
  <2>1. rows' = [clients |-> new, rules |-> rows.rules,
                 policy |-> rows.policy, doh |-> rows.doh, aliases |-> rows.aliases]
    BY <1>2 DEF SetClientEnabled
  <2>2. /\ DOMAIN new = DOMAIN rows.clients
        /\ \A d \in DOMAIN rows.clients : new[d].identifiers = rows.clients[d].identifiers
        /\ new \in [DOMAIN rows.clients -> Client]
    OBVIOUS
  <2>3. UNCHANGED gone
    BY <1>2 DEF SetClientEnabled
  <2> HIDE DEF new
  <2> QED
    BY <2>1, <2>2, <2>3
<1>3. ASSUME NEW r \in AccessRoutes, NEW c \in DOMAIN rows.clients, DeleteClient(r, c)
      PROVE  RowsInv'
  BY <1>3 DEF DeleteClient
<1>4. ASSUME NEW r \in AccessRoutes, NEW c \in DOMAIN rows.clients, NEW i \in Identifiers,
             AddIdentifier(r, c, i)
      PROVE  RowsInv'
  <2> DEFINE new == [rows.clients EXCEPT ![c].identifiers = @ \union {i}]
  <2>1. rows' = [clients |-> new, rules |-> rows.rules,
                 policy |-> rows.policy, doh |-> rows.doh, aliases |-> rows.aliases]
    BY <1>4 DEF AddIdentifier
  <2>2. /\ DOMAIN new = DOMAIN rows.clients
        /\ new[c].identifiers = rows.clients[c].identifiers \union {i}
        /\ \A d \in DOMAIN rows.clients \ {c} : new[d] = rows.clients[d]
        /\ new \in [DOMAIN rows.clients -> Client]
    OBVIOUS
  <2>3. gone' = gone \ {i} /\ \A d \in DOMAIN rows.clients : i \notin rows.clients[d].identifiers
    BY <1>4 DEF AddIdentifier, Owned
  <2> HIDE DEF new
  <2> QED
    BY <2>1, <2>2, <2>3
<1>5. ASSUME NEW r \in AccessRoutes, NEW c \in DOMAIN rows.clients, NEW i \in Identifiers,
             RemoveIdentifier(r, c, i)
      PROVE  RowsInv'
  <2> DEFINE new == [rows.clients EXCEPT ![c].identifiers = @ \ {i}]
  <2>1. rows' = [clients |-> new, rules |-> rows.rules,
                 policy |-> rows.policy, doh |-> rows.doh, aliases |-> rows.aliases \ {i}]
    BY <1>5 DEF RemoveIdentifier
  <2>2. /\ DOMAIN new = DOMAIN rows.clients
        /\ new[c].identifiers = rows.clients[c].identifiers \ {i}
        /\ \A d \in DOMAIN rows.clients \ {c} : new[d] = rows.clients[d]
        /\ new \in [DOMAIN rows.clients -> Client]
    OBVIOUS
  <2>3. gone' = gone \union {i} /\ i \in rows.clients[c].identifiers
    BY <1>5 DEF RemoveIdentifier
  <2> HIDE DEF new
  <2> QED
    BY <2>1, <2>2, <2>3
<1>6. ASSUME NEW r \in AccessRoutes, NEW action \in {"allow", "deny"},
             NEW v \in Identifiers \union ClientRows, AddAccessRule(r, action, v)
      PROVE  RowsInv'
  <2>1. rows' = [clients |-> rows.clients, rules |-> rows.rules \union {[action |-> action, value |-> v]},
                 policy |-> rows.policy, doh |-> rows.doh, aliases |-> rows.aliases]
    BY <1>6 DEF AddAccessRule
  <2>2. UNCHANGED gone /\ v \in Identifiers \union DOMAIN rows.clients
    BY <1>6 DEF AddAccessRule
  <2> QED
    BY <2>1, <2>2
<1>7. ASSUME NEW r \in AccessRoutes, NEW rule \in rows.rules, RemoveAccessRule(r, rule)
      PROVE  RowsInv'
  BY <1>7 DEF RemoveAccessRule
<1>8. ASSUME NEW r \in AccessRoutes, NEW p \in {"allow", "deny"}, SetDefaultPolicy(r, p)
      PROVE  RowsInv'
  BY <1>8 DEF SetDefaultPolicy
<1>9. ASSUME NEW r \in AccessRoutes, AccessDeploy(r) PROVE RowsInv'
  <2>1. UNCHANGED <<rows, gone>>
    BY <1>9 DEF AccessDeploy, DeployReadsRows, DeployUnchanged, DeployInstalls, DeployRestarts,
                DeployAccessFails, Ends
  <2> QED
    BY <2>1
<1>10. ASSUME NEW i \in Aliasable, AddAlias(i) PROVE RowsInv'
  BY <1>10 DEF AddAlias
<1>11. ASSUME NEW i \in Aliasable, NEW c \in ClientRows, MigrateClientAliases(i, c) PROVE RowsInv'
  <2> DEFINE new == With(rows.clients, c, [enabled |-> TRUE, identifiers |-> {i}])
  <2>1. rows' = [clients |-> new, rules |-> rows.rules,
                 policy |-> rows.policy, doh |-> rows.doh, aliases |-> rows.aliases]
    BY <1>11 DEF MigrateClientAliases
  <2>2. c \notin DOMAIN rows.clients /\ UNCHANGED gone /\ i \in rows.aliases /\ i \in Identifiers
    BY <1>11 DEF MigrateClientAliases, Aliasable, Identifiers
  <2>3. \A d \in DOMAIN rows.clients : i \notin rows.clients[d].identifiers
    BY <1>11 DEF MigrateClientAliases, Owned
  <2>4. /\ DOMAIN new = DOMAIN rows.clients \union {c}
        /\ new[c] = [enabled |-> TRUE, identifiers |-> {i}]
        /\ \A d \in DOMAIN rows.clients : new[d] = rows.clients[d]
    BY <2>2 DEF With
  <2>5. new \in [DOMAIN new -> Client]
    BY <2>2, <2>4 DEF With
  <2> HIDE DEF new
  <2> QED
    BY <2>1, <2>2, <2>3, <2>4, <2>5
<1>12. CASE ChangeDohPath
  BY <1>12 DEF ChangeDohPath
<1>13. CASE UNCHANGED accessVars
  BY <1>13 DEF accessVars
<1> QED
  BY <1>1, <1>2, <1>3, <1>4, <1>5, <1>6, <1>7, <1>8, <1>9, <1>10, <1>11, <1>12, <1>13
     DEF AccessNext, RouteSaves

\* An identifier an administrator deleted stays deleted until it is added again,
\* although every operation may migrate a legacy alias to a client.
THEOREM NeverAZombie == AccessSpec => []NoZombieClient
<1>1. RowsInv => NoZombieClient
  BY DEF RowsInv, StaysGone, NoZombieClient, Owned
<1> QED
  BY <1>1, RowsInitInv, RowsNextInv, PTL DEF AccessSpec

----------------------------------------------------------------------------
(* What is rendered.                                                       *)

\* The data says of every query what the rows say now; the DoH path is apart.
Renders(data) ==
    /\ data.allow = Expand(rows, "allow") /\ data.deny = Expand(rows, "deny")
    /\ data.policy = rows.policy
    /\ data.routed = Configured(rows)

\* Every request that has saved is the one whose deploy is under way.
NothingWaits ==
    \A r \in AccessRoutes : accessRoute[r] = "saved" => deploying # NoDeploy /\ deploying.route = r

\* A route that saves while a deploy has already read the rows waits to deploy
\* them itself; so with nothing waiting the rendered data is up to date.
RenderedInv ==
    NothingWaits =>
        /\ deploying # NoDeploy => Renders(deploying.data)
        /\ deploying = NoDeploy /\ lastAccessDeploy = "ok" => Renders(accessFiles)

LEMMA SameRowsRenderTheSame ==
    ASSUME NEW x, NEW y, x.clients = y.clients, x.rules = y.rules
    PROVE  (\A a : Expand(x, a) = Expand(y, a)) /\ Configured(x) = Configured(y)
  BY Zenon DEF Expand, Configured

\* A migrated client has no rule yet, and is never made from a ClientID.
LEMMA MigrationRendersTheSame ==
    ASSUME RowsInv, NEW i \in Aliasable, NEW c \in ClientRows, MigrateClientAliases(i, c)
    PROVE  /\ \A a \in {"allow", "deny"} : Expand(rows', a) = Expand(rows, a)
           /\ Configured(rows') = Configured(rows)
           /\ rows'.policy = rows.policy
<1> DEFINE new == With(rows.clients, c, [enabled |-> TRUE, identifiers |-> {i}])
<1>1. rows' = [clients |-> new, rules |-> rows.rules,
               policy |-> rows.policy, doh |-> rows.doh, aliases |-> rows.aliases]
  BY DEF MigrateClientAliases, RowsInv, RowsTypeOK
<1>2. c \notin DOMAIN rows.clients /\ c \notin Identifiers /\ i = "net"
  BY AccessPolicyAssumption DEF MigrateClientAliases, Aliasable
<1>3. /\ DOMAIN new = DOMAIN rows.clients \union {c}
      /\ new[c] = [enabled |-> TRUE, identifiers |-> {i}]
      /\ \A d \in DOMAIN rows.clients : new[d] = rows.clients[d]
  BY <1>2 DEF With
<1>4. \A a : [action |-> a, value |-> c] \notin rows.rules
  BY <1>2 DEF RowsInv, RulesHaveTargets
<1> HIDE DEF new
<1>5. ASSUME NEW a \in {"allow", "deny"} PROVE Expand(rows', a) = Expand(rows, a)
  <2> DEFINE Named(x) == {d \in DOMAIN x.clients :
                             x.clients[d].enabled /\ [action |-> a, value |-> d] \in x.rules}
             Direct(x) == {rule.value : rule \in {y \in x.rules : y.action = a /\ y.value \in Identifiers}}
  <2>1. Named(rows') = Named(rows)
    BY <1>1, <1>3, <1>4
  <2>2. \A d \in Named(rows) : rows'.clients[d].identifiers = rows.clients[d].identifiers
    BY <1>1, <1>3
  <2>3. Direct(rows') = Direct(rows)
    BY <1>1
  <2>4. /\ Expand(rows, a) = Direct(rows) \union UNION {rows.clients[d].identifiers : d \in Named(rows)}
        /\ Expand(rows', a) = Direct(rows') \union UNION {rows'.clients[d].identifiers : d \in Named(rows')}
    BY DEF Expand
  <2> HIDE DEF Named, Direct
  <2>5. {rows'.clients[d].identifiers : d \in Named(rows)} = {rows.clients[d].identifiers : d \in Named(rows)}
    BY <2>2
  <2> QED
    BY <2>1, <2>3, <2>4, <2>5
<1>6. Owned(rows'.clients) = Owned(rows.clients) \union {"net"}
  BY <1>1, <1>2, <1>3 DEF Owned
<1>7. Configured(rows') = Configured(rows)
  BY <1>1, <1>6 DEF Configured
<1> QED
  BY <1>1, <1>5, <1>7

LEMMA RenderedInitInv == AccessInit => RenderedInv
  BY DEF AccessInit, RenderedInv, Renders, RenderAccessData

LEMMA RenderedNextInv ==
    RowsInv /\ DeployInv /\ DeployInv' /\ RenderedInv /\ [AccessNext]_accessVars => RenderedInv'
<1> SUFFICES ASSUME RowsInv, DeployInv, DeployInv', RenderedInv, [AccessNext]_accessVars,
                    NothingWaits'
             PROVE  /\ deploying' # NoDeploy => Renders(deploying.data)'
                    /\ deploying' = NoDeploy /\ lastAccessDeploy' = "ok" => Renders(accessFiles)'
  BY DEF RenderedInv
<1> USE DEF RenderedInv, NothingWaits
<1>1. ASSUME NEW r \in AccessRoutes, RouteSaves(r) PROVE FALSE
  BY <1>1, SavesOnly DEF DeployInv
<1>2. ASSUME NEW r \in AccessRoutes, DeployReadsRows(r)
      PROVE  deploying' # NoDeploy /\ Renders(deploying.data)'
  BY <1>2, NotADeploy DEF DeployReadsRows, Renders, RenderAccessData
<1>3. ASSUME NEW r \in AccessRoutes, deploying # NoDeploy, DeployUnchanged(r)
      PROVE  deploying' = NoDeploy /\ Renders(accessFiles)'
  BY <1>3 DEF DeployUnchanged, Ends, Renders, DeployInv
<1>4. ASSUME NEW r \in AccessRoutes, deploying # NoDeploy, DeployInstalls(r)
      PROVE  deploying' # NoDeploy /\ Renders(deploying.data)'
  <2>1. deploying' = [route |-> deploying.route, data |-> deploying.data,
                      installed |-> TRUE, backup |-> deploying.backup]
    BY <1>4 DEF DeployInstalls, DeployInv
  <2> QED
    BY <1>4, <2>1, NotADeploy DEF DeployInstalls, Renders
<1>5. ASSUME NEW r \in AccessRoutes, deploying # NoDeploy, DeployRestarts(r)
      PROVE  deploying' = NoDeploy /\ Renders(accessFiles)'
  BY <1>5 DEF DeployRestarts, Ends, Renders, DeployInv
<1>6. ASSUME NEW r \in AccessRoutes, deploying # NoDeploy, DeployAccessFails(r)
      PROVE  deploying' = NoDeploy /\ lastAccessDeploy' = "failed"
  BY <1>6 DEF DeployAccessFails, Ends
<1>7. ASSUME NEW i, AddAlias(i)
      PROVE  /\ deploying' # NoDeploy => Renders(deploying.data)'
             /\ deploying' = NoDeploy /\ lastAccessDeploy' = "ok" => Renders(accessFiles)'
  <2>1. /\ rows'.clients = rows.clients /\ rows'.rules = rows.rules /\ rows'.policy = rows.policy
        /\ UNCHANGED <<accessFiles, deploying, accessRoute, lastAccessDeploy>>
    BY <1>7 DEF AddAlias, RowsInv, RowsTypeOK
  <2> QED
    BY <2>1, SameRowsRenderTheSame DEF Renders
<1>8. ASSUME NEW i \in Aliasable, NEW c \in ClientRows, MigrateClientAliases(i, c)
      PROVE  /\ deploying' # NoDeploy => Renders(deploying.data)'
             /\ deploying' = NoDeploy /\ lastAccessDeploy' = "ok" => Renders(accessFiles)'
  <2>1. UNCHANGED <<accessFiles, deploying, accessRoute, lastAccessDeploy>>
    BY <1>8 DEF MigrateClientAliases
  <2> QED
    BY <1>8, <2>1, MigrationRendersTheSame DEF Renders
<1>9. ASSUME ChangeDohPath
      PROVE  /\ deploying' = NoDeploy
             /\ lastAccessDeploy' = "ok" => Renders(accessFiles)'
  <2>1. /\ rows'.clients = rows.clients /\ rows'.rules = rows.rules /\ rows'.policy = rows.policy
        /\ UNCHANGED <<accessFiles, deploying, accessRoute, lastAccessDeploy>>
        /\ deploying = NoDeploy
    BY <1>9 DEF ChangeDohPath, RowsInv, RowsTypeOK
  <2> QED
    BY <2>1, SameRowsRenderTheSame DEF Renders
<1>10. CASE UNCHANGED accessVars
  BY <1>10 DEF accessVars, Renders
<1> QED
  BY <1>1, <1>2, <1>3, <1>4, <1>5, <1>6, <1>7, <1>8, <1>9, <1>10 DEF AccessNext, AccessDeploy

\* Data that renders the rows decides every query it routes as evaluate_access does.
LEMMA RenderedIsEvaluated ==
    ASSUME RowsInv, Renders(serving), NEW q \in Queries
    PROVE  Enforced(serving, q)
             = (EvaluateAccess(rows, q)
                \/ (q.from = "loopback" /\ Shows(q) \cap Expand(rows, "deny") = {}))
<1>1. rows.policy \in {"allow", "deny"} /\ serving.policy = rows.policy
  BY DEF RowsInv, RowsTypeOK, Renders
<1>2. serving.deny = Expand(rows, "deny") /\ serving.allow = Expand(rows, "allow")
  BY DEF Renders
<1>3. CASE Shows(q) \cap Expand(rows, "deny") # {}
  BY <1>2, <1>3 DEF Enforced, EvaluateAccess
<1>4. CASE Shows(q) \cap Expand(rows, "deny") = {}
  BY <1>1, <1>2, <1>4 DEF Enforced, EvaluateAccess
<1> QED
  BY <1>3, <1>4

\* Once every request has ended and the last deploy did not fail, dnsdist answers
\* as evaluate_access does, for any number of clients, rules and overlapping requests.
THEOREM EnforcementExact == AccessSpec => []EnforcedAsEvaluated
<1>1. RowsInv /\ DeployInv /\ RenderedInv => EnforcedAsEvaluated
  <2> SUFFICES ASSUME RowsInv, DeployInv, RenderedInv, AccessSettled, NEW q \in Queries
               PROVE  /\ Enforced(serving, q)
                         = (EvaluateAccess(rows, q)
                            \/ (q.from = "loopback" /\ Shows(q) \cap Expand(rows, "deny") = {}))
                      /\ Configured(rows) /\ serving.doh = rows.doh => Routed(serving, q, rows.doh)
    BY DEF EnforcedAsEvaluated
  <2>1. deploying = NoDeploy
    BY DEF AccessSettled, DeployInv
  <2>2. NothingWaits
    BY DEF NothingWaits, AccessSettled
  <2>3. Renders(serving)
    BY <2>1, <2>2 DEF RenderedInv, DeployInv, AccessSettled
  <2>4. Configured(rows) => serving.routed
    BY <2>3 DEF Renders
  <2> QED
    BY <2>3, <2>4, RenderedIsEvaluated DEF Routed
<1> QED
  BY <1>1, RowsInitInv, RowsNextInv, DeployInitInv, DeployNextInv, RenderedInitInv, RenderedNextInv,
     PTL DEF AccessSpec
=============================================================================
