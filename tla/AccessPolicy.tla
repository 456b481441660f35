---------------------------- MODULE AccessPolicy ----------------------------
(***************************************************************************)
(* Clients and access policy (app/clients.py, the /clients-access routes): *)
(* every route writes its rows and then has the access layer deployed;     *)
(* the deploy renders the rows into data files that dnsdist loads when it  *)
(* starts.  evaluate_access decides a query from the rows.                 *)
(*                                                                         *)
(* Identifiers are an address, a network it is in, and a ClientID, which   *)
(* TLS carries in the server name and HTTPS in the path.                   *)
(***************************************************************************)
EXTENDS Naturals, FiniteSets

CONSTANTS AccessRoutes,     \* requests to /clients-access routes
          ClientRows,       \* ids of rows of the clients table
          MaxAccessEdits    \* bound on the changes made

Identifiers == {"host", "net", "clientid"}
Aliasable == {"net"}          \* what a legacy client_aliases row may name

\* A rule names an identifier or a client, in columns of their own.
ASSUME AccessPolicyAssumption ==
    /\ MaxAccessEdits \in Nat /\ IsFiniteSet(ClientRows)
    /\ ClientRows \cap Identifiers = {}

VARIABLES rows,       \* [clients, rules, policy, doh, aliases]
          gone,       \* identifiers an administrator deleted and nobody added again
          accessFiles, serving,   \* the data files, what dnsdist has loaded
          accessRoute,            \* route -> where its request stands
          deploying,              \* what the deploy under DEPLOY_LOCK has rendered
          lastAccessDeploy,       \* "ok" or "failed"
          accessEdits

accessVars ==
    <<rows, gone, accessFiles, serving, accessRoute, deploying, lastAccessDeploy, accessEdits>>

NoDeploy == [route |-> "none"]

----------------------------------------------------------------------------
(* The rows and what is rendered from them.                                *)

Owned(clients) == UNION {clients[c].identifiers : c \in DOMAIN clients}

\* _expand_rules: a rule for a client stands for its identifiers while the
\* client is enabled.
Expand(r, action) ==
    {rule.value : rule \in {x \in r.rules : x.action = action /\ x.value \in Identifiers}}
    \cup UNION {r.clients[c].identifiers :
                    c \in {d \in DOMAIN r.clients :
                             r.clients[d].enabled /\ [action |-> action, value |-> d] \in r.rules}}

\* render_doh_clientid_paths: every configured ClientID, whoever has it.
Configured(r) ==
    "clientid" \in Owned(r.clients) \/ \E x \in r.rules : x.value = "clientid"

\* render_access_data; the path rules are spelled with the DoH path.
RenderAccessData(r) ==
    [allow |-> Expand(r, "allow"), deny |-> Expand(r, "deny"), policy |-> r.policy,
     routed |-> Configured(r), doh |-> r.doh]

Queries == [from : {"host", "neighbour", "loopback"}, clientid : BOOLEAN,
            over : {"plain", "tls", "https"}]
Carries(q) == q.clientid /\ q.over # "plain"

\* The identifiers a query shows.
Shows(q) ==
    (CASE q.from = "host" -> {"host", "net"} [] q.from = "neighbour" -> {"net"} [] OTHER -> {})
    \cup (IF Carries(q) THEN {"clientid"} ELSE {})

\* evaluate_access: deny beats allow beats the default.
EvaluateAccess(r, q) ==
    IF Shows(q) \cap Expand(r, "deny") # {} THEN FALSE
    ELSE IF Shows(q) \cap Expand(r, "allow") # {} THEN TRUE
    ELSE r.policy = "allow"

\* dnsdist's DoH listener answers only the paths it was started with.
Routed(live, q, doh) == q.over = "https" /\ Carries(q) => live.routed /\ live.doh = doh

\* Mistake: the allow gate lets a query past the deny rules.
Enforced_AllowFirst(live, q) ==
    IF Shows(q) \cap live.allow # {} THEN TRUE
    ELSE IF Shows(q) \cap live.deny # {} THEN FALSE
    ELSE live.policy = "allow" \/ q.from = "loopback"

\* render_access_lua: deny rules first; under default deny a gate that only
\* the allowed and loopback pass.
Enforced(live, q) ==
    IF Shows(q) \cap live.deny # {} THEN FALSE
    ELSE live.policy = "deny" => Shows(q) \cap live.allow # {} \/ q.from = "loopback"

----------------------------------------------------------------------------
AccessInit ==
    /\ rows = [clients |-> <<>>, rules |-> {}, policy |-> "allow", doh |-> "old",
               aliases |-> {}]
    /\ accessFiles = RenderAccessData(rows) /\ serving = accessFiles
    /\ accessRoute = [r \in AccessRoutes |-> "idle"]
    /\ deploying = NoDeploy /\ lastAccessDeploy = "ok"
    /\ gone = {} /\ accessEdits = 0

(***************************************************************************)
(* The routes.  Each commits its rows in one transaction and goes on to    *)
(* deploy; a refused change ends the request with nothing written.         *)
(***************************************************************************)
Saves(r, newRows) ==
    /\ accessRoute[r] = "idle" /\ accessEdits < MaxAccessEdits
    /\ rows' = newRows
    /\ accessRoute' = [accessRoute EXCEPT ![r] = "saved"]
    /\ accessEdits' = accessEdits + 1
    /\ UNCHANGED <<accessFiles, serving, deploying, lastAccessDeploy>>

With(clients, c, client) ==
    [d \in DOMAIN clients \cup {c} |-> IF d = c THEN client ELSE clients[d]]

\* create_client; an identifier another client has is refused.
CreateClient(r, c, ids) ==
    /\ c \notin DOMAIN rows.clients /\ ids \cap Owned(rows.clients) = {}
    /\ gone' = gone \ ids
    /\ Saves(r, [rows EXCEPT !.clients = With(@, c, [enabled |-> TRUE, identifiers |-> ids])])

\* update_client, set_client_enabled.
SetClientEnabled(r, c) ==
    /\ c \in DOMAIN rows.clients
    /\ Saves(r, [rows EXCEPT !.clients[c].enabled = ~@])
    /\ UNCHANGED gone

\* add_identifier, _insert_identifier.
AddIdentifier(r, c, i) ==
    /\ c \in DOMAIN rows.clients /\ i \notin Owned(rows.clients)
    /\ gone' = gone \ {i}
    /\ Saves(r, [rows EXCEPT !.clients[c].identifiers = @ \cup {i}])

\* remove_identifier retires the legacy alias that would bring it back.
RemoveIdentifier(r, c, i) ==
    /\ c \in DOMAIN rows.clients /\ i \in rows.clients[c].identifiers
    /\ gone' = gone \cup {i}
    /\ Saves(r, [rows EXCEPT !.clients[c].identifiers = @ \ {i}, !.aliases = @ \ {i}])

\* Mistake: the cascade leaves the legacy aliases of the client.
DeleteClient_KeepsAliases(r, c) ==
    /\ c \in DOMAIN rows.clients
    /\ gone' = gone \cup rows.clients[c].identifiers
    /\ Saves(r, [rows EXCEPT
                   !.clients = [d \in DOMAIN rows.clients \ {c} |-> rows.clients[d]],
                   !.rules = {x \in @ : x.value # c}])

\* delete_client cascades to rules, identifiers and legacy aliases.
DeleteClient(r, c) ==
    /\ c \in DOMAIN rows.clients
    /\ gone' = gone \cup rows.clients[c].identifiers
    /\ Saves(r, [rows EXCEPT
                   !.clients = [d \in DOMAIN rows.clients \ {c} |-> rows.clients[d]],
                   !.rules = {x \in @ : x.value # c},
                   !.aliases = @ \ rows.clients[c].identifiers])

\* add_access_rule; a rule that is there, or for no client, is refused.
AddAccessRule(r, action, value) ==
    /\ value \in Identifiers \cup DOMAIN rows.clients
    /\ [action |-> action, value |-> value] \notin rows.rules
    /\ Saves(r, [rows EXCEPT !.rules = @ \cup {[action |-> action, value |-> value]}])
    /\ UNCHANGED gone

RemoveAccessRule(r, rule) ==
    /\ rule \in rows.rules
    /\ Saves(r, [rows EXCEPT !.rules = @ \ {rule}])
    /\ UNCHANGED gone

SetDefaultPolicy(r, policy) ==
    /\ policy # rows.policy
    /\ Saves(r, [rows EXCEPT !.policy = policy])
    /\ UNCHANGED gone

\* Local DNS adds a display alias; nothing of the access layer is deployed.
AddAlias(i) ==
    /\ i \notin rows.aliases /\ accessEdits < MaxAccessEdits
    /\ rows' = [rows EXCEPT !.aliases = @ \cup {i}]
    /\ gone' = gone \ {i} /\ accessEdits' = accessEdits + 1
    /\ UNCHANGED <<accessFiles, serving, accessRoute, deploying, lastAccessDeploy>>

\* _migrate_client_aliases, in the init_db every operation starts with: an
\* alias whose identifier nobody has becomes a client.
MigrateClientAliases(i, c) ==
    /\ i \in rows.aliases \ Owned(rows.clients) /\ c \notin DOMAIN rows.clients
    /\ rows' = [rows EXCEPT !.clients = With(@, c, [enabled |-> TRUE, identifiers |-> {i}])]
    /\ UNCHANGED <<gone, accessFiles, serving, accessRoute, deploying, lastAccessDeploy, accessEdits>>

\* The encryption page sets another DoH path and deploys it: dnsdist starts
\* again, the access files stay.
ChangeDohPath ==
    /\ rows.doh = "old" /\ accessEdits < MaxAccessEdits /\ deploying = NoDeploy
    /\ rows' = [rows EXCEPT !.doh = "new"]
    /\ serving' = accessFiles /\ accessEdits' = accessEdits + 1
    /\ UNCHANGED <<gone, accessFiles, accessRoute, deploying, lastAccessDeploy>>

----------------------------------------------------------------------------
(* deploy_access_layer, under the deploy lock.                             *)

\* The lock is taken and the rows are read; others may write rows from here.
DeployReadsRows(r) ==
    /\ accessRoute[r] = "saved" /\ deploying = NoDeploy
    /\ deploying' = [route |-> r, data |-> RenderAccessData(rows), installed |-> FALSE,
                     backup |-> accessFiles]
    /\ UNCHANGED <<rows, gone, accessFiles, serving, accessRoute, lastAccessDeploy, accessEdits>>

Ends(r, outcome) ==
    /\ deploying' = NoDeploy /\ lastAccessDeploy' = outcome
    /\ accessRoute' = [accessRoute EXCEPT ![r] = "idle"]
    /\ UNCHANGED <<rows, gone, accessEdits>>

\* Nothing to change: no restart.
DeployUnchanged(r) ==
    /\ deploying.route = r /\ ~deploying.installed /\ deploying.data = accessFiles
    /\ Ends(r, "ok") /\ UNCHANGED <<accessFiles, serving>>

\* The composite passes --check-config; the files are replaced.
DeployInstalls(r) ==
    /\ deploying.route = r /\ ~deploying.installed /\ deploying.data # accessFiles
    /\ accessFiles' = deploying.data
    /\ deploying' = [deploying EXCEPT !.installed = TRUE]
    /\ UNCHANGED <<rows, gone, serving, accessRoute, lastAccessDeploy, accessEdits>>

DeployRestarts(r) ==
    /\ deploying.route = r /\ deploying.installed
    /\ serving' = accessFiles
    /\ Ends(r, "ok") /\ UNCHANGED accessFiles

\* Mistake: the service is restarted before the old files are back.
DeployAccessFails_RestartFirst(r) ==
    /\ deploying.route = r /\ deploying.data # deploying.backup
    /\ accessFiles' = deploying.backup
    /\ serving' = accessFiles
    /\ Ends(r, "failed")

\* --check-config or the restart fails: _restore_backups, and a restart if
\* anything had been replaced.  The rows stay.
DeployAccessFails(r) ==
    /\ deploying.route = r /\ deploying.data # deploying.backup
    /\ accessFiles' = deploying.backup
    /\ serving' = IF deploying.installed THEN deploying.backup ELSE serving
    /\ Ends(r, "failed")

----------------------------------------------------------------------------
RouteSaves(r) ==
    \/ \E c \in ClientRows, ids \in {{"host"}, {"net", "clientid"}} : CreateClient(r, c, ids)
    \/ \E c \in DOMAIN rows.clients : SetClientEnabled(r, c) \/ DeleteClient(r, c)
    \/ \E c \in DOMAIN rows.clients, i \in Identifiers :
           AddIdentifier(r, c, i) \/ RemoveIdentifier(r, c, i)
    \/ \E action \in {"allow", "deny"}, v \in Identifiers \cup ClientRows :
           AddAccessRule(r, action, v)
    \/ \E rule \in rows.rules : RemoveAccessRule(r, rule)
    \/ \E p \in {"allow", "deny"} : SetDefaultPolicy(r, p)

AccessDeploy(r) ==
    \/ DeployReadsRows(r)
    \/ deploying # NoDeploy /\ \/ DeployUnchanged(r) \/ DeployInstalls(r)
                               \/ DeployRestarts(r) \/ DeployAccessFails(r)

AccessNext ==
    \/ \E r \in AccessRoutes : RouteSaves(r) \/ AccessDeploy(r)
    \/ \E i \in Aliasable : AddAlias(i) \/ \E c \in ClientRows : MigrateClientAliases(i, c)
    \/ ChangeDohPath

AccessSpec == AccessInit /\ [][AccessNext]_accessVars

----------------------------------------------------------------------------
AccessSettled == (\A r \in AccessRoutes : accessRoute[r] = "idle") /\ lastAccessDeploy = "ok"

(***************************************************************************)
(* When no request is under way and the last deploy did not fail, dnsdist  *)
(* decides every query it routes as evaluate_access decides it from the    *)
(* rows, however the requests overlapped; loopback passes a default deny.  *)
(* It routes the paths of all configured ClientIDs, until the DoH path is  *)
(* changed: the access files keep the old one.                             *)
(***************************************************************************)
EnforcedAsEvaluated ==
    AccessSettled =>
        \A q \in Queries :
            /\ Routed(serving, q, rows.doh)
                 => Enforced(serving, q)
                       = (EvaluateAccess(rows, q)
                          \/ (q.from = "loopback" /\ Shows(q) \cap Expand(rows, "deny") = {}))
            /\ Configured(rows) /\ serving.doh = rows.doh => Routed(serving, q, rows.doh)

(***************************************************************************)
(* _delete_legacy_aliases_for_identifiers: an identifier an administrator  *)
(* deleted stays deleted until somebody adds it again; init_db never       *)
(* recreates "a zombie client" from a legacy alias.                        *)
(***************************************************************************)
NoZombieClient == gone \cap Owned(rows.clients) = {}

\* The deploy under way is an attempt; until it is decided the files it backed up count.
Atomic == INSTANCE AtomicDeploy WITH
    NoAttempt <- NoDeploy,
    disk <- IF deploying # NoDeploy THEN deploying.backup ELSE accessFiles,
    loaded <- serving,
    attempt <- IF deploying # NoDeploy THEN deploying.data ELSE NoDeploy

(***************************************************************************)
(* deploy_access_layer: "the active (last-known-good) configuration is     *)
(* never replaced by a config that failed validation".  To the rest of the *)
(* system the deploy is atomic, whatever step of it fails: files and       *)
(* loaded policy change together to what was rendered, or not at all.      *)
(***************************************************************************)
AccessDeployIsAtomic == Atomic!AtomicSpec
=============================================================================
