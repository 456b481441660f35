---------------------------- MODULE DeployProofs ----------------------------
(***************************************************************************)
(* Type correctness, exclusion by the deploy lock, integrity of what is    *)
(* installed, exact rollbacks and truthful success of Deploy, for every    *)
(* set of processes, policies and settings and any number of kills.        *)
(***************************************************************************)
EXTENDS Deploy, TLAPS

\* Labels before any stage has been completed, and those that render the policy.
Undone == {"idle", "lock", "collect", "reuse", "validate", "reload", "zones", "zones_check",
           "upstreams", "upstreams_check", "cache", "cache_check"}
Rendering == {"zones", "zones_check", "upstreams", "upstreams_check", "cache", "cache_check",
              "dnsdist"}

\* What its label says of process p: which commands reach it, that the policy was
\* collected before it is installed, and which rollbacks p cannot owe yet.
ProgressOf(p) ==
  /\ pc[p] # "idle" => op[p] \in Ops
  /\ pc[p] = "lock" => op[p] \in LockedOps
  /\ pc[p] \in {"collect", "dnsdist", "dnsdist_restart", "record", "record_manifest"}
       => op[p] \in FullOps
  /\ pc[p] \in {"validate", "reload"} \/ (op[p] \in FullOps /\ pc[p] \in Rendering)
       => staged[p].rpz \in Policies
  /\ pc[p] \in Undone => done[p] = {}
  /\ pc[p] \in {"dnsdist", "dnsdist_restart"} => "dnsdist" \notin done[p]

Progress == \A p \in Procs : ProgressOf(p)
TypeInv == TypeOK /\ Progress

-----------------------------------------------------------------------------
(* A step of p leaves the other processes where they are. *)
LEMMA LocalStep ==
  ASSUME TypeInv, NEW p \in Procs, NEW l \in Labels, Goto(p, l),
         \A q \in Procs \ {p} : op'[q] = op[q] /\ done'[q] = done[q] /\ staged'[q] = staged[q],
         ProgressOf(p)'
  PROVE pc' \in [Procs -> Labels] /\ Progress'
<1>1. pc' \in [Procs -> Labels] /\ \A q \in Procs \ {p} : pc'[q] = pc[q]
  BY DEF TypeInv, TypeOK, Goto
<1>2. ASSUME NEW q \in Procs PROVE ProgressOf(q)'
  BY <1>1 DEF TypeInv, Progress, ProgressOf
<1> QED
  BY <1>1, <1>2 DEF Progress

\* What Install leaves behind.
Installed(p, rpz) ==
  /\ file' \in AnyFiles /\ bak' \in [Procs -> AnyFiles] /\ staged' \in [Procs -> AnyFiles]
  /\ staged'[p].rpz = rpz /\ \A q \in Procs \ {p} : staged'[q] = staged[q]

(* Installing a file of one layer, layer by layer. *)
LEMMA Installs_rpz ==
  ASSUME TypeInv, NEW p \in Procs, NEW new \in Policies, Install(p, "rpz", new)
  PROVE Installed(p, new)
<1>0. /\ file \in AnyFiles /\ bak \in [Procs -> AnyFiles] /\ staged \in [Procs -> AnyFiles]
      /\ bak[p] \in AnyFiles /\ staged[p] \in AnyFiles
  BY DEF TypeInv, TypeOK
<1>1. file' \in AnyFiles
  BY <1>0 DEF Install, AnyFiles
<1>2. bak' \in [Procs -> AnyFiles]
  BY <1>0 DEF Install, AnyFiles
<1>3. staged' \in [Procs -> AnyFiles]
  BY <1>0 DEF Install, AnyFiles
<1>4. staged'[p].rpz = new /\ \A q \in Procs \ {p} : staged'[q] = staged[q]
  BY <1>0 DEF Install, AnyFiles
<1> QED
  BY <1>1, <1>2, <1>3, <1>4 DEF Installed

LEMMA Installs_zones ==
  ASSUME TypeInv, NEW p \in Procs, NEW new \in Confs, Install(p, "zones", new)
  PROVE Installed(p, staged[p].rpz)
<1>0. /\ file \in AnyFiles /\ bak \in [Procs -> AnyFiles] /\ staged \in [Procs -> AnyFiles]
      /\ bak[p] \in AnyFiles /\ staged[p] \in AnyFiles
  BY DEF TypeInv, TypeOK
<1>1. file' \in AnyFiles
  BY <1>0 DEF Install, AnyFiles
<1>2. bak' \in [Procs -> AnyFiles]
  BY <1>0 DEF Install, AnyFiles
<1>3. staged' \in [Procs -> AnyFiles]
  BY <1>0 DEF Install, AnyFiles
<1>4. staged'[p].rpz = staged[p].rpz /\ \A q \in Procs \ {p} : staged'[q] = staged[q]
  BY <1>0 DEF Install, AnyFiles
<1> QED
  BY <1>1, <1>2, <1>3, <1>4 DEF Installed

LEMMA Installs_upstream ==
  ASSUME TypeInv, NEW p \in Procs, NEW new \in Confs, Install(p, "upstream", new)
  PROVE Installed(p, staged[p].rpz)
<1>0. /\ file \in AnyFiles /\ bak \in [Procs -> AnyFiles] /\ staged \in [Procs -> AnyFiles]
      /\ bak[p] \in AnyFiles /\ staged[p] \in AnyFiles
  BY DEF TypeInv, TypeOK
<1>1. file' \in AnyFiles
  BY <1>0 DEF Install, AnyFiles
<1>2. bak' \in [Procs -> AnyFiles]
  BY <1>0 DEF Install, AnyFiles
<1>3. staged' \in [Procs -> AnyFiles]
  BY <1>0 DEF Install, AnyFiles
<1>4. staged'[p].rpz = staged[p].rpz /\ \A q \in Procs \ {p} : staged'[q] = staged[q]
  BY <1>0 DEF Install, AnyFiles
<1> QED
  BY <1>1, <1>2, <1>3, <1>4 DEF Installed

LEMMA Installs_cache ==
  ASSUME TypeInv, NEW p \in Procs, NEW new \in Confs, Install(p, "cache", new)
  PROVE Installed(p, staged[p].rpz)
<1>0. /\ file \in AnyFiles /\ bak \in [Procs -> AnyFiles] /\ staged \in [Procs -> AnyFiles]
      /\ bak[p] \in AnyFiles /\ staged[p] \in AnyFiles
  BY DEF TypeInv, TypeOK
<1>1. file' \in AnyFiles
  BY <1>0 DEF Install, AnyFiles
<1>2. bak' \in [Procs -> AnyFiles]
  BY <1>0 DEF Install, AnyFiles
<1>3. staged' \in [Procs -> AnyFiles]
  BY <1>0 DEF Install, AnyFiles
<1>4. staged'[p].rpz = staged[p].rpz /\ \A q \in Procs \ {p} : staged'[q] = staged[q]
  BY <1>0 DEF Install, AnyFiles
<1> QED
  BY <1>1, <1>2, <1>3, <1>4 DEF Installed

LEMMA Installs_dnsdist ==
  ASSUME TypeInv, NEW p \in Procs, NEW new \in DnsdistFiles, Install(p, "dnsdist", new)
  PROVE Installed(p, staged[p].rpz)
<1>0. /\ file \in AnyFiles /\ bak \in [Procs -> AnyFiles] /\ staged \in [Procs -> AnyFiles]
      /\ bak[p] \in AnyFiles /\ staged[p] \in AnyFiles
  BY DEF TypeInv, TypeOK
<1>1. file' \in AnyFiles
  BY <1>0 DEF Install, AnyFiles
<1>2. bak' \in [Procs -> AnyFiles]
  BY <1>0 DEF Install, AnyFiles
<1>3. staged' \in [Procs -> AnyFiles]
  BY <1>0 DEF Install, AnyFiles
<1>4. staged'[p].rpz = staged[p].rpz /\ \A q \in Procs \ {p} : staged'[q] = staged[q]
  BY <1>0 DEF Install, AnyFiles
<1> QED
  BY <1>1, <1>2, <1>3, <1>4 DEF Installed

(* Several layers replaced at once. *)
LEMMA ReplaceType ==
  ASSUME NEW f \in AnyFiles, NEW r \in Policies \cup {Absent}, NEW c \in Confs \cup {Absent},
         NEW u \in Confs \cup {Absent}, NEW d \in DnsdistFiles \cup {Absent}
  PROVE /\ [f EXCEPT !.dnsdist = d, !.rpz = r, !.cache = c] \in AnyFiles
        /\ [f EXCEPT !.dnsdist = d, !.upstream = u, !.rpz = r, !.cache = c] \in AnyFiles
  BY DEF AnyFiles

LEMMA FieldTypes ==
  ASSUME NEW f \in AnyFiles
  PROVE /\ f.rpz \in Policies \cup {Absent} /\ f.zones \in Confs \cup {Absent}
        /\ f.upstream \in Confs \cup {Absent} /\ f.cache \in Confs \cup {Absent}
        /\ f.dnsdist \in DnsdistFiles \cup {Absent}
  BY DEF AnyFiles

(* Initial states. *)
LEMMA InitType == Init => TypeInv
  BY DeployAssumption DEF Init, TypeInv, TypeOK, Progress, ProgressOf, Undone, Rendering, NoContent,
     AnyFiles, Inputs, Rows, Labels, DnsdistFiles, FullOps, LockedOps

(* Collecting the rules. *)
LEMMA CollectRulesType ==
  ASSUME TypeInv, NEW p \in Procs, CollectRules(p) PROVE TypeInv'
<1>1. PICK pol \in Policies : db' = [db EXCEPT !.policy = pol] /\ staged' = [staged EXCEPT ![p].rpz = pol]
  BY DeployAssumption DEF CollectRules, TypeInv, TypeOK, Inputs
<1>2. db' \in Inputs
  BY <1>1 DEF TypeInv, TypeOK, Inputs
<1>3. /\ staged' \in [Procs -> AnyFiles] /\ staged'[p].rpz = pol
        /\ \A q \in Procs \ {p} : staged'[q] = staged[q]
  BY <1>1 DEF TypeInv, TypeOK, AnyFiles
<1>4. Goto(p, "validate") /\ (op[p] \in FullOps)
  BY DEF CollectRules, TypeInv, Progress, ProgressOf
<1>5. pc'[p] = "validate"
  BY <1>4 DEF Goto, TypeInv, TypeOK
<1>6. ProgressOf(p)'
  BY <1>1, <1>2, <1>3, <1>4, <1>5 DEF CollectRules, TypeInv, Progress, ProgressOf, Undone, Rendering
<1>7. pc' \in [Procs -> Labels] /\ Progress'
  BY <1>1, <1>2, <1>3, <1>4, <1>6, LocalStep DEF CollectRules, Labels
<1> QED
  BY <1>1, <1>2, <1>3, <1>7 DEF CollectRules, TypeInv, TypeOK

(* The reuse check. *)
LEMMA ReuseCheckType ==
  ASSUME TypeInv, NEW p \in Procs, ReuseCheck(p) PROVE TypeInv'
<1>1. CASE ReusablePolicy
  <2>1. reuse.rpz \in Policies /\ staged' = [staged EXCEPT ![p].rpz = reuse.rpz]
    BY <1>1 DEF ReuseCheck, ReusablePolicy, TypeInv, TypeOK
  <2>2. /\ staged' \in [Procs -> AnyFiles] /\ staged'[p].rpz \in Policies
        /\ \A q \in Procs \ {p} : staged'[q] = staged[q]
    BY <2>1 DEF TypeInv, TypeOK, AnyFiles
  <2> row' = [status |-> "running", active |-> FALSE] /\ Goto(p, "validate")
    BY <1>1 DEF ReuseCheck
  <2>3. row' \in Rows /\ Goto(p, "validate")
    BY DEF Rows
  <2>4. pc'[p] = "validate"
    BY <2>3 DEF Goto, TypeInv, TypeOK
  <2>5. ProgressOf(p)'
    BY <2>2, <2>4 DEF ReuseCheck, TypeInv, Progress, ProgressOf, Undone
  <2>6. pc' \in [Procs -> Labels] /\ Progress'
    BY <2>2, <2>3, <2>5, LocalStep DEF ReuseCheck, Labels
  <2> QED
    BY <2>2, <2>3, <2>6 DEF ReuseCheck, TypeInv, TypeOK
<1>2. CASE ~ReusablePolicy
  <2>1. Goto(p, "release") /\ UNCHANGED <<staged, row>>
    BY <1>2 DEF ReuseCheck
  <2>2. pc'[p] = "release"
    BY <2>1 DEF Goto, TypeInv, TypeOK
  <2>3. ProgressOf(p)'
    BY <2>1, <2>2 DEF ReuseCheck, TypeInv, Progress, ProgressOf, Undone, Rendering
  <2>4. pc' \in [Procs -> Labels] /\ Progress'
    BY <2>1, <2>3, LocalStep DEF ReuseCheck, Labels
  <2> QED
    BY <2>1, <2>4 DEF ReuseCheck, TypeInv, TypeOK
<1> QED
  BY <1>1, <1>2

(* Installing the RPZ. *)
LEMMA InstallRpzType ==
  ASSUME TypeInv, NEW p \in Procs, InstallRpz(p) PROVE TypeInv'
<1>1. Install(p, "rpz", staged[p].rpz) /\ staged[p].rpz \in Policies
  BY DEF InstallRpz, TypeInv, Progress, ProgressOf
<1>2. Installed(p, staged[p].rpz)
  BY <1>1, Installs_rpz
<1>3. Goto(p, "reload")
  BY DEF InstallRpz
<1>4. pc'[p] = "reload"
  BY <1>3 DEF Goto, TypeInv, TypeOK
<1>5. ProgressOf(p)'
  BY <1>1, <1>2, <1>3, <1>4 DEF InstallRpz, Installed, TypeInv, Progress, ProgressOf, Undone,
     Rendering
<1>6. pc' \in [Procs -> Labels] /\ Progress'
  BY <1>1, <1>2, <1>3, <1>5, LocalStep DEF InstallRpz, Labels, Installed
<1> QED
  BY <1>1, <1>2, <1>6 DEF InstallRpz, TypeInv, TypeOK, Installed

(* Reloading BIND. *)
LEMMA ReloadBindType ==
  ASSUME TypeInv, NEW p \in Procs, ReloadBind(p) PROVE TypeInv'
<1>1. file \in AnyFiles /\ live \in AnyFiles /\ bak[p] \in AnyFiles /\ staged[p] \in AnyFiles
  BY DEF TypeInv, TypeOK
<1>2. live' \in AnyFiles
  BY <1>1 DEF ReloadBind, AnyFiles
<1>3. PICK l \in {"zones", "postcheck", "rollback", "release"} : Goto(p, l) /\ (l = "zones" => op[p] \in FullOps)
  BY DEF ReloadBind, Raise
<1>4. pc'[p] = l
  BY <1>3 DEF Goto, TypeInv, TypeOK
<1>5. ProgressOf(p)'
  BY <1>1, <1>2, <1>3, <1>4 DEF ReloadBind, TypeInv, Progress, ProgressOf, Undone, Rendering
<1>6. pc' \in [Procs -> Labels] /\ Progress'
  BY <1>1, <1>2, <1>3, <1>5, LocalStep DEF ReloadBind, Labels
<1> QED
  BY <1>1, <1>2, <1>6 DEF ReloadBind, TypeInv, TypeOK

(* A stage that fails before it changed anything. *)
LEMMA StageRaisesType ==
  ASSUME TypeInv, NEW p \in Procs, StageRaises(p) PROVE TypeInv'
<1>1. PICK l \in {"rollback", "release"} : Goto(p, l)
  BY DEF StageRaises, Raise
<1>2. pc'[p] = l
  BY <1>1 DEF Goto, TypeInv, TypeOK
<1>3. ProgressOf(p)'
  BY <1>1, <1>2 DEF StageRaises, TypeInv, Progress, ProgressOf, Undone, Rendering
<1>4. pc' \in [Procs -> Labels] /\ Progress'
  BY <1>1, <1>3, LocalStep DEF StageRaises, Labels
<1> QED
  BY <1>4 DEF StageRaises, TypeInv, TypeOK

(* Installing the zones. *)
LEMMA DeployZonesType ==
  ASSUME TypeInv, NEW p \in Procs, DeployZones(p) PROVE TypeInv'
<1>1. Install(p, "zones", db.zones) /\ db.zones \in Confs
  BY DEF DeployZones, TypeInv, TypeOK, Inputs
<1>2. Installed(p, staged[p].rpz)
  BY <1>1, Installs_zones
<1>3. Goto(p, "zones_check")
  BY DEF DeployZones
<1>4. pc'[p] = "zones_check"
  BY <1>3 DEF Goto, TypeInv, TypeOK
<1>5. ProgressOf(p)'
  BY <1>1, <1>2, <1>3, <1>4 DEF DeployZones, Installed, TypeInv, Progress, ProgressOf, Undone,
     Rendering
<1>6. pc' \in [Procs -> Labels] /\ Progress'
  BY <1>1, <1>2, <1>3, <1>5, LocalStep DEF DeployZones, Labels, Installed
<1> QED
  BY <1>1, <1>2, <1>6 DEF DeployZones, TypeInv, TypeOK, Installed

(* Activating the zones. *)
LEMMA DeployZonesCheckType ==
  ASSUME TypeInv, NEW p \in Procs, DeployZonesCheck(p) PROVE TypeInv'
<1>1. file \in AnyFiles /\ live \in AnyFiles /\ bak[p] \in AnyFiles /\ staged[p] \in AnyFiles
  BY DEF TypeInv, TypeOK
<1>2. file' \in AnyFiles /\ live' \in AnyFiles
  BY <1>1 DEF DeployZonesCheck, AnyFiles
<1>3. PICK l \in {"upstreams", "rollback", "release"} : Goto(p, l) /\ (l = "upstreams" => op[p] \in FullOps)
  BY DEF DeployZonesCheck, Raise, Proceed, NextStage
<1>4. pc'[p] = l
  BY <1>3 DEF Goto, TypeInv, TypeOK
<1>5. ProgressOf(p)'
  BY <1>1, <1>2, <1>3, <1>4 DEF DeployZonesCheck, TypeInv, Progress, ProgressOf, Undone, Rendering
<1>6. pc' \in [Procs -> Labels] /\ Progress'
  BY <1>1, <1>2, <1>3, <1>5, LocalStep DEF DeployZonesCheck, Labels
<1> QED
  BY <1>1, <1>2, <1>6 DEF DeployZonesCheck, TypeInv, TypeOK

(* Installing the upstream includes. *)
LEMMA DeployUpstreamsType ==
  ASSUME TypeInv, NEW p \in Procs, DeployUpstreams(p) PROVE TypeInv'
<1>1. Install(p, "upstream", db.upstream) /\ db.upstream \in Confs
  BY DEF DeployUpstreams, TypeInv, TypeOK, Inputs
<1>2. Installed(p, staged[p].rpz)
  BY <1>1, Installs_upstream
<1>3. Goto(p, "upstreams_check")
  BY DEF DeployUpstreams
<1>4. pc'[p] = "upstreams_check"
  BY <1>3 DEF Goto, TypeInv, TypeOK
<1>5. ProgressOf(p)'
  BY <1>1, <1>2, <1>3, <1>4 DEF DeployUpstreams, Installed, TypeInv, Progress, ProgressOf,
     Undone, Rendering
<1>6. pc' \in [Procs -> Labels] /\ Progress'
  BY <1>1, <1>2, <1>3, <1>5, LocalStep DEF DeployUpstreams, Labels, Installed
<1> QED
  BY <1>1, <1>2, <1>6 DEF DeployUpstreams, TypeInv, TypeOK, Installed

(* Activating the upstreams. *)
LEMMA DeployUpstreamsCheckType ==
  ASSUME TypeInv, NEW p \in Procs, DeployUpstreamsCheck(p) PROVE TypeInv'
<1>1. file \in AnyFiles /\ live \in AnyFiles /\ bak[p] \in AnyFiles /\ staged[p] \in AnyFiles
  BY DEF TypeInv, TypeOK
<1>2. file' \in AnyFiles
  BY <1>1 DEF DeployUpstreamsCheck, AnyFiles
<1>3. live' \in AnyFiles
  BY <1>1, <1>2 DEF DeployUpstreamsCheck, RestartDnsdist, AnyFiles
<1>4. PICK l \in {"cache", "rollback", "release"} : Goto(p, l) /\ (l = "cache" => op[p] \in FullOps)
  BY DEF DeployUpstreamsCheck, Raise, Proceed, NextStage
<1>5. pc'[p] = l
  BY <1>4 DEF Goto, TypeInv, TypeOK
<1>6. ProgressOf(p)'
  BY <1>1, <1>2, <1>3, <1>4, <1>5 DEF DeployUpstreamsCheck, TypeInv, Progress, ProgressOf,
     Undone, Rendering
<1>7. pc' \in [Procs -> Labels] /\ Progress'
  BY <1>1, <1>2, <1>3, <1>4, <1>6, LocalStep DEF DeployUpstreamsCheck, Labels
<1> QED
  BY <1>1, <1>2, <1>3, <1>7 DEF DeployUpstreamsCheck, TypeInv, TypeOK

(* Installing the cache options. *)
LEMMA DeployCacheType ==
  ASSUME TypeInv, NEW p \in Procs, DeployCache(p) PROVE TypeInv'
<1>1. Install(p, "cache", db.cache) /\ db.cache \in Confs
  BY DEF DeployCache, TypeInv, TypeOK, Inputs
<1>2. Installed(p, staged[p].rpz)
  BY <1>1, Installs_cache
<1>3. Goto(p, "cache_check")
  BY DEF DeployCache
<1>4. pc'[p] = "cache_check"
  BY <1>3 DEF Goto, TypeInv, TypeOK
<1>5. ProgressOf(p)'
  BY <1>1, <1>2, <1>3, <1>4 DEF DeployCache, Installed, TypeInv, Progress, ProgressOf, Undone,
     Rendering
<1>6. pc' \in [Procs -> Labels] /\ Progress'
  BY <1>1, <1>2, <1>3, <1>5, LocalStep DEF DeployCache, Labels, Installed
<1> QED
  BY <1>1, <1>2, <1>6 DEF DeployCache, TypeInv, TypeOK, Installed

(* Activating the cache options. *)
LEMMA DeployCacheCheckType ==
  ASSUME TypeInv, NEW p \in Procs, DeployCacheCheck(p) PROVE TypeInv'
<1>1. file \in AnyFiles /\ live \in AnyFiles /\ bak[p] \in AnyFiles /\ staged[p] \in AnyFiles
  BY DEF TypeInv, TypeOK
<1>2. file' \in AnyFiles
  BY <1>1 DEF DeployCacheCheck, AnyFiles
<1>3. live' \in AnyFiles
  BY <1>1, <1>2 DEF DeployCacheCheck, AnyFiles
<1>4. /\ done' \in [Procs -> SUBSET {"cache", "dnsdist"}]
        /\ \A q \in Procs \ {p} : done'[q] = done[q]
        /\ done'[p] \in {done[p], done[p] \cup {"cache"}}
  BY DEF DeployCacheCheck, TypeInv, TypeOK
<1>5. PICK l \in {"dnsdist", "rollback", "release"} : Goto(p, l) /\ (l = "dnsdist" => op[p] \in FullOps)
  BY DEF DeployCacheCheck, Raise, Proceed, NextStage
<1>6. pc'[p] = l
  BY <1>5 DEF Goto, TypeInv, TypeOK
<1>7. ProgressOf(p)'
  BY <1>1, <1>2, <1>3, <1>4, <1>5, <1>6 DEF DeployCacheCheck, TypeInv, Progress, ProgressOf,
     Undone, Rendering
<1>8. pc' \in [Procs -> Labels] /\ Progress'
  BY <1>1, <1>2, <1>3, <1>4, <1>5, <1>7, LocalStep DEF DeployCacheCheck, Labels
<1> QED
  BY <1>1, <1>2, <1>3, <1>4, <1>8 DEF DeployCacheCheck, TypeInv, TypeOK

(* Installing the dnsdist rules. *)
LEMMA DeployDnsdistLayerType ==
  ASSUME TypeInv, NEW p \in Procs, DeployDnsdistLayer(p) PROVE TypeInv'
<1> DEFINE new == [policy |-> staged[p].rpz, zones |-> db.zones]
<1>1. new \in DnsdistFiles
  BY DEF DeployDnsdistLayer, DnsdistFiles, TypeInv, TypeOK, Inputs, Progress, ProgressOf, Rendering
<1>2. \/ Install(p, "dnsdist", new)
      \/ UNCHANGED <<file, staged, bak>>
  BY DEF DeployDnsdistLayer
<1>3. /\ file' \in AnyFiles /\ bak' \in [Procs -> AnyFiles] /\ staged' \in [Procs -> AnyFiles]
      /\ \A q \in Procs \ {p} : staged'[q] = staged[q]
  <2>1. CASE Install(p, "dnsdist", new)
    BY <1>1, <2>1, Installs_dnsdist DEF Installed
  <2>2. CASE UNCHANGED <<file, staged, bak>>
    BY <2>2 DEF TypeInv, TypeOK
  <2> QED
    BY <1>2, <2>1, <2>2
<1>4. PICK l \in {"postcheck", "dnsdist_restart"} : Goto(p, l)
  BY DEF DeployDnsdistLayer
<1>5. pc'[p] = l
  BY <1>4 DEF Goto, TypeInv, TypeOK
<1>6. ProgressOf(p)'
  BY <1>4, <1>5 DEF DeployDnsdistLayer, TypeInv, Progress, ProgressOf, Undone, Rendering
<1>7. pc' \in [Procs -> Labels] /\ Progress'
  BY <1>3, <1>4, <1>6, LocalStep DEF DeployDnsdistLayer, Labels
<1> QED
  BY <1>3, <1>7 DEF DeployDnsdistLayer, TypeInv, TypeOK

(* Restarting dnsdist. *)
LEMMA DeployDnsdistRestartType ==
  ASSUME TypeInv, NEW p \in Procs, DeployDnsdistRestart(p) PROVE TypeInv'
<1>1. file \in AnyFiles /\ live \in AnyFiles /\ bak[p] \in AnyFiles /\ staged[p] \in AnyFiles
  BY DEF TypeInv, TypeOK
<1>2. file' \in AnyFiles
  BY <1>1 DEF DeployDnsdistRestart, AnyFiles
<1>3. live' \in AnyFiles
  BY <1>1, <1>2 DEF DeployDnsdistRestart, RestartDnsdist, AnyFiles
<1>4. /\ done' \in [Procs -> SUBSET {"cache", "dnsdist"}]
        /\ \A q \in Procs \ {p} : done'[q] = done[q]
        /\ done'[p] \in {done[p], done[p] \cup {"dnsdist"}}
  BY DEF DeployDnsdistRestart, TypeInv, TypeOK
<1>5. PICK l \in {"postcheck", "rollback", "release"} : Goto(p, l)
  BY DEF DeployDnsdistRestart, Raise
<1>6. pc'[p] = l
  BY <1>5 DEF Goto, TypeInv, TypeOK
<1>7. ProgressOf(p)'
  BY <1>1, <1>2, <1>3, <1>4, <1>5, <1>6 DEF DeployDnsdistRestart, TypeInv, Progress, ProgressOf,
     Undone, Rendering
<1>8. pc' \in [Procs -> Labels] /\ Progress'
  BY <1>1, <1>2, <1>3, <1>4, <1>5, <1>7, LocalStep DEF DeployDnsdistRestart, Labels
<1> QED
  BY <1>1, <1>2, <1>3, <1>4, <1>8 DEF DeployDnsdistRestart, TypeInv, TypeOK

(* The functional checks. *)
LEMMA PostCheckType ==
  ASSUME TypeInv, NEW p \in Procs, PostCheck(p) PROVE TypeInv'
<1>1. PICK l \in {"record", "success"} : Goto(p, l) /\ (l = "record" => op[p] \in FullOps)
  BY DEF PostCheck
<1>2. pc'[p] = l
  BY <1>1 DEF Goto, TypeInv, TypeOK
<1>3. ProgressOf(p)'
  BY <1>1, <1>2 DEF PostCheck, TypeInv, Progress, ProgressOf, Undone, Rendering
<1>4. pc' \in [Procs -> Labels] /\ Progress'
  BY <1>1, <1>3, LocalStep DEF PostCheck, Labels
<1> QED
  BY <1>4 DEF PostCheck, TypeInv, TypeOK

(* Caching the policy. *)
LEMMA RecordReusablePolicyType ==
  ASSUME TypeInv, NEW p \in Procs, RecordReusablePolicy(p) PROVE TypeInv'
<1>1. file \in AnyFiles /\ live \in AnyFiles /\ bak[p] \in AnyFiles /\ staged[p] \in AnyFiles
  BY DEF TypeInv, TypeOK
<1>2. reuse' \in [rpz : Policies \cup {Absent}, manifest : Inputs \cup {Absent}]
  BY <1>1, FieldTypes DEF RecordReusablePolicy, TypeInv, TypeOK
<1>3. manifest' \in [Procs -> Inputs \cup {Absent}]
  BY DEF RecordReusablePolicy, Manifest, TypeInv, TypeOK
<1>4. Goto(p, "record_manifest")
  BY DEF RecordReusablePolicy
<1>5. pc'[p] = "record_manifest"
  BY <1>4 DEF Goto, TypeInv, TypeOK
<1>6. ProgressOf(p)'
  BY <1>1, <1>2, <1>3, <1>4, <1>5 DEF RecordReusablePolicy, TypeInv, Progress, ProgressOf,
     Undone, Rendering
<1>7. pc' \in [Procs -> Labels] /\ Progress'
  BY <1>1, <1>2, <1>3, <1>4, <1>6, LocalStep DEF RecordReusablePolicy, Labels
<1> QED
  BY <1>1, <1>2, <1>3, <1>7 DEF RecordReusablePolicy, TypeInv, TypeOK

(* Caching its manifest. *)
LEMMA RecordReusableManifestType ==
  ASSUME TypeInv, NEW p \in Procs, RecordReusableManifest(p) PROVE TypeInv'
<1>1. reuse' \in [rpz : Policies \cup {Absent}, manifest : Inputs \cup {Absent}]
  BY DEF RecordReusableManifest, TypeInv, TypeOK
<1>2. Goto(p, "success")
  BY DEF RecordReusableManifest
<1>3. pc'[p] = "success"
  BY <1>2 DEF Goto, TypeInv, TypeOK
<1>4. ProgressOf(p)'
  BY <1>1, <1>2, <1>3 DEF RecordReusableManifest, TypeInv, Progress, ProgressOf, Undone, Rendering
<1>5. pc' \in [Procs -> Labels] /\ Progress'
  BY <1>1, <1>2, <1>4, LocalStep DEF RecordReusableManifest, Labels
<1> QED
  BY <1>1, <1>5 DEF RecordReusableManifest, TypeInv, TypeOK

(* Recording success. *)
LEMMA SucceedType ==
  ASSUME TypeInv, NEW p \in Procs, Succeed(p) PROVE TypeInv'
<1>1. row' \in Rows
  BY DEF Succeed, Rows, ActiveDomains
<1>2. Goto(p, "release")
  BY DEF Succeed
<1>3. pc'[p] = "release"
  BY <1>2 DEF Goto, TypeInv, TypeOK
<1>4. ProgressOf(p)'
  BY <1>1, <1>2, <1>3 DEF Succeed, TypeInv, Progress, ProgressOf, Undone, Rendering
<1>5. pc' \in [Procs -> Labels] /\ Progress'
  BY <1>1, <1>2, <1>4, LocalStep DEF Succeed, Labels
<1> QED
  BY <1>1, <1>5 DEF Succeed, TypeInv, TypeOK

(* The outer rollback. *)
LEMMA RollbackType ==
  ASSUME TypeInv, NEW p \in Procs, Rollback(p) PROVE TypeInv'
<1>1. file \in AnyFiles /\ live \in AnyFiles /\ bak[p] \in AnyFiles /\ staged[p] \in AnyFiles
  BY DEF TypeInv, TypeOK
<1>2. file' \in AnyFiles
  <2>1. /\ (IF bak[p].rpz # Absent THEN bak[p].rpz ELSE file.rpz) \in Policies \cup {Absent}
        /\ (IF "cache" \in done[p] THEN bak[p].cache ELSE file.cache) \in Confs \cup {Absent}
        /\ (IF "dnsdist" \in done[p] THEN bak[p].dnsdist ELSE file.dnsdist)
             \in DnsdistFiles \cup {Absent}
    BY <1>1, FieldTypes
  <2> QED
    BY <1>1, <2>1, ReplaceType DEF Rollback, RolledBackFiles
<1>3. live' \in AnyFiles
  <2>1. PICK reloaded \in BOOLEAN :
          live' = [live EXCEPT
                     !.dnsdist = IF "dnsdist" \in done[p] THEN file'.dnsdist ELSE @,
                     !.upstream = IF "dnsdist" \in done[p] THEN file'.upstream ELSE @,
                     !.rpz = IF bak[p].rpz # Absent /\ reloaded THEN file'.rpz ELSE @,
                     !.cache = IF "cache" \in done[p] THEN file'.cache ELSE @]
    BY DEF Rollback
  <2> DEFINE d == IF "dnsdist" \in done[p] THEN file'.dnsdist ELSE live.dnsdist
             u == IF "dnsdist" \in done[p] THEN file'.upstream ELSE live.upstream
             r == IF bak[p].rpz # Absent /\ reloaded THEN file'.rpz ELSE live.rpz
             c == IF "cache" \in done[p] THEN file'.cache ELSE live.cache
  <2>2. /\ d \in DnsdistFiles \cup {Absent} /\ u \in Confs \cup {Absent}
        /\ r \in Policies \cup {Absent} /\ c \in Confs \cup {Absent}
    BY <1>1, <1>2, FieldTypes
  <2>3. live' = [live EXCEPT !.dnsdist = d, !.upstream = u, !.rpz = r, !.cache = c]
    BY <2>1
  <2> HIDE DEF d, u, r, c
  <2> QED
    BY <1>1, <2>2, <2>3, ReplaceType
<1>4. row' \in Rows
  BY DEF Rollback, Rows, ActiveDomains
<1>5. Goto(p, "release")
  BY DEF Rollback
<1>6. pc'[p] = "release"
  BY <1>5 DEF Goto, TypeInv, TypeOK
<1>7. ProgressOf(p)'
  BY <1>1, <1>2, <1>3, <1>4, <1>5, <1>6 DEF Rollback, TypeInv, Progress, ProgressOf, Undone,
     Rendering
<1>8. pc' \in [Procs -> Labels] /\ Progress'
  BY <1>1, <1>2, <1>3, <1>4, <1>5, <1>7, LocalStep DEF Rollback, Labels
<1> QED
  BY <1>1, <1>2, <1>3, <1>4, <1>8 DEF Rollback, TypeInv, TypeOK

(* A process starts. *)
LEMMA StartType ==
  ASSUME TypeInv, NEW p \in Procs, Start(p) PROVE TypeInv'
<1>1. PICK o \in Ops : /\ op' = [op EXCEPT ![p] = o]
                       /\ Goto(p, IF o \in LockedOps THEN "lock" ELSE "zones")
  BY DEF Start
<1>2. /\ op' \in [Procs -> Ops \cup {"none"}] /\ op'[p] = o
      /\ \A q \in Procs \ {p} : op'[q] = op[q]
  BY <1>1 DEF TypeInv, TypeOK
<1>3. pc'[p] = IF o \in LockedOps THEN "lock" ELSE "zones"
  BY <1>1 DEF Goto, TypeInv, TypeOK
<1>4. ProgressOf(p)'
  BY <1>2, <1>3 DEF Start, TypeInv, Progress, ProgressOf, Undone, Rendering, LockedOps
<1>5. pc' \in [Procs -> Labels] /\ Progress'
  BY <1>1, <1>2, <1>4, LocalStep DEF Start, Labels
<1> QED
  BY <1>2, <1>5 DEF Start, TypeInv, TypeOK

(* A process gets the lock. *)
LEMMA AcquireLockType ==
  ASSUME TypeInv, NEW p \in Procs, AcquireLock(p) PROVE TypeInv'
<1>1. row' \in Rows /\ pre' \in [file : AnyFiles, live : AnyFiles]
  BY DEF AcquireLock, Rows, TypeInv, TypeOK
<1>2. PICK l \in {"collect", "reuse", "upstreams", "cache"} : Goto(p, l) /\ (l = "collect" <=> op[p] \in FullOps)
  BY DEF AcquireLock, FirstLabel, LockedOps, FullOps, TypeInv, Progress, ProgressOf
<1>3. pc'[p] = l
  BY <1>2 DEF Goto, TypeInv, TypeOK
<1>4. ProgressOf(p)'
  BY <1>1, <1>2, <1>3 DEF AcquireLock, TypeInv, Progress, ProgressOf, Undone, Rendering
<1>5. pc' \in [Procs -> Labels] /\ Progress'
  BY <1>1, <1>2, <1>4, LocalStep DEF AcquireLock, Labels
<1> QED
  BY <1>1, <1>5 DEF AcquireLock, TypeInv, TypeOK

(* A process ends or is killed. *)
LEMMA ExitType ==
  ASSUME TypeInv, NEW p \in Procs, Exit(p), UNCHANGED <<db, file, live, row, reuse, pre>>,
         crashes' \in Nat
  PROVE TypeInv'
<1>1. NoContent \in AnyFiles
  BY DEF NoContent, AnyFiles
<1>2. /\ staged' \in [Procs -> AnyFiles] /\ bak' \in [Procs -> AnyFiles]
      /\ op' \in [Procs -> Ops \cup {"none"}] /\ done' \in [Procs -> SUBSET {"cache", "dnsdist"}]
      /\ manifest' \in [Procs -> Inputs \cup {Absent}] /\ lock' \in Procs \cup {NoProc}
  BY <1>1 DEF Exit, TypeInv, TypeOK
<1>3. pc'[p] = "idle" /\ op'[p] = "none" /\ done'[p] = {}
  BY DEF Exit, TypeInv, TypeOK
<1>4. ProgressOf(p)'
  BY <1>3 DEF ProgressOf, Rendering, FullOps
<1>5. \A q \in Procs \ {p} : op'[q] = op[q] /\ done'[q] = done[q] /\ staged'[q] = staged[q]
  BY DEF Exit, TypeInv, TypeOK
<1>6. pc' \in [Procs -> Labels] /\ Progress'
  BY <1>4, <1>5, LocalStep DEF Exit, Goto, Labels
<1> QED
  BY <1>2, <1>6 DEF TypeInv, TypeOK

(* Every step. *)
LEMMA NextType == TypeInv /\ [Next]_vars => TypeInv'
<1> SUFFICES ASSUME TypeInv, [Next]_vars PROVE TypeInv'
    OBVIOUS
<1>1. ASSUME NEW i \in {"policy", "zones", "upstream", "cache"}, Edit(i) PROVE TypeInv'
  <2>1. db' \in Inputs
    BY <1>1 DEF Edit, TypeInv, TypeOK, Inputs
  <2> QED
    BY <1>1, <2>1 DEF Edit, TypeInv, TypeOK, Progress, ProgressOf
<1>2. ASSUME NEW p \in Procs, Start(p) \/ AcquireLock(p) \/ Step(p) \/ Crash(p) PROVE TypeInv'
  <2>1. CASE Release(p)
    BY <2>1, ExitType DEF Release, TypeInv, TypeOK
  <2>2. CASE Crash(p)
    BY <2>2, ExitType DEF Crash, TypeInv, TypeOK
  <2> QED
    BY <1>2, <2>1, <2>2, StartType, AcquireLockType, CollectRulesType, ReuseCheckType,
       InstallRpzType, ReloadBindType, StageRaisesType, DeployZonesType, DeployZonesCheckType,
       DeployUpstreamsType, DeployUpstreamsCheckType, DeployCacheType, DeployCacheCheckType,
       DeployDnsdistLayerType, DeployDnsdistRestartType, PostCheckType,
       RecordReusablePolicyType, RecordReusableManifestType, SucceedType, RollbackType DEF Step
<1>3. CASE UNCHANGED vars
  BY <1>3 DEF vars, TypeInv, TypeOK, Progress, ProgressOf
<1> QED
  BY <1>1, <1>2, <1>3 DEF Next

\* Every reachable state of the pipeline is well typed, whatever the processes,
\* policies and settings, and every label is reached only by the commands meant to.
THEOREM TypeCorrect == Spec => []TypeInv
  BY InitType, NextType, PTL DEF Spec

\* The type invariant the runs check.
THEOREM TypeCorrectness == Spec => []TypeOK
  BY TypeCorrect, PTL DEF TypeInv

-----------------------------------------------------------------------------
(* The deploy lock. *)

\* The steps of a process that has passed its acquire and does not end.
Works(p) == Step(p) /\ ~Release(p)

LEMMA WorksLocal ==
  ASSUME TypeInv, NEW p \in Procs, Works(p)
  PROVE /\ pc[p] \notin {"idle", "lock"} /\ UNCHANGED <<lock, op>>
        /\ \E l \in Labels : Goto(p, l)
        /\ \A q \in Procs \ {p} : pc'[q] = pc[q] /\ done'[q] = done[q] /\ staged'[q] = staged[q]
<1>1. pc[p] \notin {"idle", "lock"} /\ UNCHANGED <<lock, op>>
  BY DEF Works, Step, CollectRules, ReuseCheck, InstallRpz, ReloadBind, StageRaises,
     DeployZones, DeployZonesCheck, DeployUpstreams, DeployUpstreamsCheck, DeployCache,
     DeployCacheCheck, DeployDnsdistLayer, DeployDnsdistRestart, PostCheck,
     RecordReusablePolicy, RecordReusableManifest, Succeed, Rollback
<1>2. \E l \in Labels : Goto(p, l)
  BY DEF Works, Step, CollectRules, ReuseCheck, InstallRpz, ReloadBind, StageRaises,
     DeployZones, DeployZonesCheck, DeployUpstreams, DeployUpstreamsCheck, DeployCache,
     DeployCacheCheck, DeployDnsdistLayer, DeployDnsdistRestart, PostCheck,
     RecordReusablePolicy, RecordReusableManifest, Succeed, Rollback,
     Raise, Proceed, NextStage, Labels, FullOps
<1>3. \A q \in Procs \ {p} : pc'[q] = pc[q]
  BY <1>2 DEF Goto, TypeInv, TypeOK
<1>4. ASSUME NEW q \in Procs \ {p} PROVE done'[q] = done[q] /\ staged'[q] = staged[q]
  BY DEF TypeInv, TypeOK, Works, Step, Install, CollectRules, ReuseCheck, InstallRpz,
     ReloadBind, StageRaises, DeployZones, DeployZonesCheck, DeployUpstreams,
     DeployUpstreamsCheck, DeployCache, DeployCacheCheck, DeployDnsdistLayer,
     DeployDnsdistRestart, PostCheck, RecordReusablePolicy, RecordReusableManifest, Succeed,
     Rollback
<1> QED
  BY <1>1, <1>2, <1>3, <1>4

(* Only the process that acquires or leaves touches the lock. *)
LEMMA NextLock == TypeInv /\ LockExclusive /\ [Next]_vars => LockExclusive'
<1> SUFFICES ASSUME TypeInv, LockExclusive, [Next]_vars PROVE LockExclusive'
    OBVIOUS
<1>1. ASSUME NEW i \in {"policy", "zones", "upstream", "cache"}, Edit(i) PROVE LockExclusive'
  BY <1>1 DEF Edit, LockExclusive
<1>2. ASSUME NEW p \in Procs, Start(p) PROVE LockExclusive'
  BY <1>2 DEF Start, Goto, LockExclusive, TypeInv, TypeOK
<1>3. ASSUME NEW p \in Procs, AcquireLock(p) PROVE LockExclusive'
  BY <1>3, DeployAssumption DEF AcquireLock, Goto, LockExclusive, TypeInv, TypeOK
<1>4. ASSUME NEW p \in Procs, Works(p) PROVE LockExclusive'
  BY <1>4, WorksLocal DEF LockExclusive
<1>5. ASSUME NEW p \in Procs, Exit(p) PROVE LockExclusive'
  BY <1>5 DEF Exit, LockExclusive, TypeInv, TypeOK
<1>6. CASE UNCHANGED vars
  BY <1>6 DEF vars, LockExclusive
<1> QED
  BY <1>1, <1>2, <1>3, <1>4, <1>5, <1>6 DEF Next, Works, Release, Crash

\* deploy_lock: at most one process at a time is inside the pipelines that take it,
\* with any number of processes and kills.
THEOREM LockExclusion == Spec => []LockExclusive
<1>1. Init => LockExclusive
  BY DEF Init, LockExclusive
<1> QED
  BY <1>1, TypeCorrect, NextLock, PTL DEF Spec

-----------------------------------------------------------------------------
(* Integrity of installed files. *)

\* OwnInstallIntact of one process, layer by layer.
OwnOf(p) ==
  /\ Owns(p, "rpz") => file.rpz = staged[p].rpz
  /\ Owns(p, "zones") => file.zones = staged[p].zones
  /\ Owns(p, "upstream") => file.upstream = staged[p].upstream
  /\ Owns(p, "cache") => file.cache = staged[p].cache
  /\ Owns(p, "dnsdist") => file.dnsdist = staged[p].dnsdist

LEMMA OwnByLayer == OwnInstallIntact <=> \A p \in Procs : OwnOf(p)
  BY DEF OwnInstallIntact, OwnOf, Layers

(* A step of a working process keeps its own installs. *)
LEMMA WorksOwn ==
  ASSUME TypeInv, NEW p \in Procs, OwnOf(p), Works(p) PROVE OwnOf(p)'
<1>0. /\ file \in AnyFiles /\ staged \in [Procs -> AnyFiles] /\ staged[p] \in AnyFiles
      /\ pc \in [Procs -> Labels] /\ done \in [Procs -> SUBSET {"cache", "dnsdist"}]
      /\ ProgressOf(p)
  BY DEF TypeInv, TypeOK, Progress
<1> USE <1>0 DEF OwnOf, Owns, ProgressOf, Undone, Goto, AnyFiles
<1>1. CASE CollectRules(p)
  BY <1>1 DEF CollectRules
<1>2. CASE ReuseCheck(p)
  BY <1>2 DEF ReuseCheck
<1>3. CASE ReloadBind(p)
  BY <1>3 DEF ReloadBind, Raise
<1>4. CASE StageRaises(p)
  BY <1>4 DEF StageRaises, Raise
<1>5. CASE DeployZonesCheck(p)
  BY <1>5 DEF DeployZonesCheck, Raise, Proceed, NextStage
<1>6. CASE DeployUpstreamsCheck(p)
  BY <1>6 DEF DeployUpstreamsCheck, Raise, Proceed, NextStage
<1>7. CASE DeployCacheCheck(p)
  BY <1>7 DEF DeployCacheCheck, Raise, Proceed, NextStage
<1>8. CASE DeployDnsdistRestart(p)
  BY <1>8 DEF DeployDnsdistRestart, Raise
<1>9. CASE PostCheck(p)
  BY <1>9 DEF PostCheck
<1>10. CASE RecordReusablePolicy(p)
  BY <1>10 DEF RecordReusablePolicy
<1>11. CASE RecordReusableManifest(p)
  BY <1>11 DEF RecordReusableManifest
<1>12. CASE Succeed(p)
  BY <1>12 DEF Succeed
<1>13. CASE Rollback(p)
  BY <1>13 DEF Rollback
<1>14. CASE InstallRpz(p)
  BY <1>14 DEF InstallRpz, Install
<1>15. CASE DeployZones(p)
  BY <1>15 DEF DeployZones, Install
<1>16. CASE DeployUpstreams(p)
  BY <1>16 DEF DeployUpstreams, Install
<1>17. CASE DeployCache(p)
  BY <1>17 DEF DeployCache, Install
<1>18. CASE DeployDnsdistLayer(p)
  BY <1>18 DEF DeployDnsdistLayer, Install
<1> QED
  BY <1>1, <1>2, <1>3, <1>4, <1>5, <1>6, <1>7, <1>8, <1>9, <1>10, <1>11, <1>12, <1>13, <1>14,
     <1>15, <1>16, <1>17, <1>18 DEF Works, Step

LEMMA NextOwn ==
  ASSUME Ops \subseteq LockedOps
  PROVE TypeInv /\ LockExclusive /\ OwnInstallIntact /\ [Next]_vars => OwnInstallIntact'
<1> SUFFICES ASSUME TypeInv, LockExclusive, OwnInstallIntact, [Next]_vars,
                    NEW q \in Procs
             PROVE OwnOf(q)'
  BY OwnByLayer DEF OwnInstallIntact, OwnOf, Layers
<1>0. TypeInv' /\ LockExclusive' /\ OwnOf(q)
  BY NextType, NextLock, OwnByLayer
<1>1. CASE UNCHANGED <<file, staged, pc, op, done>>
  BY <1>0, <1>1 DEF OwnOf, Owns
<1>2. ASSUME NEW p \in Procs, Start(p) \/ AcquireLock(p) \/ (Exit(p) /\ UNCHANGED file) PROVE OwnOf(q)'
  <2>1. CASE q # p
    <3>1. /\ file' = file /\ staged'[q] = staged[q] /\ pc'[q] = pc[q]
          /\ op'[q] = op[q] /\ done'[q] = done[q]
      BY <1>2, <2>1 DEF Start, AcquireLock, Exit, Goto, TypeInv, TypeOK
    <3> QED
      BY <1>0, <3>1 DEF OwnOf, Owns
  <2>2. CASE q = p /\ AcquireLock(p)
    BY <2>2 DEF AcquireLock, Goto, FirstLabel, OwnOf, Owns, FullOps, LockedOps, TypeInv, TypeOK,
                Progress, ProgressOf, Undone
  <2>3. CASE q = p /\ ~AcquireLock(p)
    <3>1. pc'[q] \in {"idle", "lock"} /\ done'[q] = {}
      BY <1>2, <2>3 DEF Start, Exit, Goto, TypeInv, TypeOK, Progress, ProgressOf, Undone
    <3> QED
      BY <3>1 DEF OwnOf, Owns
  <2> QED
    BY <1>2, <2>1, <2>2, <2>3
<1>3. ASSUME NEW p \in Procs, Works(p) PROVE OwnOf(q)'
  <2>1. CASE q = p
    BY <1>0, <1>3, <2>1, WorksOwn
  <2>2. CASE q # p
    <3>1. lock = p /\ lock' = p
      BY <1>3, WorksLocal DEF LockExclusive, TypeInv, Progress, ProgressOf
    <3>2. pc'[q] \in {"idle", "lock"} /\ done'[q] = {}
      BY <1>0, <2>2, <3>1 DEF LockExclusive, TypeInv, Progress, ProgressOf, Undone
    <3> QED
      BY <3>2 DEF OwnOf, Owns
  <2> QED
    BY <2>1, <2>2
<1>4. ASSUME NEW i \in {"policy", "zones", "upstream", "cache"}, Edit(i) PROVE OwnOf(q)'
  BY <1>1, <1>4 DEF Edit
<1>5. ASSUME NEW p \in Procs, Release(p) \/ Crash(p) PROVE OwnOf(q)'
  BY <1>2, <1>5 DEF Release, Crash
<1>6. CASE UNCHANGED vars
  BY <1>1, <1>6 DEF vars
<1>7. ASSUME NEW p \in Procs, Start(p) \/ AcquireLock(p) \/ Step(p) \/ Crash(p) PROVE OwnOf(q)'
  BY <1>2, <1>3, <1>5, <1>7 DEF Works
<1> QED
  BY <1>4, <1>6, <1>7 DEF Next

\* As long as every command takes the deploy lock, no deploy finds a file it has
\* installed, and may still roll back, replaced by another process.
THEOREM InstallIntegrity ==
  ASSUME Ops \subseteq LockedOps
  PROVE Spec => []OwnInstallIntact
<1>1. Init => OwnInstallIntact
  BY DEF Init, OwnInstallIntact, Owns, Layers
<1>2. TypeInv /\ LockExclusive /\ OwnInstallIntact /\ [Next]_vars => OwnInstallIntact'
  BY NextOwn
<1> QED
  BY <1>1, <1>2, TypeCorrect, LockExclusion, PTL DEF Spec

-----------------------------------------------------------------------------
(* What a rollback finds. *)

\* p is in a pipeline that takes the lock, and before its release.
Inside(p) == pc[p] \notin {"idle", "lock", "release"} /\ op[p] \in LockedOps

\* Before the RPZ is installed there is no copy of it; only a reuse deploy checks the
\* reusable policy, and it goes through none of the four stages; and a command that takes no lock only deploys zones.
PlaceOf(p) ==
  /\ pc[p] \in {"idle", "lock", "collect", "reuse", "validate"} => bak[p].rpz = Absent
  /\ pc[p] = "reuse" => op[p] = "protection-enable-reuse"
  /\ op[p] = "protection-enable-reuse" => pc[p] \notin Rendering
  /\ pc[p] # "idle" /\ op[p] \notin LockedOps => pc[p] \in {"zones", "zones_check", "release"}

\* A layer of the outer rollback, on disk and loaded, is as p found it, or reloaded.
AsFound(l) == file[l] = pre.file[l] /\ live[l] \in {pre.live[l], pre.file[l]}

\* Each layer that the outer rollback covers is as p found it, or p has a copy of what
\* it found and will put it back.
SavedOf(p) ==
  /\ IF bak[p].rpz # Absent THEN bak[p].rpz = pre.file.rpz ELSE AsFound("rpz")
  /\ IF pc[p] = "cache_check" \/ "cache" \in done[p]
       THEN bak[p].cache = pre.file.cache ELSE AsFound("cache")
  /\ IF pc[p] = "dnsdist_restart" \/ "dnsdist" \in done[p]
       THEN bak[p].dnsdist = pre.file.dnsdist ELSE AsFound("dnsdist")

\* Nobody was killed, and there was an RPZ when the lock was acquired.
Ordinary == crashes = 0 /\ pre.file.rpz # Absent

\* RolledBackExactly with what it rests on, for one process.
RollbackOf(p) ==
  /\ Inside(p) /\ Ordinary => SavedOf(p)
  /\ Recorded(p, "rolled_back") /\ Ordinary => AsFound("rpz") /\ AsFound("cache") /\ AsFound("dnsdist")

Places == \A p \in Procs : PlaceOf(p)
RollbackInv == \A p \in Procs : RollbackOf(p)

(* A working process leaves the copies of the others alone. *)
LEMMA WorksCopies ==
  ASSUME TypeInv, NEW p \in Procs, Works(p)
  PROVE UNCHANGED <<pre, crashes>> /\ \A q \in Procs \ {p} : bak'[q] = bak[q]
<1>1. UNCHANGED <<pre, crashes>>
  BY DEF Works, Step, CollectRules, ReuseCheck, InstallRpz, ReloadBind, StageRaises,
     DeployZones, DeployZonesCheck, DeployUpstreams, DeployUpstreamsCheck, DeployCache,
     DeployCacheCheck, DeployDnsdistLayer, DeployDnsdistRestart, PostCheck,
     RecordReusablePolicy, RecordReusableManifest, Succeed, Rollback
<1>2. ASSUME NEW q \in Procs \ {p} PROVE bak'[q] = bak[q]
  BY DEF TypeInv, TypeOK, Works, Step, Install, CollectRules, ReuseCheck, InstallRpz,
     ReloadBind, StageRaises, DeployZones, DeployZonesCheck, DeployUpstreams,
     DeployUpstreamsCheck, DeployCache, DeployCacheCheck, DeployDnsdistLayer,
     DeployDnsdistRestart, PostCheck, RecordReusablePolicy, RecordReusableManifest, Succeed,
     Rollback
<1> QED
  BY <1>1, <1>2

LEMMA WorksPlace ==
  ASSUME TypeInv, NEW p \in Procs, PlaceOf(p), Works(p) PROVE PlaceOf(p)'
<1>0. /\ file \in AnyFiles /\ bak \in [Procs -> AnyFiles] /\ bak[p] \in AnyFiles
      /\ pc \in [Procs -> Labels] /\ ProgressOf(p)
  BY DEF TypeInv, TypeOK, Progress
<1> USE <1>0 DEF PlaceOf, ProgressOf, Goto, AnyFiles, FullOps, LockedOps, Rendering
<1>1. CASE CollectRules(p)
  BY <1>1 DEF CollectRules
<1>2. CASE ReuseCheck(p)
  BY <1>2 DEF ReuseCheck
<1>3. CASE InstallRpz(p)
  BY <1>3 DEF InstallRpz, Install
<1>4. CASE ReloadBind(p)
  BY <1>4 DEF ReloadBind, Raise
<1>5. CASE StageRaises(p)
  BY <1>5 DEF StageRaises, Raise
<1>6. CASE DeployZones(p)
  BY <1>6 DEF DeployZones, Install
<1>7. CASE DeployZonesCheck(p)
  BY <1>7 DEF DeployZonesCheck, Raise, Proceed, NextStage
<1>8. CASE DeployUpstreams(p)
  BY <1>8 DEF DeployUpstreams, Install
<1>9. CASE DeployUpstreamsCheck(p)
  BY <1>9 DEF DeployUpstreamsCheck, Raise, Proceed, NextStage, RestartDnsdist
<1>10. CASE DeployCache(p)
  BY <1>10 DEF DeployCache, Install
<1>11. CASE DeployCacheCheck(p)
  BY <1>11 DEF DeployCacheCheck, Raise, Proceed, NextStage
<1>12. CASE DeployDnsdistLayer(p)
  BY <1>12 DEF DeployDnsdistLayer, Install
<1>13. CASE DeployDnsdistRestart(p)
  BY <1>13 DEF DeployDnsdistRestart, Raise, RestartDnsdist
<1>14. CASE PostCheck(p)
  BY <1>14 DEF PostCheck
<1>15. CASE RecordReusablePolicy(p)
  BY <1>15 DEF RecordReusablePolicy
<1>16. CASE RecordReusableManifest(p)
  BY <1>16 DEF RecordReusableManifest
<1>17. CASE Succeed(p)
  BY <1>17 DEF Succeed
<1>18. CASE Rollback(p)
  BY <1>18 DEF Rollback, RolledBackFiles
<1> QED
  BY <1>1, <1>2, <1>3, <1>4, <1>5, <1>6, <1>7, <1>8, <1>9, <1>10, <1>11, <1>12, <1>13, <1>14,
     <1>15, <1>16, <1>17, <1>18 DEF Works, Step

LEMMA NextPlaces == TypeInv /\ Places /\ [Next]_vars => Places'
<1> SUFFICES ASSUME TypeInv, Places, [Next]_vars, NEW q \in Procs PROVE PlaceOf(q)'
  BY DEF Places
<1>0. PlaceOf(q)
  BY DEF Places
<1>1. CASE UNCHANGED <<pc, op, bak>>
  BY <1>0, <1>1 DEF PlaceOf
<1>2. ASSUME NEW p \in Procs, Start(p) PROVE PlaceOf(q)'
  BY <1>0, <1>2 DEF Start, Goto, PlaceOf, Rendering, LockedOps, FullOps, FirstLabel, TypeInv, TypeOK
<1>3. ASSUME NEW p \in Procs, AcquireLock(p) PROVE PlaceOf(q)'
  BY <1>0, <1>3 DEF AcquireLock, Goto, PlaceOf, Rendering, LockedOps, FullOps, FirstLabel,
     TypeInv, TypeOK, Progress, ProgressOf
<1>4. ASSUME NEW p \in Procs, Exit(p) PROVE PlaceOf(q)'
  BY <1>0, <1>4 DEF Exit, PlaceOf, Rendering, NoContent, TypeInv, TypeOK
<1>5. ASSUME NEW p \in Procs, Works(p) PROVE PlaceOf(q)'
  <2>1. CASE q = p
    BY <1>0, <1>5, <2>1, WorksPlace
  <2>2. CASE q # p
    BY <1>0, <1>5, <2>2, WorksLocal, WorksCopies DEF PlaceOf
  <2> QED
    BY <2>1, <2>2
<1>6. ASSUME NEW i \in {"policy", "zones", "upstream", "cache"}, Edit(i) PROVE PlaceOf(q)'
  BY <1>1, <1>6 DEF Edit
<1> QED
  BY <1>1, <1>2, <1>3, <1>4, <1>5, <1>6 DEF Next, Works, Release, Crash, vars

(* A command that takes no lock touches nothing that the outer rollback covers. *)
LEMMA OutsideKeeps ==
  ASSUME TypeInv, NEW p \in Procs, PlaceOf(p), Works(p), op[p] \notin LockedOps
  PROVE /\ UNCHANGED row
        /\ \A l \in {"rpz", "cache", "dnsdist"} : file'[l] = file[l] /\ live'[l] = live[l]
<1>1. pc[p] \in {"zones", "zones_check", "release"} /\ op[p] \notin FullOps
  BY WorksLocal DEF PlaceOf, LockedOps
<1>2. DeployZones(p) \/ DeployZonesCheck(p) \/ StageRaises(p)
  BY <1>1 DEF Works, Step, CollectRules, ReuseCheck, InstallRpz, ReloadBind, StageRaises,
     DeployZones, DeployZonesCheck, DeployUpstreams, DeployUpstreamsCheck, DeployCache,
     DeployCacheCheck, DeployDnsdistLayer, DeployDnsdistRestart, PostCheck,
     RecordReusablePolicy, RecordReusableManifest, Succeed, Rollback
<1>3. file \in AnyFiles /\ live \in AnyFiles
  BY DEF TypeInv, TypeOK
<1> QED
  BY <1>2, <1>3 DEF DeployZones, DeployZonesCheck, StageRaises, Install, AnyFiles

(* A step of a process inside the pipeline. *)
LEMMA WorksRollback ==
  ASSUME TypeInv, NEW p \in Procs, PlaceOf(p), RollbackOf(p), Works(p), Inside(p), Ordinary
  PROVE RollbackOf(p)'
<1>0. /\ file \in AnyFiles /\ live \in AnyFiles /\ bak \in [Procs -> AnyFiles] /\ bak[p] \in AnyFiles
      /\ pc \in [Procs -> Labels] /\ done \in [Procs -> SUBSET {"cache", "dnsdist"}]
      /\ ProgressOf(p) /\ SavedOf(p)
      /\ pre' = pre /\ op' = op
      /\ pc[p] \in {"zones_check", "upstreams_check", "cache_check"} => op[p] # "protection-enable-reuse"
  BY WorksLocal, WorksCopies DEF TypeInv, TypeOK, Progress, RollbackOf, PlaceOf, Rendering
<1> USE <1>0 DEF RollbackOf, SavedOf, AsFound, Ordinary, Recorded, Inside, PlaceOf, ProgressOf, Undone, Goto, AnyFiles
<1>1. CASE CollectRules(p)
  BY <1>1 DEF CollectRules
<1>2. CASE ReuseCheck(p)
  BY <1>2 DEF ReuseCheck
<1>3. CASE InstallRpz(p)
  BY <1>3 DEF InstallRpz, Install
<1>4. CASE ReloadBind(p)
  BY <1>4 DEF ReloadBind, Raise
<1>5. CASE StageRaises(p)
  BY <1>5 DEF StageRaises, Raise
<1>6. CASE DeployZones(p)
  BY <1>6 DEF DeployZones, Install
<1>7. CASE DeployZonesCheck(p)
  BY <1>7 DEF DeployZonesCheck, Raise, Proceed, NextStage
<1>8. CASE DeployUpstreams(p)
  BY <1>8 DEF DeployUpstreams, Install
<1>9. CASE DeployUpstreamsCheck(p)
  <2>1. /\ \A l \in {"rpz", "cache", "dnsdist"} : file'[l] = file[l]
        /\ live'.rpz = live.rpz /\ live'.cache = live.cache
        /\ live'.dnsdist \in {live.dnsdist, file.dnsdist}
        /\ UNCHANGED <<bak, done, crashes>>
    <3>1. CASE /\ live' \in {[live EXCEPT !.upstream = file.upstream], RestartDnsdist(file)}
               /\ UNCHANGED file
      BY <1>9, <3>1 DEF DeployUpstreamsCheck, RestartDnsdist
    <3>2. CASE /\ file' = [file EXCEPT !.upstream = bak[p].upstream]
               /\ live' = RestartDnsdist(file')
      BY <1>9, <3>2 DEF DeployUpstreamsCheck, RestartDnsdist
    <3> QED
      BY <1>9, <3>1, <3>2 DEF DeployUpstreamsCheck
  <2>2. pc[p] = "upstreams_check" /\ pc'[p] \in {"rollback", "cache", "release"}
    BY <1>9 DEF DeployUpstreamsCheck, Raise, Proceed, NextStage
  <2>3. pc'[p] = "release" => op[p] \notin FullOps \cup {"protection-enable-reuse"}
    BY <1>9 DEF DeployUpstreamsCheck, Raise, Proceed, NextStage
  <2>4. SavedOf(p)'
    BY <2>1, <2>2
  <2> QED
    BY <2>3, <2>4
<1>10. CASE DeployCache(p)
  BY <1>10 DEF DeployCache, Install
<1>11. CASE DeployCacheCheck(p)
  BY <1>11 DEF DeployCacheCheck, Raise, Proceed, NextStage
<1>12. CASE DeployDnsdistLayer(p)
  BY <1>12 DEF DeployDnsdistLayer, Install
<1>13. CASE DeployDnsdistRestart(p)
  BY <1>13 DEF DeployDnsdistRestart, Raise, RestartDnsdist
<1>14. CASE PostCheck(p)
  BY <1>14 DEF PostCheck
<1>15. CASE RecordReusablePolicy(p)
  BY <1>15 DEF RecordReusablePolicy
<1>16. CASE RecordReusableManifest(p)
  BY <1>16 DEF RecordReusableManifest
<1>17. CASE Succeed(p)
  BY <1>17 DEF Succeed
<1>18. CASE Rollback(p)
  BY <1>18 DEF Rollback, RolledBackFiles
<1> QED
  BY <1>1, <1>2, <1>3, <1>4, <1>5, <1>6, <1>7, <1>8, <1>9, <1>10, <1>11, <1>12, <1>13, <1>14,
     <1>15, <1>16, <1>17, <1>18 DEF Works, Step


LEMMA NextRollback ==
  TypeInv /\ LockExclusive /\ Places /\ RollbackInv /\ [Next]_vars => RollbackInv'
<1> SUFFICES ASSUME TypeInv, LockExclusive, Places, RollbackInv, [Next]_vars, NEW q \in Procs
             PROVE RollbackOf(q)'
  BY DEF RollbackInv
<1>0. PlaceOf(q) /\ RollbackOf(q) /\ crashes \in Nat
  BY DEF Places, RollbackInv, TypeInv, TypeOK
<1>1. CASE UNCHANGED <<file, live, pc, op, bak, done, row, pre, crashes>>
  BY <1>0, <1>1 DEF RollbackOf, SavedOf, AsFound, Inside, Ordinary, Recorded
<1>2. ASSUME NEW p \in Procs, Start(p) PROVE RollbackOf(q)'
  <2>1. CASE q = p
    <3>1. pc'[p] \in {"idle", "lock", "release"} \/ op'[p] \notin LockedOps
      BY <1>2 DEF Start, Goto, TypeInv, TypeOK
    <3>2. pc'[p] # "release"
      BY <1>2 DEF Start, Goto, TypeInv, TypeOK
    <3> QED
      BY <2>1, <3>1, <3>2 DEF RollbackOf, Inside, Recorded
  <2>2. CASE q # p
    <3>1. op'[q] = op[q] /\ pc'[q] = pc[q]
      BY <1>2, <2>2 DEF Start, Goto, TypeInv, TypeOK
    <3> QED
      BY <1>0, <1>2, <3>1 DEF Start, RollbackOf, SavedOf, AsFound, Inside, Ordinary, Recorded
  <2> QED
    BY <2>1, <2>2
<1>3. ASSUME NEW p \in Procs, AcquireLock(p) PROVE RollbackOf(q)'
  <2>1. CASE q = p
    <3>1. /\ pc'[p] \in {"collect", "reuse", "upstreams", "cache"} /\ bak'[p].rpz = Absent
          /\ done'[p] = {} /\ pre' = [file |-> file, live |-> live] /\ UNCHANGED <<file, live>>
      BY <1>0, <1>3, <2>1 DEF AcquireLock, Goto, FirstLabel, LockedOps, FullOps, PlaceOf,
         TypeInv, TypeOK, Progress, ProgressOf, Undone
    <3> QED
      BY <2>1, <3>1 DEF RollbackOf, SavedOf, AsFound, Recorded
  <2>2. CASE q # p
    <3>1. pc[q] \in {"idle", "lock"} \/ op[q] \notin LockedOps
      BY <1>3, DeployAssumption DEF AcquireLock, LockExclusive
    <3>2. op'[q] = op[q] /\ pc'[q] = pc[q]
      BY <1>3, <2>2 DEF AcquireLock, Goto, TypeInv, TypeOK
    <3> QED
      BY <3>1, <3>2 DEF RollbackOf, Inside, Recorded, LockedOps
  <2> QED
    BY <2>1, <2>2
<1>4. ASSUME NEW p \in Procs, Release(p) \/ Crash(p) PROVE RollbackOf(q)'
  <2>1. CASE q = p
    <3>1. pc'[p] = "idle"
      BY <1>4 DEF Release, Crash, Exit, TypeInv, TypeOK
    <3> QED
      BY <2>1, <3>1 DEF RollbackOf, Inside, Recorded
  <2>2. CASE q # p /\ Release(p)
    <3>1. op'[q] = op[q] /\ pc'[q] = pc[q] /\ bak'[q] = bak[q] /\ done'[q] = done[q]
      BY <2>2 DEF Release, Exit, TypeInv, TypeOK
    <3> QED
      BY <1>0, <2>2, <3>1 DEF Release, RollbackOf, SavedOf, AsFound, Inside, Ordinary, Recorded
  <2>3. CASE Crash(p)
    BY <1>0, <2>3 DEF Crash, RollbackOf, Ordinary
  <2> QED
    BY <1>4, <2>1, <2>2, <2>3
<1>5. ASSUME NEW p \in Procs, Works(p) PROVE RollbackOf(q)'
  <2>0. PlaceOf(p) /\ op' = op /\ UNCHANGED <<pre, crashes>> /\ pc[p] \notin {"idle", "lock", "release"}
    <3>1. pc[p] # "release"
      BY <1>5 DEF Works, Step, CollectRules, ReuseCheck, InstallRpz, ReloadBind, StageRaises,
         DeployZones, DeployZonesCheck, DeployUpstreams, DeployUpstreamsCheck, DeployCache,
         DeployCacheCheck, DeployDnsdistLayer, DeployDnsdistRestart, PostCheck,
         RecordReusablePolicy, RecordReusableManifest, Succeed, Rollback
    <3> QED
      BY <1>5, <3>1, WorksLocal, WorksCopies DEF Places
  <2>1. CASE q = p /\ op[p] \in LockedOps /\ Ordinary
    BY <1>0, <1>5, <2>0, <2>1, WorksRollback DEF Inside
  <2>2. CASE ~Ordinary
    BY <2>0, <2>2 DEF RollbackOf, Ordinary
  <2>3. CASE q = p /\ op[p] \notin LockedOps
    BY <2>0, <2>3 DEF RollbackOf, Inside, Recorded, LockedOps
  <2>4. CASE q # p /\ op[p] \in LockedOps
    <3>1. pc[q] \in {"idle", "lock"} \/ op[q] \notin LockedOps
      BY <2>0, <2>4 DEF LockExclusive
    <3>2. pc'[q] = pc[q]
      BY <1>5, <2>4, WorksLocal
    <3> QED
      BY <2>0, <3>1, <3>2 DEF RollbackOf, Inside, Recorded, LockedOps
  <2>5. CASE q # p /\ op[p] \notin LockedOps
    <3>1. /\ UNCHANGED row
          /\ \A l \in {"rpz", "cache", "dnsdist"} : file'[l] = file[l] /\ live'[l] = live[l]
      BY <1>5, <2>0, <2>5, OutsideKeeps
    <3>2. pc'[q] = pc[q] /\ done'[q] = done[q] /\ bak'[q] = bak[q]
      BY <1>5, <2>5, WorksLocal, WorksCopies
    <3> QED
      BY <1>0, <2>0, <3>1, <3>2 DEF RollbackOf, SavedOf, AsFound, Inside, Ordinary, Recorded
  <2> QED
    BY <2>1, <2>2, <2>3, <2>4, <2>5
<1>6. ASSUME NEW i \in {"policy", "zones", "upstream", "cache"}, Edit(i) PROVE RollbackOf(q)'
  BY <1>1, <1>6 DEF Edit
<1> QED
  BY <1>1, <1>2, <1>3, <1>4, <1>5, <1>6 DEF Next, Works, vars

\* A deploy recorded 'rolled_back' left the RPZ, the cache options and the dnsdist rules
\* as it found them, on disk and loaded, also beside commands that take no lock.
THEOREM RollbackExact == Spec => []RolledBackExactly
<1>1. Init => Places /\ RollbackInv
  BY DEF Init, Places, PlaceOf, Rendering, NoContent, RollbackInv, RollbackOf, Inside, Recorded
<1>2. RollbackInv => RolledBackExactly
  BY DEF RollbackInv, RollbackOf, RolledBackExactly, Ordinary, AsFound
<1> QED
  BY <1>1, <1>2, TypeCorrect, LockExclusion, NextPlaces, NextRollback, PTL DEF Spec

-----------------------------------------------------------------------------
(* What a successful deploy leaves. *)

AfterRpz == {"zones", "zones_check", "upstreams", "upstreams_check", "cache", "cache_check",
             "dnsdist", "dnsdist_restart", "postcheck", "record", "record_manifest", "success"}
AfterZones == AfterRpz \ {"zones", "zones_check"}
AfterUpstreams == AfterZones \ {"upstreams", "upstreams_check"}
AfterCache == AfterUpstreams \ {"cache", "cache_check"}
AfterDnsdist == AfterCache \ {"dnsdist", "dnsdist_restart"}

\* p has installed layer l; p has installed it and the daemon has loaded it.
Holds(p, l) == file[l] = staged[p][l]
Runs(p, l) == file[l] = staged[p][l] /\ live[l] = file[l]

\* What a full deploy has installed and loaded when it is at pc[p].
StagesOf(p) ==
  /\ pc[p] = "reload" => Holds(p, "rpz")
  /\ pc[p] \in AfterRpz => Runs(p, "rpz") /\ staged[p].rpz \in Policies
  /\ pc[p] = "zones_check" => Holds(p, "zones")
  /\ pc[p] \in AfterZones => Runs(p, "zones")
  /\ pc[p] = "upstreams_check" => Holds(p, "upstream")
  /\ pc[p] \in AfterUpstreams => Runs(p, "upstream")
  /\ pc[p] = "cache_check" => Holds(p, "cache")
  /\ pc[p] \in AfterCache => Runs(p, "cache")
  /\ pc[p] \in AfterDnsdist \cup {"dnsdist_restart"} => file.dnsdist.policy = staged[p].rpz

\* DeployedMeansLive of one process.
DeployedOf(p) ==
  Recorded(p, "deployed") =>
    /\ Runs(p, "rpz") /\ Runs(p, "zones") /\ Runs(p, "upstream") /\ Runs(p, "cache")
    /\ file.dnsdist.policy = staged[p].rpz
    /\ crashes = 0 => live.dnsdist = file.dnsdist
    /\ row.active = (live.rpz # Off)

StagesInv == \A p \in Procs : op[p] \in FullOps => StagesOf(p) /\ DeployedOf(p)

\* As long as no process was killed, dnsdist runs the installed rules unless a deploy
\* is just about to restart it.
DnsdistInStep ==
  crashes = 0 => live.dnsdist = file.dnsdist \/ \E p \in Procs : pc[p] = "dnsdist_restart"

(* The holder of the lock and the dnsdist rules. *)
LEMMA WorksInStep ==
  ASSUME TypeInv, NEW p \in Procs, Works(p),
         pc[p] # "dnsdist_restart" => live.dnsdist = file.dnsdist
  PROVE pc'[p] # "dnsdist_restart" => live'.dnsdist = file'.dnsdist
<1>0. /\ file \in AnyFiles /\ live \in AnyFiles /\ bak[p] \in AnyFiles /\ pc \in [Procs -> Labels]
  BY DEF TypeInv, TypeOK
<1> USE <1>0 DEF Goto, AnyFiles
<1>1. CASE CollectRules(p)
  BY <1>1 DEF CollectRules
<1>2. CASE ReuseCheck(p)
  BY <1>2 DEF ReuseCheck
<1>3. CASE InstallRpz(p)
  BY <1>3 DEF InstallRpz, Install
<1>4. CASE ReloadBind(p)
  BY <1>4 DEF ReloadBind, Raise
<1>5. CASE StageRaises(p)
  BY <1>5 DEF StageRaises, Raise
<1>6. CASE DeployZones(p)
  BY <1>6 DEF DeployZones, Install
<1>7. CASE DeployZonesCheck(p)
  BY <1>7 DEF DeployZonesCheck, Raise, Proceed, NextStage
<1>8. CASE DeployUpstreams(p)
  BY <1>8 DEF DeployUpstreams, Install
<1>9. CASE DeployUpstreamsCheck(p)
  BY <1>9 DEF DeployUpstreamsCheck, Raise, Proceed, NextStage, RestartDnsdist
<1>10. CASE DeployCache(p)
  BY <1>10 DEF DeployCache, Install
<1>11. CASE DeployCacheCheck(p)
  BY <1>11 DEF DeployCacheCheck, Raise, Proceed, NextStage
<1>12. CASE DeployDnsdistLayer(p)
  BY <1>12 DEF DeployDnsdistLayer, Install
<1>13. CASE DeployDnsdistRestart(p)
  BY <1>13 DEF DeployDnsdistRestart, Raise, RestartDnsdist
<1>14. CASE PostCheck(p)
  BY <1>14 DEF PostCheck
<1>15. CASE RecordReusablePolicy(p)
  BY <1>15 DEF RecordReusablePolicy
<1>16. CASE RecordReusableManifest(p)
  BY <1>16 DEF RecordReusableManifest
<1>17. CASE Succeed(p)
  BY <1>17 DEF Succeed, ActiveDomains
<1>18. CASE Rollback(p)
  BY <1>18 DEF Rollback, RolledBackFiles
<1> QED
  BY <1>1, <1>2, <1>3, <1>4, <1>5, <1>6, <1>7, <1>8, <1>9, <1>10, <1>11, <1>12, <1>13, <1>14,
     <1>15, <1>16, <1>17, <1>18 DEF Works, Step

LEMMA NextInStep ==
  ASSUME Ops \subseteq LockedOps
  PROVE TypeInv /\ LockExclusive /\ DnsdistInStep /\ [Next]_vars => DnsdistInStep'
<1> SUFFICES ASSUME TypeInv, LockExclusive, DnsdistInStep, [Next]_vars, crashes' = 0
             PROVE DnsdistInStep'
  BY DEF DnsdistInStep
<1>1. CASE UNCHANGED <<file, live, pc, crashes>>
  BY <1>1 DEF DnsdistInStep
<1>2. ASSUME NEW p \in Procs, Start(p) \/ AcquireLock(p) \/ Release(p) PROVE DnsdistInStep'
  <2>1. /\ UNCHANGED <<file, live, crashes>>
        /\ \A q \in Procs : pc[q] = "dnsdist_restart" => pc'[q] = "dnsdist_restart"
    BY <1>2 DEF Start, AcquireLock, Release, Exit, Goto, TypeInv, TypeOK
  <2> QED
    BY <2>1 DEF DnsdistInStep
<1>3. ASSUME NEW p \in Procs, Works(p) PROVE DnsdistInStep'
  <2>1. ASSUME NEW q \in Procs, pc[q] = "dnsdist_restart" PROVE q = p
    BY <1>3, <2>1, WorksLocal DEF LockExclusive, TypeInv, Progress, ProgressOf
  <2>2. pc[p] # "dnsdist_restart" => live.dnsdist = file.dnsdist
    BY <1>3, <2>1, WorksCopies DEF DnsdistInStep
  <2> QED
    BY <1>3, <2>2, WorksInStep DEF DnsdistInStep
<1>4. ASSUME NEW p \in Procs, Crash(p) PROVE FALSE
  BY <1>4 DEF Crash, TypeInv, TypeOK
<1>5. ASSUME NEW i \in {"policy", "zones", "upstream", "cache"}, Edit(i) PROVE DnsdistInStep'
  BY <1>1, <1>5 DEF Edit
<1> QED
  BY <1>1, <1>2, <1>3, <1>4, <1>5 DEF Next, Works, vars

(* A step of a full deploy. *)
LEMMA WorksStages ==
  ASSUME TypeInv, NEW p \in Procs, PlaceOf(p), op[p] \in FullOps, StagesOf(p), Works(p),
         crashes = 0 /\ pc[p] # "dnsdist_restart" => live.dnsdist = file.dnsdist
  PROVE StagesOf(p)' /\ DeployedOf(p)'
<1>0. /\ file \in AnyFiles /\ live \in AnyFiles /\ bak[p] \in AnyFiles
      /\ staged \in [Procs -> AnyFiles] /\ staged[p] \in AnyFiles
      /\ pc \in [Procs -> Labels] /\ op' = op /\ crashes' = crashes
      /\ pc[p] \in {"validate", "reload"} => staged[p].rpz \in Policies
      /\ pc[p] # "reuse"
  BY WorksLocal, WorksCopies DEF TypeInv, TypeOK, Progress, ProgressOf, PlaceOf, FullOps
<1> USE <1>0, DeployAssumption DEF StagesOf, DeployedOf, Recorded, Holds, Runs, Goto, AnyFiles,
        AfterRpz, AfterZones, AfterUpstreams, AfterCache, AfterDnsdist
<1>1. CASE CollectRules(p)
  BY <1>1 DEF CollectRules
<1>2. CASE ReuseCheck(p)
  BY <1>2 DEF ReuseCheck
<1>3. CASE InstallRpz(p)
  BY <1>3 DEF InstallRpz, Install
<1>4. CASE ReloadBind(p)
  BY <1>4 DEF ReloadBind, Raise
<1>5. CASE StageRaises(p)
  BY <1>5 DEF StageRaises, Raise
<1>6. CASE DeployZones(p)
  BY <1>6 DEF DeployZones, Install
<1>7. CASE DeployZonesCheck(p)
  BY <1>7 DEF DeployZonesCheck, Raise, Proceed, NextStage
<1>8. CASE DeployUpstreams(p)
  BY <1>8 DEF DeployUpstreams, Install
<1>9. CASE DeployUpstreamsCheck(p)
  <2>1. CASE pc'[p] = "rollback"
    BY <2>1
  <2>2. CASE pc'[p] # "rollback"
    <3>1. pc[p] = "upstreams_check" /\ pc'[p] = "cache" /\ UNCHANGED <<file, staged>>
      BY <1>9, <2>2 DEF DeployUpstreamsCheck, Raise, Proceed, NextStage
    <3>2. live' \in {[live EXCEPT !.upstream = file.upstream], RestartDnsdist(file)}
      BY <1>9, <2>2 DEF DeployUpstreamsCheck, Raise
    <3>3. live'.rpz = live.rpz /\ live'.zones = live.zones /\ live'.upstream = file.upstream
      BY <3>2 DEF RestartDnsdist
    <3> QED
      BY <3>1, <3>3
  <2> QED
    BY <2>1, <2>2
<1>10. CASE DeployCache(p)
  BY <1>10 DEF DeployCache, Install
<1>11. CASE DeployCacheCheck(p)
  BY <1>11 DEF DeployCacheCheck, Raise, Proceed, NextStage
<1>12. CASE DeployDnsdistLayer(p)
  BY <1>12 DEF DeployDnsdistLayer, Install
<1>13. CASE DeployDnsdistRestart(p)
  BY <1>13 DEF DeployDnsdistRestart, Raise, RestartDnsdist
<1>14. CASE PostCheck(p)
  BY <1>14 DEF PostCheck
<1>15. CASE RecordReusablePolicy(p)
  BY <1>15 DEF RecordReusablePolicy
<1>16. CASE RecordReusableManifest(p)
  BY <1>16 DEF RecordReusableManifest
<1>17. CASE Succeed(p)
  BY <1>17 DEF Succeed, ActiveDomains
<1>18. CASE Rollback(p)
  BY <1>18 DEF Rollback, RolledBackFiles
<1> QED
  BY <1>1, <1>2, <1>3, <1>4, <1>5, <1>6, <1>7, <1>8, <1>9, <1>10, <1>11, <1>12, <1>13, <1>14,
     <1>15, <1>16, <1>17, <1>18 DEF Works, Step

LEMMA NextStages ==
  ASSUME Ops \subseteq LockedOps
  PROVE TypeInv /\ LockExclusive /\ Places /\ DnsdistInStep /\ StagesInv /\ [Next]_vars
          => StagesInv'
<1> SUFFICES ASSUME TypeInv, LockExclusive, Places, DnsdistInStep, StagesInv, [Next]_vars,
                    NEW q \in Procs, op'[q] \in FullOps
             PROVE StagesOf(q)' /\ DeployedOf(q)'
  BY DEF StagesInv
<1>0. PlaceOf(q) /\ (op[q] \in FullOps => StagesOf(q) /\ DeployedOf(q))
  BY DEF Places, StagesInv
<1> DEFINE Kept == /\ op'[q] = op[q] /\ pc'[q] = pc[q] /\ staged'[q] = staged[q]
                   /\ UNCHANGED <<file, live>>
<1>1. ASSUME Kept, UNCHANGED <<row, crashes>> PROVE StagesOf(q)' /\ DeployedOf(q)'
  BY <1>0, <1>1 DEF StagesOf, DeployedOf, Recorded, Holds, Runs
<1>2. ASSUME pc'[q] \in {"idle", "lock", "collect"} PROVE StagesOf(q)' /\ DeployedOf(q)'
  BY <1>2 DEF StagesOf, DeployedOf, Recorded, AfterRpz, AfterZones, AfterUpstreams, AfterCache,
              AfterDnsdist
<1>3. ASSUME NEW p \in Procs, Start(p) PROVE StagesOf(q)' /\ DeployedOf(q)'
  <2>1. CASE q = p
    <3>1. pc'[q] \in {"idle", "lock", "collect"}
      BY <1>3, <2>1 DEF Start, Goto, LockedOps, TypeInv, TypeOK
    <3> QED
      BY <1>2, <3>1
  <2>2. CASE q # p
    BY <1>1, <1>3, <2>2 DEF Start, Goto, TypeInv, TypeOK
  <2> QED
    BY <2>1, <2>2
<1>4. ASSUME NEW p \in Procs, AcquireLock(p) PROVE StagesOf(q)' /\ DeployedOf(q)'
  <2>1. CASE q = p
    <3>1. pc'[q] \in {"idle", "lock", "collect"}
      BY <1>4, <2>1 DEF AcquireLock, Goto, FirstLabel, FullOps, TypeInv, TypeOK
    <3> QED
      BY <1>2, <3>1
  <2>2. CASE q # p
    <3>1. op[q] = op'[q] /\ pc'[q] = pc[q]
      BY <1>4, <2>2 DEF AcquireLock, Goto, TypeInv, TypeOK
    <3>2. pc[q] \in {"idle", "lock"}
      BY <1>4, <3>1, DeployAssumption DEF AcquireLock, LockExclusive, LockedOps
    <3> QED
      BY <1>2, <3>1, <3>2
  <2> QED
    BY <2>1, <2>2
<1>5. ASSUME NEW p \in Procs, Release(p) \/ Crash(p) PROVE StagesOf(q)' /\ DeployedOf(q)'
  <2>1. q # p
    BY <1>5 DEF Release, Crash, Exit, FullOps, TypeInv, TypeOK
  <2>2. Kept /\ UNCHANGED row
    BY <1>5, <2>1 DEF Release, Crash, Exit, TypeInv, TypeOK
  <2>3. UNCHANGED crashes \/ crashes' # 0
    BY <1>5 DEF Release, Crash, TypeInv, TypeOK
  <2> QED
    BY <1>0, <2>2, <2>3 DEF StagesOf, DeployedOf, Recorded, Holds, Runs
<1>6. ASSUME NEW p \in Procs, Works(p) PROVE StagesOf(q)' /\ DeployedOf(q)'
  <2>0. op' = op /\ UNCHANGED crashes /\ lock = p
    BY <1>6, WorksLocal, WorksCopies DEF LockExclusive, TypeInv, Progress, ProgressOf
  <2>1. CASE q = p
    <3>1. ASSUME NEW r \in Procs, pc[r] = "dnsdist_restart" PROVE r = p
      BY <2>0, <3>1 DEF LockExclusive, TypeInv, Progress, ProgressOf
    <3>2. crashes = 0 /\ pc[p] # "dnsdist_restart" => live.dnsdist = file.dnsdist
      BY <3>1 DEF DnsdistInStep
    <3> QED
      BY <1>0, <1>6, <2>0, <2>1, <3>2, WorksStages
  <2>2. CASE q # p
    <3>1. pc'[q] = pc[q] /\ pc[q] \in {"idle", "lock"}
      BY <1>6, <2>0, <2>2, WorksLocal DEF LockExclusive, LockedOps
    <3> QED
      BY <1>2, <3>1
  <2> QED
    BY <2>1, <2>2
<1>7. ASSUME NEW i \in {"policy", "zones", "upstream", "cache"}, Edit(i)
      PROVE StagesOf(q)' /\ DeployedOf(q)'
  BY <1>1, <1>7 DEF Edit
<1>8. CASE UNCHANGED vars
  BY <1>1, <1>8 DEF vars
<1> QED
  BY <1>3, <1>4, <1>5, <1>6, <1>7, <1>8 DEF Next, Works

\* As long as every command takes the deploy lock, a full deploy recorded 'deployed'
\* left BIND and dnsdist running what it installed, and a row that tells whether
\* protection is on, whatever deploys were killed before it.
THEOREM DeployedIsLive ==
  ASSUME Ops \subseteq LockedOps
  PROVE Spec => []DeployedMeansLive
<1>1. Init => Places /\ DnsdistInStep /\ StagesInv
  BY DEF Init, Places, PlaceOf, Rendering, NoContent, DnsdistInStep, StagesInv, FullOps
<1>2. TypeInv /\ LockExclusive /\ DnsdistInStep /\ [Next]_vars => DnsdistInStep'
  BY NextInStep
<1>3. TypeInv /\ LockExclusive /\ Places /\ DnsdistInStep /\ StagesInv /\ [Next]_vars
          => StagesInv'
  BY NextStages
<1>4. StagesInv => DeployedMeansLive
  BY DEF StagesInv, DeployedOf, Runs, DeployedMeansLive
<1> QED
  BY <1>1, <1>2, <1>3, <1>4, TypeCorrect, LockExclusion, NextPlaces, PTL DEF Spec

=============================================================================
