CONSTANTS
  Procs = {d1, d2}
  NoProc = NoProc
  Off = Off
  Policies = {p1, Off}
  RegexPolicies = {}
  Confs = {c1, c2}
  Absent = Absent
  Ops = {"deploy --no-download", "upstream-deploy", "cache-deploy"}
  Edits = {"upstream", "cache"}
  MaxCrashes = 0
  Requests = {q1, q2, q3}
  MaxIssued = 3
  MaxEncryptionKills = 1
  MaxUpgrades = 2
  MaxOtherDeploys = 2
  Resolvers = {up1, up2}
  MaxWorldChanges = 2
  MaxSettings = 1
  RestartThreshold = 1
  MaxCheckerKills = 1
SPECIFICATION MCSpec
SYMMETRY Symmetry
INVARIANT OwnInstallIntact
 
 
INVARIANT UpgradeReportIsTrue
INVARIANT AlertNotLost
