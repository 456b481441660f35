CONSTANTS
  Procs = {d1, d2}
  NoProc = NoProc
  Off = Off
  Policies = {Off, p1}
  RegexPolicies = {}
  Confs = {c1}
  Absent = Absent
  Ops = {"deploy", "protection-enable-reuse"}
  Edits = {"policy"}
  MaxCrashes = 1
SPECIFICATION FairSpec
INVARIANT TypeOK
INVARIANT LockExclusive
INVARIANT DeployedMeansLive
PROPERTY DeployFinishes
