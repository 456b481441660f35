CONSTANTS
  Procs = {d1, d2}
  NoProc = NoProc
  Off = Off
  Policies = {Off, p1, p2}
  RegexPolicies = {}
  Confs = {c1}
  Absent = Absent
  Ops = {"deploy --no-download", "protection-enable-reuse"}
  Edits = {"policy"}
  MaxCrashes = 0
SPECIFICATION Spec
PROPERTY ReuseMatchesInputs
