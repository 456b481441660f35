CONSTANTS
  Passes = {"poller"}
  IncludeEnc = FALSE
  Local = Local
  Reset = Reset
  MaxGens = 2
  MaxCrashes = 1
  MaxEdits = 1
  Requests = {r1, r2, r3}
  Tokens = {t1}
  None = None
  Prompt = TRUE
  AccessRoutes = {ar1, ar2}
  ClientRows = {cl1, cl2}
  MaxAccessEdits = 3
SPECIFICATION MCSpec
 
 
INVARIANT ReservationHasOneHolder
INVARIANT SingleUse
INVARIANT EnforcedAsEvaluated
INVARIANT NoZombieClient
 
PROPERTY OrphanIsFreed
 
