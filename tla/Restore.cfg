CONSTANTS
  Files = {f1, f2}
  Tables = {t1, t2}
  Writers = {w1}
  MaxRequests = 2
  MaxWrites = 2
  MaxCrashes = 1
  MaxBackupRequests = 2
  MaxBackups = 2
  MaxBackupKills = 1
  MaxSeconds = 2
  RetentionCount = 1
  Uploaders = {u1, u2}
  UploadLimit = 2
  MaxUploadSeconds = 2
  MaxCommits = 2
  MaxEdits = 1
  MaxImportKills = 1
SPECIFICATION MCSpec
INVARIANT PromotedWhole
INVARIANT OtherWritesSurvive
 
 
INVARIANT ListedIsOnDisk
INVARIANT ImportedIsWhole
 
PROPERTY RunningIsNotForever
