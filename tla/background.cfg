SPECIFICATION Spec
CONSTANTS
  a1 = a1
  a2 = a2
  u1 = u1
  u2 = u2
  u3 = u3
  Runners = {a1, a2}
  NoRunner = NoRunner
  MaxMovements = 2
  MaxDay = 2
  MaxProduct = 2
  MaxRuns = 2
  Builders = {a1, a2}
  NoBuilder = NoBuilder
  Kind <- WarehouseKinds
  MaxAttr = 2
  MaxAudit = 2
  MaxAuditDay = 2
  MaxBuilds = 2
  Actors = {a1, a2}
  NoActor = NoActor
  BackupNames = {"nightly"}
  MaxBackups = 2
  MaxSecond = 2
  MaxRestores = 2
  PoolUsers = {u1, u2, u3}
  PoolSize = 2
  MaxConn = 3
  MaxCursors = 4
  Writers = {a1, a2}
  NoWriter = NoWriter
  MaxRow = 4
  Legacy = 1
  MaxAge = 3
  RetentionDays = 1
  Raisers = {a1, a2}
  MaxAlertDay = 2
  MaxRaises = 4
CHECK_DEADLOCK FALSE
INVARIANTS
  TypeOK
  
  
  WatermarksCovered
  
  RestoreLoadsItsBackup
  ListedBackupsRestorable
  ConnectionsAreIsolated
  
  BreaksAreExplained
  OneAlertPerFailure
