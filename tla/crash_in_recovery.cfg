\* The primary manifest is damaged and the recovery that finds it is interrupted.
SPECIFICATION RecoverySpec
CONSTANTS
  c1 = c1
  c2 = c2
  k1 = k1
  k2 = k2
  NoClient = NoClient
  Clients = {c1}
  Readers = {}
  Keys = {k1, k2}
  Batches <- KeyBatches
  FlushMaxRows = 2
  FlushMaxPoints = 0
  FlushMaxBytes = 0
  CompactionMinTables = 2
  MaxLog = 4
  MaxFaults = 0
  MaxUnlinkFaults = 1
  MaxCrashes = 1
  MaxExits = 1
  CrashPhases <- RecoveryPhases
  MaxDamage = 1
  MaxQuarantineFaults = 0
INVARIANTS
  DurableSurvives
