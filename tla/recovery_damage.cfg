\* Clean exits, two damaged files and one that cannot be moved.
SPECIFICATION RecoverySpec
CONSTANTS
  c1 = c1
  c2 = c2
  k1 = k1
  k2 = k2
  NoClient = NoClient
  Clients = {c1}
  Readers = {}
  Keys = {k1, k2}
  Batches <- KeyBatches
  FlushMaxRows = 2
  FlushMaxPoints = 0
  FlushMaxBytes = 0
  CompactionMinTables = 2
  MaxLog = 4
  MaxFaults = 0
  MaxUnlinkFaults = 1
  MaxCrashes = 0
  MaxExits = 2
  CrashPhases <- AnyPhase
  MaxDamage = 2
  MaxQuarantineFaults = 1
INVARIANTS
  RecoveryTypeOK
  DurableSurvives
  OrderedAcrossRestarts
