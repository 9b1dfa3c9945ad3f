\* Two crashes, at any step of the engine or of recover().
SPECIFICATION RecoverySpec
CONSTANTS
  c1 = c1
  c2 = c2
  k1 = k1
  k2 = k2
  NoClient = NoClient
  Clients = {c1, c2}
  Readers = {}
  Keys = {k1, k2}
  Batches <- KeyBatches
  FlushMaxRows = 2
  FlushMaxPoints = 0
  FlushMaxBytes = 0
  CompactionMinTables = 2
  MaxLog = 4
  MaxFaults = 0
  MaxUnlinkFaults = 1
  MaxCrashes = 2
  MaxExits = 0
  CrashPhases <- AnyPhase
  MaxDamage = 0
  MaxQuarantineFaults = 0
SYMMETRY ClientSymmetry
INVARIANTS
  DurableSurvives
PROPERTY
  NoFileOverwritten
  DiskImplementsPrefixStore
