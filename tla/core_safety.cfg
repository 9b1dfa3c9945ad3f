\* Three threads append, flush, compact and close; one task may fail.
SPECIFICATION Spec
CONSTANTS
  c1 = c1
  c2 = c2
  c3 = c3
  r1 = r1
  k1 = k1
  k2 = k2
  NoClient = NoClient
  Clients = {c1, c2, c3}
  Readers = {}
  Keys = {k1, k2}
  Batches <- MixedBatches
  FlushMaxRows = 2
  FlushMaxPoints = 3
  FlushMaxBytes = 0
  CompactionMinTables = 2
  MaxLog = 4
  MaxFaults = 1
  MaxUnlinkFaults = 0
SYMMETRY ClientSymmetry
INVARIANTS
  TypeOK
  ManifestAlwaysValid
  CrashSafe
  RunsOrdered
  NothingLost
  CloseIsDurable
  PendingHasDrainer
PROPERTY
  TablesNeverRegress
  ImplementsPrefixStore
  ImplementsMaintenanceLoop
