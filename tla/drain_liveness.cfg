\* Every flush that is queued is completed and every drain ends.
SPECIFICATION FairSpec
CONSTANTS
  c1 = c1
  c2 = c2
  c3 = c3
  r1 = r1
  k1 = k1
  k2 = k2
  NoClient = NoClient
  Clients = {c1, c2}
  Readers = {}
  Keys = {k1}
  Batches <- OneKeyBatches
  FlushMaxRows = 2
  FlushMaxPoints = 0
  FlushMaxBytes = 24
  CompactionMinTables = 2
  MaxLog = 4
  MaxFaults = 1
  MaxUnlinkFaults = 1
PROPERTIES
  QueuedEventuallyDurable
  LockIsReleased
