\* A reader runs across flushes and compactions of two writers.
SPECIFICATION Spec
CONSTANTS
  c1 = c1
  c2 = c2
  c3 = c3
  r1 = r1
  k1 = k1
  k2 = k2
  NoClient = NoClient
  Clients = {c1, c2}
  Readers = {r1}
  Keys = {k1, k2}
  Batches <- KeyBatches
  FlushMaxRows = 2
  FlushMaxPoints = 0
  FlushMaxBytes = 0
  CompactionMinTables = 2
  MaxLog = 4
  MaxFaults = 0
  MaxUnlinkFaults = 1
SYMMETRY ClientKeySymmetry
INVARIANTS
  QueryNeverRaises
  NoStaleRead
  CompleteUnlessSkipped
