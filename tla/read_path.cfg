\* Snapshots in blocks, one of them damaged or none, compacted or not, and every
\* query over them.
SPECIFICATION Spec
CONSTANTS
  GroupValues = 2
  MaxGroups = 3
  ByteValues = 2
  MaxParameter = 2
  Timestamps = {1, 2, 5}
  Stride = 10
  Parameters = {1, 2, 3}
  MaxInOne = 3
  FewTimes = {1, 2}
  FewParameters = {1, 2}
  MaxInTwo = 2
  MaxInMemtable = 2
  Inputs <- SmallInputs
  Queries <- SmallQueries
  DamagedTables = {1, 2}
  Formats = {"v1_raw", "v2_timeseries"}
  BlockSizes = {1, 2}
INVARIANTS
  ReadPathTypeOK
  QueryReturnsNewest
  FilesReadBack
  CompactionKeepsNewest
  AggregatesMatch
