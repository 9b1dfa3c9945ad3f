\* Two producers, a queue of one frame, every overflow policy.
SPECIFICATION FairSpec
CONSTANTS
  p1 = p1
  p2 = p2
  Producers = {p1, p2}
  Policies = {"block", "drop_oldest", "drop_newest"}
  QueueMax = 1
  BatchMaxRows = 2
  BatchMaxPoints = 3
  BatchMaxMs = {0, 50}
  FrameSizes <- MixedSizes
  MaxFrames = 3
  MaxStarts = 2
  MaxFaults = 1
INVARIANTS
  IngestTypeOK
  FramesAccountedFor
  RowsReachStorageInOrder
  CountersAddUp
  LossIsReported
  StopDrains
PROPERTIES
  WaitingProducerProceeds
  BatchIsFlushed
  StopEnds
