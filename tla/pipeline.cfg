\* One source of frames, a queue of one frame, both programs, every policy.
SPECIFICATION FairPipelineSpec
CHECK_DEADLOCK FALSE
CONSTANTS
  u = u
  Source = u
  Producers = {u}
  Programs = {"ingest", "capture"}
  Policies = {"block", "drop_oldest", "drop_newest"}
  QueueMax = 1
  BatchMaxRows = 2
  BatchMaxPoints = 3
  BatchMaxMs = {0, 50}
  FrameSizes <- SomeSizes
  MaxFrames = 3
  MaxStarts = 1
  MaxFaults = 1
INVARIANTS
  ShutdownStoresAll
PROPERTIES
  MainEnds
