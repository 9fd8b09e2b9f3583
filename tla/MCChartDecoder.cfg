SPECIFICATION DecoderSpec
CONSTANTS
  t1 = t1
  t2 = t2
  t3 = t3
  Threads <- ThreeThreads
  NumTasks = 4
  QueueLimits = {0, 2}
  ProcessRemainingJobs = TRUE
  SegId <- NoSegIds
  StartTranslationId = 0
INVARIANTS
  EveryJobInOnePlace
  AllRunWhenStopped
PROPERTIES
  ClientGetsThrough
  OutputsInOrder
CHECK_DEADLOCK FALSE
