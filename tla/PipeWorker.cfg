SPECIFICATION FairSpec
CONSTANTS
  QueueCap = 2
  PipeCap = 3
  TrashSize = 2
  MaxPkts = 4
INVARIANTS TypeOK WorkerIsWoken
PROPERTIES PacketsAreHandled
