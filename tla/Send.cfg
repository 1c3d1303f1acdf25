SPECIFICATION FairSpec
CONSTANTS
  Cap = 2
  Lens = {1, 3}
  Limits = {0, 2, 4}
  MaxBytes = 7
INVARIANTS BufferFits InOrder WaitingIsWatched
PROPERTIES CloseFlushes BufferDrains
CHECK_DEADLOCK FALSE
