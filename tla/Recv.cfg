SPECIFICATION FairSpec
CONSTANTS
  Page = 6
  Hdr = 2
  Blk = 1
  Lens = {2, 5, 6, 7}
  MaxPkts = 3
  MaxConns = 2
CHECK_DEADLOCK FALSE
INVARIANTS PacketsArriveWhole BufferHasRoom
PROPERTIES UnreadIsRead
