SPECIFICATION FairSpec
CONSTANTS
  HeadSize = 1
  BlkSize = 2
  PageSize = 3
  Length = 10
  MaxTries = 2
  Lens = {2, 3, 4}
  Payload = {a, b}
  Garbled = Garbled
INVARIANTS TypeOK WritesAreSafe ReadsAreBlocks
PROPERTIES OnlyConsumerMovesTail ImplementsFifo PushReturns
