SPECIFICATION FairSpec
CONSTANTS
  QueueCap = 2
  PipeCap = 3
  TrashSize = 2
  MaxPkts = 2
PROPERTIES RepliesAreSent
