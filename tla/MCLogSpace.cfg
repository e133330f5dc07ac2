\* Three processes compete for a log that admits two calls at a time.
SPECIFICATION FairSpec
CONSTANTS
  Proc = {p1, p2, p3}
  Block = {b1, b2, b3, b4}
  Val = {v1}
  NoBuf = NoBuf
  NoBlock = NoBlock
  MAXOPBLOCKS = 2
  LOGSIZE = 4
  Size = 4
  OpBlocks = 1
INVARIANTS LogFitsOnDisk SleeperHasWaker
PROPERTY LogProgress
