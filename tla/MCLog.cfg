\* Calls of two blocks by two processes, shipped log geometry (Size = LOGSIZE).
SPECIFICATION Spec
CONSTANTS
  Proc = {p1, p2}
  Block = {b1, b2, b3}
  Val = {v1, v2}
  NoBuf = NoBuf
  NoBlock = NoBlock
  MAXOPBLOCKS = 4
  LOGSIZE = 8
  Size = 8
  OpBlocks = 2
SYMMETRY Symmetry
INVARIANTS DurableWhenQuiet LogInv
PROPERTY AtomicDiskSpec
