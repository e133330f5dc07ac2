SPECIFICATION Spec
CONSTANTS
  Proc = {p1, p2, p3}
  Block = {k1, k2, k3}
  Val = {v1, v2}
  NBUF = 2
  NoBlock = NoBlock
  NoProc = NoProc
  ReadErrors = FALSE
SYMMETRY Symmetry
INVARIANTS BufferPerBlock BufferIsBlock DriverInv
PROPERTIES OnlyHolderChanges
