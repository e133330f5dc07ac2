SPECIFICATION Spec
CONSTANTS
  Writers = {w1, w2}
  Readers = {r1}
  Byte = {0, 1}
  PIPESIZE = 2
  UINT = 4
  MaxN = 2
  NoProc = NoProc
INVARIANTS PageSafe NoForgottenSleeper
PROPERTIES FifoSpec
