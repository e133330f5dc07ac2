SPECIFICATION Spec
CONSTANTS
  NInodes = 12
  NINODE = 6
  DIRSIZ = 14
  Proc = {1, 2}
  NFILE = 4
  NOFILE = 4
  WriteMax = 2
  Code <- MCCode
  Main <- MCLinkUnlink
  Alone <- MCAlone
  Image <- MCImage
INVARIANT
  NoCrossedLocks
CHECK_DEADLOCK FALSE
