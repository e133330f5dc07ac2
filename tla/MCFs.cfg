SPECIFICATION Spec
CONSTANTS
  NInodes = 12
  NINODE = 6
  DIRSIZ = 14
  Proc = {1, 2, 3}
  NFILE = 4
  NOFILE = 4
  WriteMax = 2
  Code <- MCCode
  Main <- MCMain
  Alone <- MCAlone
  Image <- MCImage
INVARIANTS
  References
  FreedInTime
  NameSpace
  
  TestsPass

  
