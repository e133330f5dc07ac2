SPECIFICATION Spec
CONSTANTS
  NPROC = 3
  CPU = {c1, c2}
  NoCpu = NoCpu
  IoChan = {io}
  PidArg = {0, 2}
  Prio = {}
  MaxPid = 3
SYMMETRY Symmetry
INVARIANTS
  OneCpu
  NoKilledWaiter
  ProcInv

  
  
