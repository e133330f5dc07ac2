SPECIFICATION FairSpec
CONSTANTS
  NPROC = 3
  CPU = {c1}
  NoCpu = NoCpu
  IoChan = {io}
  PidArg = {}
  Prio = {}
  MaxPid = 3
PROPERTIES
  RoundRobin
