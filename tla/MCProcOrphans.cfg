SPECIFICATION FairSpec
CONSTANTS
  NPROC = 4
  CPU = {c1}
  NoCpu = NoCpu
  IoChan = {}
  PidArg = {2}
  Prio = {1}
  MaxPid = 4
INVARIANTS
  LiveParent
  NoMissedZombie
PROPERTIES
  StrongestRuns
