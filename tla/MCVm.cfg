SPECIFICATION Spec
CONSTANTS
  Proc = {1, 2}
  initproc = 1
  Page <- MCPage
  NoPage = 0
  PGSIZE = 2
  PTN = 2
  UPD = 2
  KPD = 1
  Images <- MCImages
  Steps <- MCSteps
  Memory <- MCMemory
  MaxCalls = 3
INVARIANTS
  OnePlace
  

  
CHECK_DEADLOCK FALSE
