SPECIFICATION FairSpec
CONSTANTS
  p1 = p1
  p2 = p2
  t1 = t1
  t2 = t2
  t3 = t3
  t4 = t4
  Process = {p1, p2}
  Thread = {t1, t2, t3, t4}
  ProcOf <- MCProcOf
  NoThread = NoThread
  NoProcess = NoProcess
INVARIANT MutualExclusion
PROPERTIES EveryCallReturns ImplementsMutex
