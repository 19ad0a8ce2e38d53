\* A VF: the completion of a call that timed out arrives later.
CONSTANTS
  t1 = t1
  t2 = t2
  Threads <- TwoThreads
  Idx = {0}
  DevFn = 2
  VfNum = 1
  Requests <- ContendRequests
  HwOutcomes = {{"done"}}
  Nobody = Nobody
  Stale = Stale
SPECIFICATION Spec
INVARIANT SuccessIsOwn
