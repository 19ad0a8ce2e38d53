\* A VF: chain and single-mode calls of two threads on one channel.
CONSTANTS
  t1 = t1
  t2 = t2
  Threads <- TwoThreads
  Idx = {0}
  DevFn = 2
  VfNum = 1
  Requests <- SharedRequests
  HwOutcomes = {{"done"}, {"err"}, {"done", "err"}}
  Nobody = Nobody
  Stale = Stale
SPECIFICATION FairSpec
INVARIANTS RegistersOwned OwnDone
PROPERTIES NoReprogram XferReturns
