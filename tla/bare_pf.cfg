\* A PF of a build without VFs: both directions, with errors on either channel.
CONSTANTS
  t1 = t1
  t2 = t2
  Threads <- OneThread
  Idx = {0}
  DevFn = 0
  VfNum = 0
  Requests <- AlternateRequests
  HwOutcomes = {{"done"}, {"err"}, {"done", "err"}}
  Nobody = Nobody
  Stale = Stale
SPECIFICATION FairSpec
INVARIANT NoLostDone
PROPERTY ReadDoneAcked
