\* A VF in test mode and in work mode.
CONSTANTS
  t1 = t1
  t2 = t2
  Threads <- TwoThreads
  Irqs = {0, 1}
  Srcs = {0, 1}
  Confs <- LiveConfs
  VfReset = 1
  MaxOwed = 1
  Nobody = Nobody
SPECIFICATION FairSpec
PROPERTIES SrcServed ReturnsUnlessBlocked
