\* A PF and a VF, in test mode, in work mode and between the two.
CONSTANTS
  t1 = t1
  t2 = t2
  Threads <- TwoThreads
  Irqs = {0, 1}
  Srcs = {0, 1}
  Confs <- SafeConfs
  VfReset = 1
  MaxOwed = 2
  Nobody = Nobody
SPECIFICATION Spec
INVARIANTS Conserved NoLeakedVector InitDone
PROPERTY ModeStable
