\* IRQ_INIT beside an interrupt in test mode.
CONSTANTS
  t1 = t1
  t2 = t2
  Threads <- TwoThreads
  Irqs = {0}
  Srcs = {0}
  Confs <- HangConfs
  VfReset = 4
  MaxOwed = 1
  Nobody = Nobody
SPECIFICATION SleepSpec
PROPERTY IoctlReturns
