\* Every ioctl and file operation, two threads, two calls each.
CONSTANTS
  Threads = {t1, t2}
  Nobody = Nobody
  Dwords = {0, 1}
  Mixes <- MCMixes
  MaxRw = 8
  MaxCalls = 2
  PageSize = 2
  BufSize = 4
  RegionSize <- MCRegionSize
SPECIFICATION SysSpec
INVARIANTS Restorable IpcFresh AccessInside
PROPERTY CallReturns
CHECK_DEADLOCK FALSE
