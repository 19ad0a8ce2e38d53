SPECIFICATION FairSpec
CONSTANTS
  Threads = {t1}
  LlMax = 2
  Sgs = {3}
  TestCnts = {1, 2}
  Outcomes <- MCOutcomes
  MaxRounds = 3
  MaxNoMem = 1
CHECK_DEADLOCK FALSE
INVARIANTS
  HwOwned
  OwnSuccess
  StatusTruthful
  HeapExact
PROPERTIES
  EngineRefined
  RwReturns
