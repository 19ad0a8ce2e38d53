\* Lists of fixed and of random sizes, chain and block mode.
CONSTANTS
  MaxSize = 9
  MaxCnt = 5
  MaxBlocks = 3
  Calls <- All
  RandSizes = {2, 3}
  Align = 4
  Word = 16
  CntMod = 5
SPECIFICATION Spec
INVARIANTS TypeOK Linked NoOverwrite ChainTiles EngineFollows Covers
CHECK_DEADLOCK FALSE
