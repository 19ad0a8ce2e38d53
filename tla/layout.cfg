CONSTANTS
  VfNums = {0, 14, 60}
  VfsBeside = 1
  EataDescs = 3
  PoolNum = 6
  IndexMod = 4
  Offsets = {0, 3840, 3844}
  Vectors = {32}
  PageSizes = {0, 1, 2, 3, 4, 5, 6, 7}
SPECIFICATION LayoutSpec
INVARIANTS RegistersApart ToolsAgree ListsApart Isolated NewestWalks
CHECK_DEADLOCK FALSE
