SPECIFICATION Spec
CONSTANTS
  PageBytes = 4
  KeyLo = 64
  KeyHi = 16
  Pools <- MCPools
  Sizes <- MCSizes
INVARIANTS
  Partition
  TreesSound
PROPERTY
  PoolRefined
