SPECIFICATION WSpec
CONSTANTS
  MaxLen = 5
  Values = {0, 1, 2}
  BLOCK_SIZE = 2
  BlockCounts = {0, 1, 2, 3, 4, 8}
  U8 = 3
  Usize = 16
  Bits = 4
  StackDepth = 6
  SIZE = 3
  Matrices <- MCMatrices
  INFINITY = 99
  InitialSize = 2
  Additions = 9
  Numbers = {1, 2}
  Lengths = {0, 1, 2}
  Randoms = {0, 2}
  Ints <- MCInts
  INT_MAX = 3
  Uint64 = 16
INVARIANTS OrderedAsCalled Rearranged TreeCovers  ReachesAll ShortestPaths
INVARIANTS PrintsAdded 
\* The programs may end.
CHECK_DEADLOCK FALSE
