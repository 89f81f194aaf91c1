\* The lock of four cores, as in the build, and a heap of five entries: three rows
\* of the tree.
CONSTANTS
  Cores = {0, 1, 2, 3}
  Pids = {p1, p2, p3, p4, p5}
  Levels = {0, 1}
  Capacity = 5
  Unused = unused
  LowWord = 3
  MaxTime = 4
SPECIFICATION PrimitivesSpec
SYMMETRY TasksAlike
INVARIANTS TypeOK MutualExclusion NoSleeperForgotten RightOneIsTaken EntriesKept
