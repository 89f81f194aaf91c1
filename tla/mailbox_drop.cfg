\* The hub and two spokes.
CONSTANTS
  Cores = {0, 1, 2}
  Hub = 0
  LowApps = {}
  MaxPosts <- Posts
SPECIFICATION FairSpec
PROPERTY NothingDropped
CHECK_DEADLOCK FALSE
