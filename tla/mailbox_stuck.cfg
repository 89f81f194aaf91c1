\* The hub and two spokes, one message each; low-priority senders.
CONSTANTS
  Cores = {0, 1, 2}
  Hub = 0
  LowApps = {0}
  MaxPosts <- PostOnce
SPECIFICATION FairSpec
PROPERTY HubGetsLock
CHECK_DEADLOCK FALSE
