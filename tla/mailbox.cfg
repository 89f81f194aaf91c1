\* The hub and two spokes; the app of core 0 is preempted by the hub.
CONSTANTS
  Cores = {0, 1, 2}
  Hub = 0
  LowApps = {0}
  MaxPosts <- Posts
SPECIFICATION Spec
VIEW Observed
INVARIANTS TypeOK OneTokenPerMessage DeliveredInOrder HeldInside
CHECK_DEADLOCK FALSE
