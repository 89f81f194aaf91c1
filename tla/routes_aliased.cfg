SPECIFICATION Spec
CONSTANTS
  Games = {0}
  Players = {p1}
  Nobody = nobody
  Slots = {"c1"}
  TrainIds = {1}
  Speeds = {0, 5, 15}
  SwitchIds = {3}
  Sensors = {7}
  Commands <- MCCommands
  Layouts <- MCLayouts
  Starts = {0}
  Finishes = {48}
INVARIANTS PathfindIsShortest
CHECK_DEADLOCK FALSE
