SPECIFICATION Spec
CONSTANTS
  Games = {0}
  Players = {p1, p2, p3}
  Nobody = nobody
  Slots = {"c1", "c2"}
  TrainIds = {1}
  Speeds = {0, 5, 15}
  SwitchIds = {3}
  Sensors = {7, 8}
  Commands <- MCCommands
  Layouts <- MCLayouts
  Starts = {0, 4, 13, 30, 45, 63, 72, 89, 101, 118, 121, 135}
  Finishes = {1, 17, 33, 46, 58, 75, 84, 98, 107, 119, 124, 130}
INVARIANTS
  TypeOK
  StoredMovesAreSleepers
  NoNodeTwice
  ShortestOverOwnCells
  SwitchesLieForRoute
  SpeedsAgree
  ReportsComplete
PROPERTIES
  VerdictsAgree
  AnsweredByCallee
CHECK_DEADLOCK FALSE
