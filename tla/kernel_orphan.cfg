\* Two servers and an idle task under fair scheduling and a live clock.
CONSTANTS
  NUMPROCS = 3
  QUEUESIZE = 4
  BootTasks <- BootThree
  Priorities = {}
  Events = {clock}
  Enabled = {clock}
  Latched = {}
  Fifo = {}
  MaxExtra = 0
  EventBound = 1
SPECIFICATION FairSpec
PROPERTY OrphansAreRescued
CHECK_DEADLOCK FALSE
