\* Tasks make any system call: three slots, a ring of two messages.
CONSTANTS
  NUMPROCS = 3
  QUEUESIZE = 2
  BootTasks <- BootTwo
  Priorities = {1}
  Events = {uart, off}
  Enabled = {uart}
  Latched = {uart}
  Fifo = {uart}
  MaxExtra = 1
  EventBound = 1
SPECIFICATION Spec
VIEW Observed
INVARIANTS TypeOK OnePlace OneReasonToSleep NoMissedEvent ParksOnlyWhenAllBlocked
PROPERTY NoCallLosesATask
CHECK_DEADLOCK FALSE
