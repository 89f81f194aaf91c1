\* Tasks reply only to senders they have received from; the ring holds more
\* messages than there are tasks, as in the build (255 > 20).
CONSTANTS
  NUMPROCS = 4
  QUEUESIZE = 5
  BootTasks <- BootThree
  Priorities = {1}
  Events = {clock}
  Enabled = {clock}
  Latched = {}
  Fifo = {}
  MaxExtra = 0
  EventBound = 1
SPECIFICATION ServerSpec
INVARIANTS BuffersPinned NoMailWhileAsleep
PROPERTY ImplementsRendezvous
CHECK_DEADLOCK FALSE
