SPECIFICATION MutexSpec
CONSTANTS
  PROC_MAX = 4
  QUEUE_SIZE = 4
  SCHEDULER_TIMESLICE = 1
  NBoot = 4
  MaxPid = 5
  SleepTicks = {0}
  MUTEX_MAX = 2
INVARIANT IdsConserved
