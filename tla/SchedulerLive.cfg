SPECIFICATION ShellFairSpec
CONSTANTS
  PROC_MAX = 3
  QUEUE_SIZE = 3
  SCHEDULER_TIMESLICE = 2
  NBoot = 3
  MaxPid = 4
  SleepTicks = {1}
  MUTEX_MAX = 2
  SHELL_MUTEXES = 1
  ShellChoices = {{}, {1, 2}}
PROPERTIES
  EveryReadyRuns
  SleepersWake
  LockGranted
