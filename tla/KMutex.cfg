SPECIFICATION ShellSpec
CONSTANTS
  PROC_MAX = 4
  QUEUE_SIZE = 4
  SCHEDULER_TIMESLICE = 1
  NBoot = 4
  MaxPid = 5
  SleepTicks = {0}
  MUTEX_MAX = 3
  SHELL_MUTEXES = 2
  ShellChoices = {{}, {1, 2}, {1, 3}}
INVARIANTS
  ShellTypeOK
  Placement
  MutualExclusion
  LockCount
  WaitersQueued
  IdsExclusive
  ReadersExclusive
  SharedIdsValid
PROPERTY
  HandOff
