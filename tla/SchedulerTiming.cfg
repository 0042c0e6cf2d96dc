SPECIFICATION TimingSpec
CONSTANTS
  PROC_MAX = 5
  QUEUE_SIZE = 5
  SCHEDULER_TIMESLICE = 2
  NBoot = 4
  MaxPid = 6
  SleepTicks = {0, 4}
INVARIANTS
  SchedTypeOK
  Placement
  NeverPanics
  WaitBound
  WakeBound
PROPERTIES
  NoEarlyWake
  ImplementsRoundRobin
