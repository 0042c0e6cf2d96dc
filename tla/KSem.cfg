SPECIFICATION PingPongSpec
CONSTANTS
  PROC_MAX = 3
  QUEUE_SIZE = 3
  SCHEDULER_TIMESLICE = 1
  NBoot = 3
  MaxPid = 4
  SleepTicks = {0}
  SEM_MAX = 3
  Values = {0, 1}
  NullPids = {0, 1, 77}
  MaxTokens = 2
  PingChoices = {{}, {1}}
  PongChoices = {{}, {2}}
CHECK_DEADLOCK FALSE
INVARIANTS
  PingPongTypeOK
  SemIdsExact
  NoTokenCreated
  PoolHasNoWaiters
  TurnsBounded
