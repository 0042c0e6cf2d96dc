SPECIFICATION IrqSpec
CONSTANTS
  TIMERS_MAX = 3
  QUEUE_SIZE = 3
  TICK_LIMIT = 4
  Intervals = {1, 2}
  Repeats = {0, 2}
  Lines = {0, 1, 9}
INVARIANTS
  IrqTypeOK
  IdsExact
  LinesReady
PROPERTIES
  Periodic
  LinesServed
