SPECIFICATION Spec
CONSTANTS
  TIMERS_MAX = 3
  QUEUE_SIZE = 3
  TICK_LIMIT = 4
  Intervals = {1, 2}
  Repeats = {0, 2}
PROPERTY RepeatsIntervals
