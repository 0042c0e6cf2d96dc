SPECIFICATION Spec
CONSTANTS
  TTY_MAX = 2
  VGA_WIDTH = 2
  VGA_HEIGHT = 2
  CLOCK_COLUMN = 0
  RINGBUF_SIZE = 2
  Char = {"a", "b", "nl", "tab", "bs", "cr", "A", "n", "N", "0", "1", "end", "!", ")"}
  OutputChoices = {{"a", "b", "nl"}, {"a", "tab", "bs", "cr"}}
  MaxWrite = 2
  MaxText = 4
  MaxDrawn = 1
CHECK_DEADLOCK FALSE
INVARIANT CursorOnScreen
