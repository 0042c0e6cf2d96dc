SPECIFICATION ConsoleSpec
CONSTANTS
  TTY_MAX = 2
  VGA_WIDTH = 2
  VGA_HEIGHT = 2
  CLOCK_COLUMN = 0
  RINGBUF_SIZE = 2
  Char = {"a", "b", "nl", "tab", "bs", "cr", "A", "n", "N", "0", "1", "end", "!", ")"}
  OutputChoices = {{}, {"a", "b", "nl"}, {"a", "tab", "bs", "cr"}}
  MaxWrite = 2
  MaxText = 4
  MaxDrawn = 1
  KeyChoices = {{}, {30, 28, 42, 54}, {30, 56, 57400, 2, 11}, {49, 29, 57373, 1}, {58, 30, 42, 55}, {69, 79, 42}, {30, 42, 56, 29, 2}}
  Readers = {0}
  BUF_SIZE = 2
  MaxHeld = 2
  MaxTyped = 3
CHECK_DEADLOCK FALSE
INVARIANTS
  ConsoleTypeOK
  ScreenInSync
  ShowsText
  TypedArrives
