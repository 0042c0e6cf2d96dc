SPECIFICATION RingSpec
CONSTANTS
  RINGBUF_SIZE = 4
  Cursors = 2
  Byte = {0, 1}
  MaxLen = 5
INVARIANT
  RingTypeOK
PROPERTY
  ImplementsStream
