\* More than one byte is sent with OStream_transmitBytes.
CONSTANTS
  MaxLen = 7
  Bytes = 4
  Size = 3
SPECIFICATION OutputSpec
INVARIANT BytesSentOnce
