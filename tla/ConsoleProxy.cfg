SPECIFICATION Spec
CONSTANTS
  FrameMax = 3
  ByteMax = 7
INVARIANT RelayedOnce
INVARIANT VncStream
INVARIANT NoHalfOpen
CHECK_DEADLOCK FALSE
