SPECIFICATION Spec
CONSTANTS
  Programs <- BlockClosures
  Bits = 6
INVARIANT AcceptedReturnsAreTyped
CHECK_DEADLOCK FALSE
