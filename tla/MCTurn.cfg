CONSTANTS
  MaxRetries = 1
  FallbackAfter529 = 2
  Capacity = 2
  MaxChunks = 2
  q1 = q1
  q2 = q2
SPECIFICATION MCSpec
CHECK_DEADLOCK FALSE
INVARIANTS
  CallIsWhole
  RequestsAreAccepted
  StreamWhole
PROPERTIES
  EveryCallReturns
