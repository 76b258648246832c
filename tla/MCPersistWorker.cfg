CONSTANTS
  all = all
  stopper = stopper
  q1 = q1
  q2 = q2
  Callers = {all, stopper}
  Stopper = stopper
  Debounce = 2
  QueueCap = 1
  StoreFails = FALSE
  MaxVersion = 3
  MaxAge = 4
  Off = Off
SPECIFICATION MCSpec
INVARIANTS
  NoLostWakeup
  AckMeansSaved
  LeavesNothingBehind
PROPERTIES
  NoSaveAfterStop
  ImplementsWriteBehind
  StopsEnd
CHECK_DEADLOCK FALSE
