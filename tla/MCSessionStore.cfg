CONSTANTS
  o1 = o1
  o2 = o2
  q1 = q1
  q2 = q2
  q3 = q3
  m1 = m1
  m2 = m2
  m3 = m3
  p1 = p1
  p2 = p2
  c1 = c1
  c2 = c2
  Drained = Drained
  NoQuery = NoQuery
  Objects = {o1, o2}
  Queries = {q1, q2, q3}
  Messages = {m1, m2, m3}
  LongWaits = FALSE
  LoadFails = FALSE
  MaxCalls = 2
  MaxCrashes = 1
  MaxRefusals = 2
  None = None
SPECIFICATION MCSpec
INVARIANTS
  SessionIsKept
  PromptsAreKept
  ServedWhenPossible
PROPERTIES
  SavesLoseNothing
  AllGoesOn
CHECK_DEADLOCK FALSE
