CONSTANTS
  t1 = t1
  t2 = t2
  c1 = c1
  c2 = c2
  f1 = f1
  f2 = f2
  x1 = x1
  x2 = x2
  p1 = p1
  p2 = p2
  Tasks = {t1, t2}
  Callers = {c1, c2}
  Plans <- MCPlans
  Operations <- MCOperations
  Queue = 1
  MaxWriters = 2
  MaxCalls = 3
  MaxFaults = 1
  MaxWrites = 3
  MaxFailures = 2
  Blank = Blank
  None = None
SPECIFICATION MCSpec
INVARIANTS
  AnsweredAsApplied
PROPERTIES
  ChangesAreOperations
  PromotedWhole
SYMMETRY Symmetry
CHECK_DEADLOCK FALSE
