CONSTANTS
  p1 = p1
  p2 = p2
  x1 = x1
  x2 = x2
  c1 = c1
  Free = Free
  k1 = k1
  s1 = s1
  s2 = s2
  d1 = d1
  d2 = d2
  d3 = d3
  j1 = j1
  j2 = j2
  o1 = o1
  o2 = o2
  w1 = w1
  Provs = {p1, p2}
  Endpoints = {1, 2, 3}
  Owner <- MCOwner
  MaxTokens = {0, 1, 2}
  Starts <- MCStarts
  Primaries <- MCPrimaries
  Chains <- MCChains
  Requests = {x1, x2}
  Calls = {c1}
  MaxChanges = 2
  MaxFaults = 1
  None = None
  Keep = Keep
  Blank = Blank
SPECIFICATION MCSpec
INVARIANTS
  CurrentAdaptersLive
  ConfigIsKept
  ToldIsKept
  UsedIsShown
  ActsAsTold
CHECK_DEADLOCK FALSE
SYMMETRY Symmetry
