SPECIFICATION Spec
CONSTANTS
  c1 = c1  c2 = c2  s1 = s1  s2 = s2  u1 = u1
  Conns <- MCConns
  Sessions <- MCSessions
  Users <- MCUsers
  UserOf <- MCUserOf
  Opens <- MCOpens
  Contents <- MCContents
  MaxBlock = 2
  MaxTotal = 3
  Supports = {}
  Ids <- MCIds
  MessageBuf = 1
  SendBuf = 1
  StreamBuf = 1
  Events = 2
  MaxRequests = 1
  None = None
CHECK_DEADLOCK FALSE
INVARIANTS
  OnlyOwnSession
  RegisteredIsAlive
PROPERTIES
  NobodyIsHeld
