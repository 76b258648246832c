SPECIFICATION MCSpec
CONSTANTS
  Parts = {"cards", "frames"}
  FrameQueries = 1
  Main = Main
  None = None
  c1 = c1
  s = s
  a = a
  b = b
  d = d
  u = u
  v = v
  w = w
  z = z
  Agents = {s}
  Tools = {d, u, v}
  Calls <- NextCalls
  Spawns <- NextSpawns
  Limit <- Limits
  Concurrent = {v}
  MaxRetries = 1
  MaxPrompts = 1
  MaxDrops = 1
  MaxAborts = 1
  MaxMessages = 3
INVARIANTS
  CardsAreClosed
  FramesNameTheirParent

  
