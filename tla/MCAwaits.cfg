CONSTANTS
  Parts = {"awaits", "runs"}
  tool1 = tool1
  perm1 = perm1
  r1 = r1
  r2 = r2
  none = none
  root = root
  worker = worker
  helper = helper
  Awaiters <- MCAwaiters
  PermAwaiters <- MCPerms
  Ids <- MCIds
  Id <- MCId
  Resolvers = {r1, r2}
  NoAwait = none
SPECIFICATION MCSpec
INVARIANTS
  Ownership
  RunsAreWhole
PROPERTIES
  ImplementsPromise
  WaitsReturn
CHECK_DEADLOCK FALSE
