CONSTANTS
  tool1 = tool1
  perm1 = perm1
  perm2 = perm2
  q1 = q1
  q2 = q2
  r1 = r1
  none = none
  Awaiters <- MCAwaiters
  PermAwaiters <- MCPerms
  Ids <- MCIds
  Id <- MCId
  Resolvers = {r1}
  NoAwait = none
  Queries = {q1, q2}
  Owner <- MCOwner
  SubAgent <- MCSubAgent
  Key <- MCKey
  Overlap = FALSE
  NoQuery = none
SPECIFICATION EngineFairSpec
INVARIANTS
  RunsOnlyWithConsent
  NoCallOutlivesQuery
PROPERTIES
  EngineUsesAwaits
  AbortedQueryFinishes
CHECK_DEADLOCK FALSE
