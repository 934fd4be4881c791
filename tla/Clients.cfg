SPECIFICATION MCSpec
CONSTANTS
  t1 = t1
  t2 = t2
  c1 = c1
  c2 = c2
  n1 = n1
  n2 = n2
  n3 = n3
  Callers = {t1, t2}
  ConnSlots = {c1, c2}
  FaultSets <- MCFaults
  Size = 2
  MaxGen = 2
  MaxOps = 2
  MaxGuards = 1
  Clients <- MCPipelines
  Shards = 3
  Width = 2
  Hashes = {3, 7}
  MaxCommands = 2
  Rings <- MCRings
  NoServer = NoServer
  Servers = {n1, n2, n3}
  Slots = {1, 2}
  Seeds <- MCSeeds
  FirstOwner <- MCOwner
  Named = {n3}
  MaxMoves = 1
  MaxDrops = 2
  MaxRouted = 2
  MAX_REDIRECTS = 4
  MAX_TRANSIENT_RETRIES = 1
INVARIANTS
  ClientsOwned RepliesInStep CommandsRouted ClusterServed
PROPERTIES
  StepsSound
SYMMETRY Symm
CHECK_DEADLOCK FALSE
