SPECIFICATION Spec
CONSTANTS
  t1 = t1
  k0 = k0
  k1 = k1
  k2 = k2
  k3 = k3
  r1 = r1
  r2 = r2
  r3 = r3
  r4 = r4
  Null = Null
  Host = Host
  Tasks <- MCTasks
  Handles <- MCHandles
  Keys <- MCKeys
  Unshared = k0
  Revisions <- MCRevisions
  Prefixes <- MCPrefixes
  Counters <- MCCounters
  MaxAge <- MCMaxAge
  MaxState <- MCMaxState
  MaxUnseen <- MCMaxUnseen
  Scope <- MCScope
  MaxConns <- MCMaxConns
\* Without a configuration counter the accessory stays silent until a restart.
CHECK_DEADLOCK FALSE
SYMMETRY MCSymmetry
INVARIANTS
  TypeOK
  AdvertisesWhenFree
  RestartIsNoticed
  CounterFollowsRevision

  
