SPECIFICATION Spec
CONSTANTS
  c1 = c1
  c2 = c2
  s1 = s1
  s2 = s2
  End = End
  Wild = Wild
  Null = Null
  Stacks <- MCStacks
  SrvTypes <- MCSrvTypes
  ChrKinds <- MCChrKinds
  Facades <- MCFacades
  CharRange = 20
  MaxAccessories = 2
  MaxSrvs = 2
  MaxChrs = 3
  Handles <- MCHandles
  Served <- MCServed
  Ctls <- MCCtls
  Fds <- MCFds
  Values <- MCValues
  Numbers <- MCNumbers
  IdRange = 256
  MaxSubs = 2
  MaxQueue = 2
INVARIANTS
  TypeOK
  ListServesSetup
  TableServesSetup
  ListenerIsCurrent
SYMMETRY MCSymmetry
