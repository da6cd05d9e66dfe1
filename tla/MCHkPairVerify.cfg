SPECIFICATION FairSpec
CONSTANTS
  d1 = d1
  d2 = d2
  n1 = n1
  n2 = n2
  k1 = k1
  k2 = k2
  k3 = k3
  z1 = z1
  z2 = z2
  Null = Null
  Devices <- MCDevices
  Secrets <- MCSecrets
  ZeroIds <- MCZeroIds
  Nodes <- MCNodes
  MaxFaults <- MCMaxFaults
INVARIANTS
  TypeOK
  SecureKeysAgree
  SessionIsKept
PROPERTIES
  PairedGetsThrough
