SPECIFICATION Spec
CONSTANTS
  d1 = d1
  d2 = d2
  plainKey = plainKey
  zeroKey = zeroKey
  s1 = s1
  None = None
  Devices <- MCDevices
  DeviceKeys <- MCDeviceKeys
  ZeroKeys <- MCZeroKeys
  AccKeys <- MCAccKeys
  AccIds <- MCAccIds
  Sockets <- MCSockets
  MaxEntries <- MCMaxEntries
PROPERTIES
  RemovalSparesOthers
