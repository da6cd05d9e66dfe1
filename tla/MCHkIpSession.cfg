SPECIFICATION Spec
CONSTANTS
  MaxLength = 2
  RecvSize = 12
  Overhead = 2
  HeaderSize = 4
  Block = 3
  Contents <- MCContents
  KeySizes <- MCKeySizes
  SrpIds <- MCSrpIds
  Frames = 5
  MaxEvents = 2
  MaxFaults = 2
INVARIANTS
  TypeOK
  StreamsInStep
  RequestIsWhole
  SetupUsesLiveKeys
PROPERTIES
  RequestIsAnswered
