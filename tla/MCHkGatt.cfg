SPECIFICATION FairSpec
CONSTANTS
  on = on
  name = name
  verify = verify
  Null = Null
  Chrs <- MCChrs
  PairVerify <- verify
  Ids <- MCIds
  Mtus <- MCMtus
  RequestSizes <- MCRequestSizes
  ResponseSizes <- MCResponseSizes
  MaxTransactions <- MCMaxTransactions
  Frames <- MCFrames
INVARIANTS
  TypeOK
  ProcedureAgrees
  FramesInStep
  PlainResponseFits
  TimedWriteIsOwn
PROPERTIES
  ProcedureEnds
