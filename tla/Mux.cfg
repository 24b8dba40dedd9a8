SPECIFICATION FairSpec
CONSTANTS
  r1 = r1
  d1 = d1
  Requests = {r1}
  Transfers = {d1}
  NoStream = NoStream
  IdSpace = 4
  Shard <- MCShard
  Buffer <- MCBuffer
  AcceptBuffer = 1
  Kinds = {"process", "conclusion", "bad"}
  Listened = TRUE
  PeerMayEnd = TRUE
  MaxFrames = 3
  MaxWire = 1
  MaxDisturbances = 1
INVARIANTS
  TypeOK
  FramesInOrder
  EndComesLast
PROPERTY WaitingEnds
CHECK_DEADLOCK FALSE
