SPECIFICATION FairSpec
CONSTANTS
  r1 = r1
  d1 = d1
  Requests = {r1}
  Transfers = {}
  NoStream = NoStream
  IdSpace = 4
  Shard <- MCShard
  Buffer <- MCBuffer
  AcceptBuffer = 3
  Kinds = {"process", "conclusion"}
  Listened = TRUE
  PeerMayEnd = FALSE
  MaxFrames = 3
  MaxWire = 2
  MaxDisturbances = 0
PROPERTY ClosedStreamsEnd
CHECK_DEADLOCK FALSE
