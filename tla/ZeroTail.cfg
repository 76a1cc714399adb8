SPECIFICATION Spec
CONSTANTS
  MaxTerm = 1
  MaxIndex = 3
  MaxEntries = 3
  Peers = {1, 2}
  Configs <- SmallConfigs
  EmptyConfig <- NoConfig
  Payloads <- SmallPayloads
  Blobs <- SmallBlobs
  EmptyPayload = EmptyPayload
  None = None
  NodeIds = {1}
  Appends <- SmallAppends
  Checkpoints <- SmallCheckpoints
  MaxCountItems = 2
  MaxBodyLen = 24
  MaxRecords = 2
  ZeroFill = 2
  Err = Err
  FirstPieces <- Pieces
  LastPieces <- Rests
INVARIANT RecoveredFramesDecode
