CONSTANTS
  ChunkPackets = 10
  InitSsthresh = 2
  MaxWin = 4
  DupAckLimit = 3
  RecvWin = 2
  Chunk = Chunk
  None = None
SPECIFICATION Spec
INVARIANTS
  TypeOK
  AckSound
  DoneMeansReceived
PROPERTY
  Delivers
