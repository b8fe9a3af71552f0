CONSTANTS
  ChunkPackets = 4
  InitSsthresh = 1
  MaxWin = 2
  DupAckLimit = 3
  RecvWin = 1
  Chunks = {c1, c2}
  None = None
  DataLimit = 2
  RecvLimit = 10
  AckLimit = 16
  MaxFaults = 4
  LateCost = 5
  MaxGets = 1
SPECIFICATION Spec
PROPERTY OrphanClosed
