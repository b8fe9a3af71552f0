CONSTANTS
  ChunkPackets = 24
  InitSsthresh = 2
  MaxWin = 4
  DupAckLimit = 3
SPECIFICATION Spec
INVARIANTS
  TypeOK
  WindowOrder
  NoStall
PROPERTIES
  SendFillsWindow
  RollbackKeepsAcked
