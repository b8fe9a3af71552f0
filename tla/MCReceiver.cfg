CONSTANTS
  ChunkPackets = 6
  RecvWin = 2
  Chunks = {A, B}
  Wanted = A
  None = None
SPECIFICATION Spec
INVARIANTS
  TypeOK
  NextIsFirstGap
  BytesMatchNPE
  AcksCumulative

