CONSTANTS
  p1 = p1
  p2 = p2
  h1 = h1
  h2 = h2
  h3 = h3
  h4 = h4
  Peers <- MCPeers
  Hashes <- MCHashes
  has <- MCHas
  needlist <- MCNeedlist
  PageSize = 2
  MaxNet = 10
  None = None
SPECIFICATION LiveSpec
INVARIANTS
  TypeOK
  RoundAsksAll
PROPERTY KeepsFinding
